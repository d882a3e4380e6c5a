----------------------------- MODULE Stage6Commit -----------------------------
(***************************************************************************)
(* Stage 6 of the pipeline (stage6_commit.py, run_stage6) and the others   *)
(* that write to its store.                                                *)
(*                                                                         *)
(* The FBs of Stage 5 go to one SQLite table in one transaction: a new FB  *)
(* is inserted as a whole; of one the store has, only the columns of Stage *)
(* 5 are updated (commit_scope verification_scoped) or the row is replaced *)
(* under a new rowid (full_upsert).  The rows of the Stage 4 sidecars that *)
(* the store has are left alone.  Too many refused rows roll everything    *)
(* back.  The vectors of the rows are in another table, by rowid.          *)
(*                                                                         *)
(* Ratings (feedback.py) and merged sources (evidence_accumulator.py) are  *)
(* written to the same rows at any time.  The accumulator reads the rows   *)
(* first and writes in a transaction of its own.  SQLite has one writer at *)
(* a time; whoever waits too long fails as if it had not come.             *)
(*                                                                         *)
(* The id of an FB is a hash of its name and definition, so that a vector  *)
(* is of an id; its verdict and its sources may differ from one output to  *)
(* the next.  The runner starts one Stage 6 at a time; one accumulator is  *)
(* started at a time.  The dedup gate is in report mode: it lists FBs that *)
(* it would have an owner look at, and the list is a receipt.              *)
(***************************************************************************)
EXTENDS Naturals, FiniteSets, FiniteSetsExt

CONSTANTS Inputs,      \* the outputs of Stages 4 and 5, one after the other
          Of(_),       \* the FBs of one
          FBs,         \* [id, verdict, sources]: columns of Stage 5, sources of Stage 4
          Tier,        \* ids of non-principle FBs, of the Stage 4 sidecars
          ConceptOf(_), \* of an id: the concept key and the content type
          NameOf(_),   \* of an id: the normalized name
          TierSize(_, _), \* of a non-FB receipt, for an output and the ids not new in it
          GateSize(_), \* of a receipt of the dedup gate, for the FBs it lists
          Scopes,      \* what commit_scope is set to
          MaxFailed,   \* S6_MAX_FAILED_RATIO as a number of FBs (0)
          MaxRowid,    \* bound on the rowids, which full_upsert uses up
          MaxRatings,  \* bound on the ratings of an FB
          MaxRuns,     \* bound on runs of the accumulator
          MaxFailures, \* bound on refused rows, vectors that fail and crashes
          Absent

VARIABLES input,
          store,    \* rows by id
          vectors,  \* [rowid, id]: rowid and text of every vector
          ledger,   \* ratings in fb_feedback, by id
          record,   \* the checkpoint of Stage 6: commit_status by id
          receipts, \* sizes of the receipts on disk: of the tier, of the gate (0: no file)
          pc, scope,
          batch,    \* the FBs loaded
          skip,     \* ids of the tier the store had before the transaction
          todo, rows, vecs, status,   \* the transaction
          advised,  \* FBs that the dedup gate lists
          exit,
          seen,     \* what the accumulator has read, Absent: it does not run
          brought,  \* history: by id, sources a full_upsert brought since it read
          runs, failures

db == <<store, vectors>>
files == <<record, receipts>>
tx == <<todo, rows, vecs, status, advised>>
memory == <<scope, batch, skip, tx>>
others == <<ledger, seen, brought, runs>>
vars == <<input, db, others, files, pc, memory, exit, failures>>

Ids == {f.id : f \in FBs}
Sources == UNION {f.sources : f \in FBs}
Row == [rowid : Nat, verdict : {f.verdict : f \in FBs}, sources : SUBSET Sources, rated : Nat]
Status == {"INSERTED", "UPDATED", "ALREADY_STORED", "FAILED", "ROLLED_BACK"}

ASSUME SetsAssumption ==
    /\ Inputs \subseteq Nat /\ 1 \in Inputs
    /\ IsFiniteSet(FBs) /\ FBs \subseteq [id : Nat, verdict : Nat, sources : SUBSET Nat]
    /\ \A v \in Inputs : /\ Of(v) \subseteq FBs /\ Of(v) # {}
                         /\ \A f, g \in Of(v) : f.id = g.id => f = g
    /\ Tier \subseteq Ids
    /\ Scopes \subseteq {"verification_scoped", "full_upsert"}
    /\ Absent \notin Nat
ASSUME SizesAssumption ==
    /\ \A v \in Inputs : \A s \in SUBSET Tier : TierSize(v, s) \in Nat
    /\ \A s \in SUBSET FBs : GateSize(s) \in Nat
ASSUME LimitsAssumption ==
    /\ MaxFailed \in Nat /\ MaxRowid \in Nat /\ MaxRatings \in Nat
    /\ MaxRuns \in Nat /\ MaxFailures \in Nat

IsStore(s) == DOMAIN s \subseteq Ids /\ \A i \in DOMAIN s : s[i] \in Row

TypeOK ==
    /\ input \in Inputs
    /\ IsStore(store) /\ IsStore(rows)
    /\ vectors \cup vecs \subseteq [rowid : Nat, id : Ids]
    /\ ledger \in [Ids -> 0..MaxRatings]
    /\ record # Absent => DOMAIN record \subseteq Ids /\ \A i \in DOMAIN record : record[i] \in Status
    /\ receipts \in [tier : Nat, gate : Nat]
    /\ pc \in {"idle", "loaded", "tx", "committed", "record", "tier", "gate", "exit"}
    /\ scope \in Scopes \cup {Absent}
    /\ batch \subseteq FBs /\ todo \subseteq batch /\ skip \subseteq Tier
    /\ DOMAIN status = {f.id : f \in batch \ todo}
    /\ \A i \in DOMAIN status : status[i] \in Status
    /\ advised \subseteq batch
    /\ exit \in {0, 1, 2, Absent}
    /\ seen # Absent => DOMAIN seen \subseteq Ids /\ \A i \in DOMAIN seen : seen[i] \subseteq Sources
    /\ brought \in [Ids -> SUBSET Sources]
    /\ runs \in 0..MaxRuns /\ failures \in 0..MaxFailures

Nothing == [i \in {} |-> 0]

NoneBrought == [i \in Ids |-> {}]

Init ==
    /\ input = 1
    /\ store = Nothing /\ vectors = {}
    /\ record = Absent /\ receipts = [tier |-> 0, gate |-> 0]
    /\ ledger = [i \in Ids |-> 0] /\ seen = Absent /\ brought = NoneBrought
    /\ pc = "idle" /\ scope = Absent
    /\ batch = {} /\ skip = {} /\ todo = {}
    /\ rows = Nothing /\ vecs = {} /\ status = Nothing /\ advised = {}
    /\ exit = Absent
    /\ runs = 0 /\ failures = 0

Goes(from, to) == pc = from /\ pc' = to

Ends(how) ==
    /\ pc' = "idle" /\ scope' = Absent
    /\ batch' = {} /\ skip' = {} /\ todo' = {}
    /\ rows' = Nothing /\ vecs' = {} /\ status' = Nothing /\ advised' = {}
    /\ exit' = how

Fails == failures < MaxFailures /\ failures' = failures + 1

\* Earlier stages write other FBs, or Stage 5 judges them anew.
NewInput ==
    /\ pc = "idle"
    /\ input + 1 \in Inputs
    /\ input' = input + 1
    /\ exit' = Absent
    /\ UNCHANGED <<db, others, files, pc, memory, failures>>

\* What is not committed is lost.
Crash ==
    /\ pc # "idle"
    /\ Fails
    /\ Ends(1)
    /\ UNCHANGED <<input, db, others, files>>

-----------------------------------------------------------------------------
(* The transaction *)

LastRowid(s) == Max({0} \cup {s[i].rowid : i \in DOMAIN s})

\* The rows of the tier that are not new.
TierStored == {f.id : f \in Of(input)} \cap Tier \cap DOMAIN store

Load ==
    /\ Goes("idle", "loaded")
    /\ scope' \in Scopes
    /\ scope' = "full_upsert" => LastRowid(store) + Cardinality(Of(input)) <= MaxRowid
    /\ batch' = Of(input)
    /\ todo' = batch'
    /\ skip' = TierStored
    /\ exit' = Absent
    /\ UNCHANGED <<input, db, others, files, rows, vecs, status, advised, failures>>

\* The first write takes the write lock and sees what is committed by then.
Begin ==
    /\ Goes("loaded", "tx")
    /\ rows' = store /\ vecs' = vectors
    /\ UNCHANGED <<input, db, others, files, scope, batch, skip, todo, status, advised,
                   exit, failures>>

\* Mutation: no status is kept for the FB.
TakesUntracked(f, outcome) ==
    /\ pc = "tx"
    /\ f \in todo /\ \A g \in todo : f.id <= g.id
    /\ todo' = todo \ {f}
    /\ status' = status
    /\ UNCHANGED <<input, db, others, files, pc, scope, batch, skip, exit>>

\* The FBs in the order of their file.
Takes(f, outcome) ==
    /\ pc = "tx"
    /\ f \in todo /\ \A g \in todo : f.id <= g.id
    /\ todo' = todo \ {f}
    /\ status' = [i \in DOMAIN status \cup {f.id} |-> IF i = f.id THEN outcome ELSE status[i]]
    /\ UNCHANGED <<input, db, others, files, pc, scope, batch, skip, exit>>

Skip(f) ==
    /\ f.id \in skip
    /\ Takes(f, "ALREADY_STORED")
    /\ UNCHANGED <<rows, vecs, advised, failures>>

\* Mutation: a row in the store is no reason not to replace it.
NeverScoped(f) == FALSE

Scoped(f) == scope = "verification_scoped" /\ f.id \in DOMAIN rows

\* update_s5_provenance: the rowid stays, and with it the vector.
Update(f) ==
    /\ f.id \notin skip /\ Scoped(f)
    /\ Takes(f, "UPDATED")
    /\ rows' = [rows EXCEPT ![f.id].verdict = f.verdict]
    /\ UNCHANGED <<vecs, advised, failures>>

\* The dedup gate has an owner look at an FB of the name of another, or of its own name
\* with none of its sources.
Advises(f) ==
    \E i \in DOMAIN rows :
       /\ NameOf(i) = NameOf(f.id)
       /\ \/ i # f.id
          \/ rows[i].sources \cap f.sources = {}

Decide(f) == advised' = IF Advises(f) THEN advised \cup {f} ELSE advised

NewRowid == LastRowid(rows) + 1

\* Mutation: the vector of the row that is replaced stays.
RetiresNone(f) == vecs

\* The vector of the rowid the FB had is deleted.
Retires(f) ==
    IF f.id \in DOMAIN rows THEN {v \in vecs : v.rowid # rows[f.id].rowid} ELSE vecs

\* insert_fb, which knows of the sources of the record and of no ratings or merged
\* sources, and then insert_embedding, which may fail.
Insert(f) ==
    /\ f.id \notin skip /\ ~Scoped(f)
    /\ Takes(f, "INSERTED")
    /\ Decide(f)
    /\ rows' = [i \in DOMAIN rows \cup {f.id} |->
                   IF i # f.id THEN rows[i]
                   ELSE [rowid |-> NewRowid, verdict |-> f.verdict,
                         sources |-> f.sources, rated |-> 0]]
    /\ \/ vecs' = Retires(f) \cup {[rowid |-> NewRowid, id |-> f.id]} /\ UNCHANGED failures
       \/ vecs' = Retires(f) /\ Fails

\* Mutation: the row counts as written.
RefuseSilently(f) ==
    /\ f.id \notin skip
    /\ Fails
    /\ Takes(f, "INSERTED")
    /\ IF Scoped(f) THEN UNCHANGED advised ELSE Decide(f)
    /\ UNCHANGED <<rows, vecs>>

\* A gate of either write refuses the row.
RefuseRow(f) ==
    /\ f.id \notin skip
    /\ Fails
    /\ Takes(f, "FAILED")
    /\ IF Scoped(f) THEN UNCHANGED advised ELSE Decide(f)
    /\ UNCHANGED <<rows, vecs>>

Failed == Cardinality({i \in DOMAIN status : status[i] = "FAILED"})

\* The history: a row that is replaced can bring sources while the accumulator runs.
NotesBrought ==
    brought' = IF seen # Absent /\ scope = "full_upsert"
               THEN [i \in Ids |-> IF i \in DOMAIN store
                                   THEN brought[i] \cup (rows[i].sources \ store[i].sources)
                                   ELSE brought[i]]
               ELSE brought

\* Mutation: committed first, judged by the exit code (BUG-708).
CommitFirst ==
    /\ Goes("tx", "committed")
    /\ todo = {}
    /\ store' = rows /\ vectors' = vecs
    /\ NotesBrought
    /\ UNCHANGED <<input, ledger, seen, runs, files, memory, exit, failures>>

Commit ==
    /\ Goes("tx", "committed")
    /\ todo = {} /\ Failed <= MaxFailed
    /\ store' = rows /\ vectors' = vecs
    /\ NotesBrought
    /\ UNCHANGED <<input, ledger, seen, runs, files, memory, exit, failures>>

\* No row is recorded as committed.
Rollback ==
    /\ Goes("tx", "record")
    /\ todo = {} /\ Failed > MaxFailed
    /\ rows' = Nothing /\ vecs' = {}
    /\ UNCHANGED <<input, db, others, files, scope, batch, skip, todo, status, advised,
                   exit, failures>>

-----------------------------------------------------------------------------
(* After the transaction *)

\* Mutation: a row without a vector is corruption, too.
Misaligned ==
    LET indexed == {v.rowid : v \in vectors}
        stored == {store[i].rowid : i \in DOMAIN store}
    IN (indexed \ stored) \cup (stored \ indexed)

\* assert_vector_integrity: the rowid of a vector has no row.
Orphans == {v.rowid : v \in vectors} \ {store[i].rowid : i \in DOMAIN store}

\* The run raises, after the commit.
CheckIntegrity ==
    /\ pc = "committed"
    /\ IF Orphans = {} THEN pc' = "record" /\ UNCHANGED <<memory, exit>> ELSE Ends(1)
    /\ UNCHANGED <<input, db, others, files, failures>>

\* The shrink guard of safe_write, for files of these sizes.
Smaller(new, old) == 10 * new < 9 * old

Shrinks(fbs) == record # Absent /\ Smaller(Cardinality(fbs), Cardinality(DOMAIN record))

WriteRecord ==
    /\ Goes("record", "tier")
    /\ ~Shrinks(batch)
    /\ record' = IF Failed <= MaxFailed THEN status
                 ELSE [i \in DOMAIN status |-> "ROLLED_BACK"]
    /\ UNCHANGED <<input, db, others, receipts, memory, exit, failures>>

\* non_fb_commit_receipt.json
WriteTierReceipt ==
    /\ Goes("tier", "gate")
    /\ ~Smaller(TierSize(input, skip), receipts.tier)
    /\ receipts' = [receipts EXCEPT !.tier = TierSize(input, skip)]
    /\ UNCHANGED <<input, db, others, record, memory, exit, failures>>

\* dedup_gate_receipt.json
WriteGateReceipt ==
    /\ Goes("gate", "exit")
    /\ ~Smaller(GateSize(advised), receipts.gate)
    /\ receipts' = [receipts EXCEPT !.gate = GateSize(advised)]
    /\ UNCHANGED <<input, db, others, record, memory, exit, failures>>

\* The run raises, after the commit.
WriteRefused ==
    /\ \/ pc = "record" /\ Shrinks(batch)
       \/ pc = "tier" /\ Smaller(TierSize(input, skip), receipts.tier)
       \/ pc = "gate" /\ Smaller(GateSize(advised), receipts.gate)
    /\ Ends(1)
    /\ UNCHANGED <<input, db, others, files, failures>>

Exit ==
    /\ pc = "exit"
    /\ Ends(IF Failed > MaxFailed THEN 1 ELSE IF Failed > 0 THEN 2 ELSE 0)
    /\ UNCHANGED <<input, db, others, files, failures>>

-----------------------------------------------------------------------------
(* The other writers *)

Unlocked == pc # "tx"

\* record_feedback: the rating goes to the ledger, and the column of the row is
\* computed from the ledger in the same transaction.
Rate(i) ==
    /\ Unlocked
    /\ i \in DOMAIN store
    /\ ledger[i] < MaxRatings
    /\ ledger' = [ledger EXCEPT ![i] = @ + 1]
    /\ store' = [store EXCEPT ![i].rated = ledger[i] + 1]
    /\ UNCHANGED <<input, vectors, seen, brought, runs, files, pc, memory, exit, failures>>

ReadEvidence ==
    /\ seen = Absent /\ runs < MaxRuns
    /\ runs' = runs + 1
    /\ seen' = [i \in DOMAIN store |-> store[i].sources]
    /\ brought' = NoneBrought
    /\ UNCHANGED <<input, db, ledger, files, pc, memory, exit, failures>>

Group(i) == {j \in DOMAIN seen : ConceptOf(j) = ConceptOf(i)}

Union(i) == UNION {seen[j] : j \in Group(i)}

\* _apply: every member of a group of two or more gets the union of what was read.
ApplyEvidence ==
    /\ Unlocked
    /\ seen # Absent
    /\ store' = [i \in DOMAIN store |->
                    IF i \in DOMAIN seen /\ Cardinality(Group(i)) > 1
                    THEN [store[i] EXCEPT !.sources = Union(i)] ELSE store[i]]
    /\ seen' = Absent /\ brought' = NoneBrought
    /\ UNCHANGED <<input, vectors, ledger, runs, files, pc, memory, exit, failures>>

RowStep == \E f \in todo : Skip(f) \/ Update(f) \/ Insert(f)

StageStep ==
    \/ Load \/ Begin \/ RowStep \/ Commit \/ Rollback
    \/ CheckIntegrity \/ WriteRecord \/ WriteTierReceipt \/ WriteGateReceipt
    \/ WriteRefused \/ Exit

Next ==
    \/ StageStep
    \/ \E f \in todo : RefuseRow(f)
    \/ Crash \/ NewInput
    \/ \E i \in Ids : Rate(i)
    \/ ReadEvidence \/ ApplyEvidence

Spec == Init /\ [][Next]_vars

\* Stage 6 is started again and again and comes to its end.
FairSpec == Spec /\ WF_vars(StageStep)

-----------------------------------------------------------------------------
(* Properties *)

\* The store has every FB of a set, with what Stage 5 says of it.
Holds(s, fbs) == \A f \in fbs : f.id \in DOMAIN s /\ (f.id \notin Tier => s[f.id].verdict = f.verdict)

\* A run that exits 0 left every FB of Stage 5 in the store, and no later write
\* of the others takes one back (D2338: "a partial commit never looks like success").
CertifiedStored == exit = 0 => Holds(store, Of(input))

\* A run changes nothing in the store, or at one stroke puts all of its FBs there
\* but for what the tolerance allows (BUG-708: "the store is never left
\* half-migrated").
AllOrNothing ==
    [][pc = "tx" /\ store' # store =>
          \E missing \in SUBSET batch :
             /\ Cardinality(missing) <= MaxFailed
             /\ Holds(store', batch \ missing)]_vars

Own(vs, s) == \A v \in vs : v.id \in DOMAIN s /\ s[v.id].rowid = v.rowid

\* Every vector is at the rowid of a row, and of that row's text, over rows that
\* were replaced and got other rowids (BUG-387: no "dead k-NN slot").
VectorsOwn == Own(vectors, store)

\* No scoped run and no other writer takes a rating away, nor a source, however their
\* reads and transactions interleave, but one that a full_upsert has brought between the
\* accumulator's read and its write (D-2933; "source_ids <- union (never shrinks)").
OthersKept ==
    [][scope # "full_upsert" =>
          \A i \in DOMAIN store :
             /\ i \in DOMAIN store'
             /\ store[i].sources \ brought[i] \subseteq store'[i].sources
             /\ store[i].rated <= store'[i].rated]_vars

\* A run that has nothing left to insert would shrink one of its files.
Outgrown ==
    \/ Shrinks(Of(input))
    \/ Smaller(TierSize(input, TierStored), receipts.tier)
    \/ Smaller(GateSize({}), receipts.gate)

\* Started again and again, the stage completes again and again once refusals are
\* over, unless it has come to where every run that inserts nothing would shrink its
\* record or a receipt: there it raises after each commit.
Completes == []<>(exit = 0) \/ <>[]Outgrown
-----------------------------------------------------------------------------
(* The inductive invariant *)

\* A run has the FBs of its input, and nobody else has any.
RunsOverInput ==
    /\ pc = "idle" => batch = {}
    /\ pc # "idle" => batch = Of(input) /\ scope \in Scopes /\ exit = Absent
    /\ pc \notin {"loaded", "tx"} => todo = {}
    /\ pc = "loaded" => todo = batch
    /\ skip \subseteq DOMAIN store

\* A table, its vectors, and what the other writers count on.
Sound(s, vs) ==
    /\ Own(vs, s)
    /\ LastRowid(s) \in Nat
    /\ \A i \in DOMAIN s : /\ s[i].rowid <= LastRowid(s)
                           /\ s[i].rated <= ledger[i]

\* The transaction drops no row; it drops ratings and merged sources in the full
\* scope only.
RowsKeep ==
    pc = "tx" =>
        /\ Sound(rows, vecs)
        /\ \A i \in DOMAIN store :
              /\ i \in DOMAIN rows
              /\ scope # "full_upsert" => /\ rows[i].sources = store[i].sources
                                          /\ rows[i].rated = store[i].rated

\* The accumulator has read all sources that its union will replace, but for those that
\* came later.
SeenCovers ==
    seen # Absent =>
        \A i \in DOMAIN seen : /\ i \in DOMAIN store
                               /\ store[i].sources \subseteq seen[i] \cup brought[i]

\* What was taken and not refused is in the table.
TookEffect(s) == \A f \in batch \ todo : status[f.id] # "FAILED" => Holds(s, {f})

Takings ==
    /\ pc = "tx" => TookEffect(rows)
    /\ pc \in {"committed", "record", "tier", "gate", "exit"} /\ Failed <= MaxFailed => TookEffect(store)

IInv ==
    /\ RunsOverInput /\ Sound(store, vectors) /\ RowsKeep /\ SeenCovers /\ Takings
    /\ CertifiedStored
=============================================================================
