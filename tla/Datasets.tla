------------------------------ MODULE Datasets ------------------------------
(* Durable datasets: sources of rows, the batches that change them, and the *)
(* queries whose snapshots are kept with them.  A query's result is taken   *)
(* to be what its sources hold, as the program with a digest computes it.   *)
EXTENDS StoreHost, SequencesExt

CONSTANTS
    Sources, Rows,
    Queries,      \* each with the sources it names
    Inputs,       \* [Queries -> SUBSET Sources]
    BatchIds,     \* batch identifiers of one source
    Programs,     \* digests of the chunk and the plan
    Calculations, \* calculation versions
    MaxDatasetRevisions \* bound on the store's revisions

VARIABLES
    program,      \* StoreHost::chunk_bytes
    bound         \* StoreHost::bound_queries

DSvars == <<storeVars, program, bound>>

Source(s) == <<"source", s>>
Query(q) == <<"query", q>>
Snapshot(q, r) == <<"snapshot", q, r>>
Batch(s, b) == <<"batch", s, b>>

DSInit == SlotInit /\ program \in Programs /\ bound = NoKeys

DatasetsOpen == StoreOpen /\ UNCHANGED <<program, bound>>

(* Another process, and perhaps another build of the program.               *)
DatasetsRestart ==
    /\ ProcessEnds
    /\ program' \in Programs /\ bound' = NoKeys

Plain ==
    /\ PutPlain \/ CommitPlain(MaxDatasetRevisions)
    /\ UNCHANGED <<program, bound>>

(* dataset_source: an empty one, unless it is there.                        *)
DatasetSource(s) ==
    /\ Clean(MaxDatasetRevisions) /\ ~Has(Source(s))
    /\ LET new == Only(Source(s), <<>>) IN CommitMade(new) \/ CommitClosed(new)
    /\ UNCHANGED <<program, bound>>

-----------------------------------------------------------------------------
(* dataset_query.                                                           *)

(* evaluate_dataset_plan_snapshot_at: over the committed sources, one of    *)
(* them replaced by what a batch is going to make of it.                    *)
Evaluated(q, replacement) ==
    [digest |-> program,
     rows |-> [s \in Inputs[q] |-> (replacement ++ Shown)[Source(s)]]]

QueryRecord(calculation, of, in) ==
    [calculation |-> calculation, digest |-> program, source |-> of, snapshot |-> in]

KnownQuery(q) == Has(Query(q))

(* The query is there already: it is bound to what is on disk.              *)
Bind(q, c) ==
    /\ Clean(MaxDatasetRevisions) /\ KnownQuery(q)
    /\ Shown[Query(q)].calculation = c /\ Shown[Query(q)].digest = program
    /\ bound' = Only(q, Shown[Query(q)]) ++ bound
    /\ UNCHANGED <<storeVars, program>>

Register(q, c) ==
    /\ Clean(MaxDatasetRevisions) /\ \A s \in Inputs[q] : Has(Source(s))
    /\ KnownQuery(q) => Shown[Query(q)].calculation # c
    /\ LET r == Revision + 1
           record == QueryRecord(c, Revision, r)
           new == Only(Query(q), record) ++ Only(Snapshot(q, r), Evaluated(q, NoKeys))
       IN  \/ CommitMade(new) /\ bound' = Only(q, record) ++ bound
           \/ CommitClosed(new) /\ UNCHANGED bound
    /\ UNCHANGED program

-----------------------------------------------------------------------------
(* dataset_apply.                                                           *)

Changes == [op : {"add", "correct"}, id : Rows, row : {1, 2}] \cup [op : {"delete"}, id : Rows]

(* add appends, correct keeps the position, delete closes the gap.          *)
RowsAfter(rows, change) ==
    LET at == SelectInSeq(rows, LAMBDA row : row[1] = change.id)
    IN  IF change.op = "delete" THEN RemoveAt(rows, at)
        ELSE IF change.op = "add" THEN Append(rows, <<change.id, change.row>>)
        ELSE ReplaceAt(rows, at, <<change.id, change.row>>)
Fits(rows, change) ==
    change.op # "add" <=> \E i \in DOMAIN rows : rows[i][1] = change.id

(* Wrong on purpose: an identical batch is looked for under its revision.   *)
BrokenSeen(s, b) == Has(Batch(s, b)) /\ Shown[Batch(s, b)].revision = Revision

(* The receipt is looked at before the expected revision: a retry answers   *)
(* with the revision of the first attempt, or Conflict.                     *)
Seen(s, b) == Has(Batch(s, b))

(* Wrong on purpose: only the queries this process has bound.               *)
BrokenDependents(s) == {q \in DOMAIN bound : s \in Inputs[q]}

Dependents(s) == {q \in Queries : KnownQuery(q) /\ s \in Inputs[q]}

(* Every one is bound to exactly what is on disk, by this program.          *)
AllBound(s) ==
    \A q \in Dependents(s) :
        /\ q \in DOMAIN bound /\ bound[q] = Shown[Query(q)]
        /\ bound[q].digest = program

Rerun(s, candidate) ==
    LET r == Revision + 1
        record(q) == QueryRecord(Shown[Query(q)].calculation, r, r)
        records == [k \in {Query(q) : q \in Dependents(s)} |-> record(k[2])]
        snapshots == [k \in {Snapshot(q, r) : q \in Dependents(s)} |->
                         Evaluated(k[2], candidate)]
    IN  records ++ snapshots

BatchReceipt(s, b, change) == Only(Batch(s, b), [change |-> change, revision |-> Revision + 1])

DatasetApply(s, b, change) ==
    /\ Clean(MaxDatasetRevisions) /\ Has(Source(s)) /\ ~Seen(s, b)
    /\ Fits(Shown[Source(s)], change)
    /\ AllBound(s)
    /\ LET candidate == Only(Source(s), RowsAfter(Shown[Source(s)], change))
           new == candidate ++ Rerun(s, candidate) ++ BatchReceipt(s, b, change)
       IN  \/ /\ CommitMade(new)
              /\ bound' = [q \in Dependents(s) |-> new[Query(q)]] ++ bound
           \/ CommitClosed(new) /\ UNCHANGED bound
    /\ UNCHANGED program

DSNext ==
    \/ DatasetsOpen \/ DatasetsRestart \/ Plain
    \/ \E s \in Sources : DatasetSource(s)
    \/ \E q \in Queries, c \in Calculations : Bind(q, c) \/ Register(q, c)
    \/ \E s \in Sources, b \in BatchIds, change \in Changes : DatasetApply(s, b, change)

DSSpec == DSInit /\ [][DSNext]_DSvars

-----------------------------------------------------------------------------
(* Properties.                                                              *)

(* In every revision, the snapshot a query names there is what its sources  *)
(* hold in that revision, whichever process, program or commit came between *)
(* (dataset_snapshot: historical reads use the record visible there).       *)
SnapshotsFresh ==
    \A r \in 1 .. Revision : \A q \in Queries :
        Query(q) \in DOMAIN history[r] =>
            LET record == history[r][Query(q)]
                kept == history[r][Snapshot(q, record.snapshot)]
            IN  /\ kept.digest = record.digest
                /\ kept.rows = [s \in Inputs[q] |-> history[r][Source(s)]]

(* A source changes exactly with a new receipt, by the change and in the    *)
(* revision it names: a batch is applied once, whatever was retried after   *)
(* an uncertain commit.                                                     *)
BatchesOnce ==
    \A r \in 2 .. Revision : \A s \in Sources :
        LET before == history[r - 1]
            new == {k \in DOMAIN history[r] : k[1] = "batch" /\ k[2] = s} \ DOMAIN before
        IN  Source(s) \in DOMAIN before =>
                \/ new = {} /\ history[r][Source(s)] = before[Source(s)]
                \/ \E k \in new :
                       /\ new = {k} /\ history[r][k].revision = r
                       /\ history[r][Source(s)] =
                              RowsAfter(before[Source(s)], history[r][k].change)
=============================================================================
