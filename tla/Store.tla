------------------------------- MODULE Store -------------------------------
(***************************************************************************)
(* The file-backed store of runtime/rust/lana-runtime/src/store.rs with    *)
(* the atomic replacement of atomic_file.rs it publishes through.          *)
(*                                                                         *)
(* One handle at a time is open: the journal file is locked exclusively    *)
(* for as long as a Store holds it.  The handle keeps an index of current  *)
(* values, the staged mutations and the revisions it read or wrote; the    *)
(* directory holds the append-only journal, the manifest and the           *)
(* snapshot-<rev> files.                                                   *)
(*                                                                         *)
(* A file operation that was not synced may be undone by a power loss.     *)
(* journalAlt and dirAlt are the older contents a power loss may bring     *)
(* back; a sync of the journal, or of the directory, empties them.  Every  *)
(* operation is one action per outcome.  A process that dies inside an     *)
(* operation leaves the files as the uncertain failure at the same step    *)
(* does, so the uncertain outcomes stand for both.                         *)
(*                                                                         *)
(* Assumed of the file system: an unsynced append leaves a prefix of the   *)
(* bytes written, renames in one directory persist in order, and a sync    *)
(* that returns success covers what earlier failed syncs left behind.      *)
(***************************************************************************)
EXTENDS Naturals, Sequences, FiniteSets, FiniteSetsExt

CONSTANTS Keys, Values,
          Absent,     \* the key holds nothing
          Untouched,  \* a batch that does not mention the key
          MaxRevision, \* bound on the number of commits (u64 in the code)
          MaxBatch,    \* bound on the keys one commit mentions
          Retentions   \* the arguments store_compact is called with

ASSUME MarkersAreNoValues ==
    /\ Absent \notin Values
    /\ Untouched \notin Values \cup {Absent}
ASSUME BoundsAreNatural ==
    MaxRevision \in Nat /\ MaxBatch \in Nat /\ Retentions \subseteq Nat

Contents == [Keys -> Values \cup {Absent}]
Batches == [Keys -> Values \cup {Absent, Untouched}]
Nothing == [k \in Keys |-> Absent]
NoBatch == [k \in Keys |-> Untouched]
Record == [rev : Nat, prev : Nat, batch : Batches]
Revisions == Seq(Record)

VARIABLES
    open,      \* the handle holds the locked journal (journal.is_some())
    index, staged, revisions, current, snapshot, retention, offset,
    failure,   \* io_failure: "none", "certain" or "uncertain"
    journal,   \* the file: complete records, then perhaps a torn one
    dir,       \* the manifest's fields and the snapshot files
    journalAlt, dirAlt,
    hist,      \* observer: contents of every revision a caller has seen
    doubt,     \* observer: contents of a commit with an uncertain outcome
    synced     \* observer: the last revision a journal sync covered

handle == <<open, index, staged, revisions, current, snapshot, retention,
            offset, failure>>
files == <<journal, dir, journalAlt, dirAlt>>
observers == <<hist, doubt, synced>>
vars == <<handle, files, observers>>

-----------------------------------------------------------------------------
(* Reading batches, journals and directories. *)

(* Applying a batch: later mutations of a key replace earlier ones. *)
Overlay(c, b) == [k \in Keys |-> IF b[k] = Untouched THEN c[k] ELSE b[k]]

LastRev(recs) == IF recs = <<>> THEN 0 ELSE recs[Len(recs)].rev

(* The records among recs that mention k and lie above a revision. *)
Mentions(recs, above, k) ==
    {i \in DOMAIN recs : recs[i].rev > above /\ recs[i].batch[k] # Untouched}

(* load_snapshot, then replay of the records above it. *)
SnapshotOf(d) == IF d.snapshot = 0 THEN Nothing ELSE d.snaps[d.snapshot]

(* Wrong on purpose: forgets the snapshot under the journal. *)
BrokenRecovered(j, d) ==
    [k \in Keys |->
        LET ms == Mentions(j.recs, d.snapshot, k)
        IN  IF ms = {} THEN Absent ELSE j.recs[Max(ms)].batch[k]]

Recovered(j, d) ==
    [k \in Keys |->
        LET ms == Mentions(j.recs, d.snapshot, k)
        IN  IF ms = {} THEN SnapshotOf(d)[k] ELSE j.recs[Max(ms)].batch[k]]

RecoveredRevision(j, d) ==
    IF LastRev(j.recs) > d.snapshot THEN LastRev(j.recs) ELSE d.snapshot

(* replay's chain: the first record may follow revision 0 or, exactly, the *)
(* snapshot; every other one follows its predecessor.                      *)
(* Wrong on purpose: a compacted journal would have to begin at 0. *)
BrokenExpectedPrevious(recs, i, s) == IF i > 1 THEN recs[i - 1].rev ELSE 0

ExpectedPrevious(recs, i, s) ==
    IF i > 1 THEN recs[i - 1].rev
    ELSE IF s # 0 /\ recs[1].rev = s + 1 /\ recs[1].prev = s THEN s ELSE 0

Chained(recs, s) ==
    \A i \in DOMAIN recs :
        /\ recs[i].prev = ExpectedPrevious(recs, i, s)
        /\ recs[i].rev = recs[i].prev + 1

ReplayAccepts(j, s) ==
    /\ Chained(j.recs, s)
    /\ j.torn \/ (j.recs = <<>> /\ s # 0) \/ LastRev(j.recs) >= s

(* Wrong on purpose: the revision the manifest acknowledges is not asked   *)
(* for.                                                                    *)
BrokenOpens(j, d) ==
    /\ d.snapshot # 0 => d.snapshot \in DOMAIN d.snaps
    /\ ReplayAccepts(j, d.snapshot)

(* What open_with_outcome checks before it hands a handle out; anything    *)
(* else is refused as corruption.                                          *)
Opens(j, d) ==
    /\ d.snapshot <= d.current /\ d.retention <= d.current
    /\ d.snapshot # 0 => d.snapshot \in DOMAIN d.snaps
    /\ ReplayAccepts(j, d.snapshot)
    /\ RecoveredRevision(j, d) >= d.current

(* Wrong on purpose: off by one revision. *)
BrokenReadAt(r, k) ==
    IF r > current THEN "not_found"
    ELSE IF r < retention THEN "compacted"
    ELSE LET ms == {i \in DOMAIN revisions :
                      revisions[i].rev <= r + 1 /\ revisions[i].batch[k] # Untouched}
         IN  IF ms = {} THEN Absent ELSE revisions[Max(ms)].batch[k]

(* store_get_at for a revision below the current one searches only the     *)
(* revisions the handle holds.                                             *)
ReadAt(r, k) ==
    IF r > current THEN "not_found"
    ELSE IF r < retention THEN "compacted"
    ELSE IF r = current THEN index[k]
    ELSE LET ms == {i \in DOMAIN revisions :
                      revisions[i].rev <= r /\ revisions[i].batch[k] # Untouched}
         IN  IF ms = {} THEN Absent ELSE revisions[Max(ms)].batch[k]

-----------------------------------------------------------------------------
(* Steps the operations share. *)

Fails(kind) ==
    /\ failure' = kind
    /\ IF kind = "uncertain"
         THEN open' = FALSE /\ staged' = NoBatch
         ELSE UNCHANGED <<open, staged>>

(* atomic_file::write: the new directory is in place and durable, or in    *)
(* place with the parent directory not synced.                             *)
Replaces(d) == dir' = d /\ dirAlt' = {}
ReplacesUnsynced(d) == dir' = d /\ dirAlt' = dirAlt \cup {dir}
NotReplaced == UNCHANGED <<dir, dirAlt>>

ManifestOf(d, cur, snap, ret) ==
    [current |-> cur, snapshot |-> snap, retention |-> ret, snaps |-> d.snaps]

WithSnapshot(d, r, c) ==
    [current |-> d.current, snapshot |-> d.snapshot, retention |-> d.retention,
     snaps |-> [x \in DOMAIN d.snaps \cup {r} |->
                   IF x = r THEN c ELSE d.snaps[x]]]

-----------------------------------------------------------------------------
Init ==
    /\ open = FALSE
    /\ index = Nothing /\ staged = NoBatch /\ revisions = <<>>
    /\ current = 0 /\ snapshot = 0 /\ retention = 0 /\ offset = 0
    /\ failure = "none"
    /\ journal = [recs |-> <<>>, torn |-> FALSE]
    /\ dir = [current |-> 0, snapshot |-> 0, retention |-> 0, snaps |-> <<>>]
    /\ journalAlt = {} /\ dirAlt = {}
    /\ hist = <<>> /\ doubt = {} /\ synced = 0

(* Opening: recover, then write the manifest.  If that write fails there   *)
(* is no handle, but the manifest may have been replaced.                  *)
OpenManifest ==
    ManifestOf(dir, RecoveredRevision(journal, dir), dir.snapshot, dir.retention)

Open ==
    /\ ~open
    /\ Opens(journal, dir)
    /\ open' = TRUE
    /\ index' = Recovered(journal, dir)
    /\ staged' = NoBatch
    /\ revisions' = journal.recs
    /\ current' = RecoveredRevision(journal, dir)
    /\ snapshot' = dir.snapshot
    /\ retention' = dir.retention
    /\ offset' = Len(journal.recs)
    /\ failure' = "none"
    /\ Replaces(OpenManifest)
    /\ UNCHANGED <<journal, journalAlt>>
    /\ hist' = IF RecoveredRevision(journal, dir) > Len(hist)
                 THEN Append(hist, index') ELSE hist
    /\ doubt' = {}
    /\ synced' = synced

OpenUnsynced ==
    /\ ~open
    /\ Opens(journal, dir)
    /\ ReplacesUnsynced(OpenManifest)
    /\ UNCHANGED <<handle, journal, journalAlt, observers>>

(* store_close, and a process that dies between two operations. *)
Close ==
    /\ open
    /\ open' = FALSE
    /\ staged' = NoBatch
    /\ UNCHANGED <<index, revisions, current, snapshot, retention, offset,
                   failure, files, observers>>

(* Everything that was not synced may be gone, and so is the handle. *)
PowerLoss ==
    /\ journal' \in journalAlt \cup {journal}
    /\ dir' \in dirAlt \cup {dir}
    /\ journalAlt' = {} /\ dirAlt' = {}
    /\ open' = FALSE
    /\ staged' = NoBatch
    /\ UNCHANGED <<index, revisions, current, snapshot, retention, offset,
                   failure, observers>>

(* store_put and store_delete. *)
Stage(k, v) ==
    /\ open
    /\ Cardinality({x \in Keys \ {k} : staged[x] # Untouched}) < MaxBatch
    /\ staged' = [staged EXCEPT ![k] = v]
    /\ UNCHANGED <<open, index, revisions, current, snapshot, retention,
                   offset, failure, files, observers>>

DiscardStaged ==
    /\ staged' = NoBatch
    /\ UNCHANGED <<open, index, revisions, current, snapshot, retention,
                   offset, failure, files, observers>>

-----------------------------------------------------------------------------
(* store_commit: cut the journal at the offset, append header, payload and *)
(* commit record, sync, update the handle, write the manifest.             *)

CanCommit == open /\ staged # NoBatch /\ current < MaxRevision

Kept == SubSeq(journal.recs, 1, offset)
NewRecord == [rev |-> current + 1, prev |-> current, batch |-> staged]
Committed == Overlay(index, staged)

(* A write fails before the record is complete, the rollback is synced:    *)
(* the handle stays open and keeps what was staged.                        *)
CommitRolledBack ==
    /\ CanCommit
    /\ journal' = [recs |-> Kept, torn |-> FALSE]
    /\ journalAlt' = {}
    /\ Fails("certain")
    /\ synced' = IF LastRev(Kept) > synced THEN LastRev(Kept) ELSE synced
    /\ UNCHANGED <<index, revisions, current, snapshot, retention, offset,
                   dir, dirAlt, hist, doubt>>

(* The rollback fails too. *)
CommitTorn ==
    /\ CanCommit
    /\ \E t \in BOOLEAN : journal' = [recs |-> Kept, torn |-> t]
    /\ journalAlt' = journalAlt \cup {journal}
                       \cup {[recs |-> Kept, torn |-> t] : t \in BOOLEAN}
    /\ Fails("uncertain")
    /\ UNCHANGED <<index, revisions, current, snapshot, retention, offset,
                   dir, dirAlt, observers>>

(* The record is complete but the flush or sync fails: no rollback. *)
CommitUnsynced ==
    /\ CanCommit
    /\ journal' = [recs |-> Append(Kept, NewRecord), torn |-> FALSE]
    /\ journalAlt' = journalAlt \cup {journal}
                       \cup {[recs |-> Kept, torn |-> t] : t \in BOOLEAN}
    /\ Fails("uncertain")
    /\ doubt' = {Committed}
    /\ UNCHANGED <<index, revisions, current, snapshot, retention, offset,
                   dir, dirAlt, hist, synced>>

(* The record is durable and the handle updated. *)
CommitSynced ==
    /\ CanCommit
    /\ journal' = [recs |-> Append(Kept, NewRecord), torn |-> FALSE]
    /\ journalAlt' = {}
    /\ index' = Committed
    /\ revisions' = Append(revisions, NewRecord)
    /\ current' = current + 1
    /\ offset' = Len(Kept) + 1
    /\ synced' = current + 1
    /\ UNCHANGED <<snapshot, retention>>

CommitManifest == ManifestOf(dir, current + 1, snapshot, retention)

CommitUnpublished ==
    /\ CommitSynced
    /\ NotReplaced \/ ReplacesUnsynced(CommitManifest)
    /\ Fails("uncertain")
    /\ doubt' = {Committed}
    /\ hist' = hist

Commit ==
    /\ CommitSynced
    /\ Replaces(CommitManifest)
    /\ failure' = "none"
    /\ open' = TRUE
    /\ staged' = NoBatch
    /\ hist' = Append(hist, Committed)
    /\ doubt' = doubt

-----------------------------------------------------------------------------
(* store_snapshot: write the snapshot file, then the manifest naming it. *)

(* Wrong on purpose: what is staged gets into the snapshot. *)
BrokenSnapshotWritten == WithSnapshot(dir, current, Overlay(index, staged))

SnapshotWritten == WithSnapshot(dir, current, index)
SnapshotManifest == ManifestOf(SnapshotWritten, current, current, retention)

SnapshotNotWritten ==
    /\ open
    /\ Fails("certain")
    /\ UNCHANGED <<index, revisions, current, snapshot, retention, offset,
                   files, observers>>

(* The file's directory was not synced, or the manifest was not replaced,  *)
(* or its directory was not synced.                                        *)
SnapshotUncertain ==
    /\ open
    /\ \/ ReplacesUnsynced(SnapshotWritten) /\ snapshot' = snapshot
       \/ Replaces(SnapshotWritten) /\ snapshot' = current
       \/ dir' = SnapshotManifest /\ dirAlt' = {SnapshotWritten} /\ snapshot' = current
    /\ Fails("uncertain")
    /\ UNCHANGED <<index, revisions, current, retention, offset, journal,
                   journalAlt, observers>>

TakeSnapshot ==
    /\ open
    /\ Replaces(SnapshotManifest)
    /\ snapshot' = current
    /\ failure' = "none"
    /\ UNCHANGED <<open, index, staged, revisions, current, retention, offset,
                   journal, journalAlt, observers>>

-----------------------------------------------------------------------------
(* store_compact(n) moves the retention boundary; n = 0 first takes a      *)
(* snapshot (its failures are those of store_snapshot above) and, when the *)
(* manifest is published, empties the journal.                             *)

Boundary(n) ==
    LET b == IF n > current THEN 0 ELSE current - n
    IN  IF b > retention THEN b ELSE retention

Before(n) == IF n = 0 THEN SnapshotManifest ELSE dir
SnapshotAfter(n) == IF n = 0 THEN current ELSE snapshot
CompactManifest(n) == ManifestOf(Before(n), current, SnapshotAfter(n), Boundary(n))

(* The manifest was not replaced: the handle's boundary is put back. *)
CompactNotPublished(n) ==
    /\ open
    /\ IF n = 0 THEN Replaces(SnapshotManifest) ELSE NotReplaced
    /\ snapshot' = SnapshotAfter(n)
    /\ Fails("certain")
    /\ UNCHANGED <<index, revisions, current, retention, offset, journal,
                   journalAlt, observers>>

(* The manifest's directory was not synced; or, for n = 0, the truncation  *)
(* did not happen or was not synced.                                       *)
CompactUncertain(n) ==
    /\ open
    /\ \/ /\ dir' = CompactManifest(n)
          /\ dirAlt' = IF n = 0 THEN {SnapshotManifest} ELSE dirAlt \cup {dir}
          /\ UNCHANGED <<journal, journalAlt>>
       \/ /\ n = 0
          /\ Replaces(CompactManifest(n))
          /\ \/ UNCHANGED <<journal, journalAlt>>
             \/ /\ journal' = [recs |-> <<>>, torn |-> FALSE]
                /\ journalAlt' = journalAlt \cup {journal}
    /\ snapshot' = SnapshotAfter(n)
    /\ retention' = Boundary(n)
    /\ Fails("uncertain")
    /\ UNCHANGED <<index, revisions, current, offset, observers>>

Compact(n) ==
    /\ open
    /\ Replaces(CompactManifest(n))
    /\ snapshot' = SnapshotAfter(n)
    /\ retention' = Boundary(n)
    /\ IF n = 0
         THEN /\ journal' = [recs |-> <<>>, torn |-> FALSE]
              /\ journalAlt' = {}
              /\ offset' = 0
              /\ revisions' = <<>>
              /\ failure' = "none"
              /\ synced' = current
         ELSE UNCHANGED <<journal, journalAlt, offset, revisions, failure, synced>>
    /\ UNCHANGED <<open, index, staged, current, hist, doubt>>

-----------------------------------------------------------------------------
Next ==
    \/ Open \/ OpenUnsynced \/ Close \/ PowerLoss
    \/ \E k \in Keys, v \in Values \cup {Absent} : Stage(k, v)
    \/ DiscardStaged
    \/ Commit \/ CommitRolledBack \/ CommitTorn \/ CommitUnsynced
    \/ CommitUnpublished
    \/ TakeSnapshot \/ SnapshotNotWritten \/ SnapshotUncertain
    \/ \E n \in Retentions :
         Compact(n) \/ CompactNotPublished(n) \/ CompactUncertain(n)

Spec == Init /\ [][Next]_vars

-----------------------------------------------------------------------------
(* Properties. *)

(* Every journal and directory the next power loss may leave. *)
CrashJournals == {journal} \cup journalAlt
CrashDirs == {dir} \cup dirAlt

ContentsAt(r) == IF r = 0 THEN Nothing ELSE hist[r]

(* A journal whose first record follows a revision that is neither the     *)
(* beginning nor the snapshot the manifest names: compacted once and       *)
(* snapshotted again.                                                      *)
Rebased(recs, s) == recs # <<>> /\ recs[1].prev \notin {0, s}

Journals == [recs : Revisions, torn : BOOLEAN]
IsDirectory(d) ==
    /\ d.current \in Nat /\ d.snapshot \in Nat /\ d.retention \in Nat
    /\ DOMAIN d.snaps \subseteq Nat
    /\ d.snaps \in [DOMAIN d.snaps -> Contents]
(* Records missing between two records, or between the last and upto. *)
Gapped(recs, upto) ==
    recs # <<>> /\ \/ LastRev(recs) # upto
                   \/ \E i \in 2 .. Len(recs) : recs[i].prev # recs[i - 1].rev

(* Types of the handle, the files and what a power loss may bring back. *)
TypeOK ==
    /\ open \in BOOLEAN
    /\ index \in Contents /\ staged \in Batches /\ revisions \in Revisions
    /\ current \in Nat /\ snapshot \in Nat /\ retention \in Nat /\ offset \in Nat
    /\ failure \in {"none", "certain", "uncertain"}
    /\ journal \in Journals /\ journalAlt \subseteq Journals
    /\ \A d \in {dir} \cup dirAlt : IsDirectory(d)
    /\ hist \in Seq(Contents) /\ doubt \subseteq Contents /\ synced \in Nat

(* While a handle is open the files hold what it shows: a process that     *)
(* dies now and a fresh open (store_open) find the same revision, the same *)
(* values and the same history.                                            *)
HandleShowsDisk ==
    open => /\ index = Recovered(journal, dir)
            /\ current = RecoveredRevision(journal, dir)
            /\ revisions = journal.recs /\ offset = Len(journal.recs)
            /\ snapshot = dir.snapshot /\ retention = dir.retention

(* Whatever a crash at this point leaves on disk, if it opens at all then  *)
(* it opens at the last revision any caller was told of (store_commit or   *)
(* store_open), or one later with exactly the contents of the one commit   *)
(* that was reported uncertain.                                            *)
Durability ==
    \A j \in CrashJournals, d \in CrashDirs :
        Opens(j, d) =>
            \/ /\ RecoveredRevision(j, d) = Len(hist)
               /\ Recovered(j, d) = ContentsAt(Len(hist))
            \/ /\ RecoveredRevision(j, d) = Len(hist) + 1
               /\ doubt = {Recovered(j, d)}

(* What a crash leaves opens, except in three situations: the journal was  *)
(* compacted at one revision and snapshotted at a later one; a power loss  *)
(* took back a record that no journal sync ever covered and that an        *)
(* earlier open had read and entered in the manifest; or such a record was *)
(* covered by a snapshot, a torn tail made open skip the comparison with   *)
(* the snapshot, and the next commit left a gap in the journal.            *)
RefusalsExplained ==
    \A j \in CrashJournals, d \in CrashDirs :
        \/ Opens(j, d)
        \/ Rebased(j.recs, d.snapshot)
        \/ synced < d.current /\ LastRev(j.recs) < d.current
        \/ Gapped(j.recs, LastRev(j.recs))

(* A historical read never answers with another revision's value: it gives *)
(* the value visible then, or nothing; and with the whole journal present  *)
(* nothing means that the key held nothing (store_get_at).                 *)
NoSubstitution ==
    \A r \in 1 .. current, k \in Keys :
        open /\ r >= retention /\ ~Gapped(revisions, current) /\ ReadAt(r, k) # hist[r][k] =>
            /\ ReadAt(r, k) = Absent
            /\ revisions = <<>> \/ revisions[1].prev # 0

(* The store implements the abstract store of RevisionedStore. *)
Abstract == INSTANCE RevisionedStore WITH
    Versions <- Contents, Initially <- Nothing,
    available <- open, published <- hist, shown <- index, unsettled <- doubt
RefinesRevisionedStore == Abstract!AbsSpec

(* Not true of the code.  A store whose handle is open can be closed, or   *)
(* its process killed, and opened again.                                   *)
ReopensAfterClose == open => Opens(journal, dir)

(* Not true of the code.  A commit that returned success after a journal   *)
(* sync survives every power loss, re-based journals apart.                *)
CommitSurvivesPowerLoss ==
    \A j \in CrashJournals, d \in CrashDirs :
        Opens(j, d) \/ Rebased(j.recs, d.snapshot) \/ synced < d.current
=============================================================================
