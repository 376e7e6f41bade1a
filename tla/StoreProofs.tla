---------------------------- MODULE StoreProofs ----------------------------
(***************************************************************************)
(* Theorems about Store, for every set of keys and values and every bound. *)
(***************************************************************************)
EXTENDS Store, TLAPS, WellFoundedInduction

-----------------------------------------------------------------------------
(* Lemmas about journals and directories. *)

(* A set of naturals has a least element. *)
LEMMA LeastOf ==
  ASSUME NEW S, S \subseteq Nat, S # {}
  PROVE  \E m \in S : \A y \in S : m <= y
<1>1. PICK m \in S : \A y \in S : ~(<<y, m>> \in OpToRel(<, Nat))
  BY NatLessThanWellFounded, WFMin, Zenon
<1>2. ASSUME NEW y \in S PROVE m <= y
  <2>1. y \in Nat /\ m \in Nat
    OBVIOUS
  <2>2. ~(y < m)
    BY <1>1, <2>1 DEF OpToRel
  <2>3. QED
    BY <2>1, <2>2
<1>3. QED
  BY <1>2

(* The greatest of some positions of a sequence is one of them. *)
LEMMA MaxOfPositions ==
  ASSUME NEW n \in Nat, NEW S, S \subseteq 1 .. n, S # {}
  PROVE  Max(S) \in S /\ \A y \in S : Max(S) >= y
<1> DEFINE T == {n - x : x \in S}
<1>1. T \subseteq Nat /\ T # {}
  <2>1. \A x \in S : n - x \in Nat
    OBVIOUS
  <2>2. PICK x \in S : TRUE
    OBVIOUS
  <2>3. n - x \in T
    OBVIOUS
  <2>4. QED
    BY <2>1, <2>3
<1>2. PICK m \in T : \A y \in T : m <= y
  <2> HIDE DEF T
  <2>1. QED
    BY <1>1, LeastOf
<1>3. PICK x \in S : m = n - x
  OBVIOUS
<1>4. ASSUME NEW y \in S PROVE x >= y
  <2>1. n - y \in T /\ n - y \in Nat /\ m \in Nat
    BY <1>1
  <2>2. m <= n - y
    BY <1>2, <2>1
  <2>3. QED
    BY <1>3, <2>1, <2>2
<1>5. QED
  BY <1>4 DEF Max

LEMMA RecordTypes ==
  ASSUME NEW recs \in Revisions
  PROVE  /\ Len(recs) \in Nat /\ DOMAIN recs = 1 .. Len(recs)
         /\ \A i \in 1 .. Len(recs) :
                /\ recs[i] \in Record
                /\ recs[i].rev \in Nat /\ recs[i].prev \in Nat
                /\ recs[i].batch \in Batches
<1>1. \A i \in 1 .. Len(recs) : recs[i] \in Record
  BY DEF Revisions
<1>2. \A r \in Record : r.rev \in Nat /\ r.prev \in Nat /\ r.batch \in Batches
  BY DEF Record
<1>3. QED
  BY <1>1, <1>2 DEF Revisions

(* The position replay takes a key's value from. *)
LEMMA LastMention ==
  ASSUME NEW recs \in Revisions, NEW above \in Nat, NEW k \in Keys,
         Mentions(recs, above, k) # {}
  PROVE  /\ Max(Mentions(recs, above, k)) \in Mentions(recs, above, k)
         /\ Max(Mentions(recs, above, k)) \in 1 .. Len(recs)
         /\ \A i \in Mentions(recs, above, k) :
                Max(Mentions(recs, above, k)) >= i
<1>1. Len(recs) \in Nat /\ DOMAIN recs = 1 .. Len(recs)
  BY DEF Revisions
<1>2. Mentions(recs, above, k) \subseteq 1 .. Len(recs)
  BY <1>1 DEF Mentions
<1>3. QED
  BY <1>1, <1>2, MaxOfPositions

LEMMA LastRevType ==
  ASSUME NEW recs \in Revisions
  PROVE  LastRev(recs) \in Nat
<1>1. CASE recs = <<>>
  BY <1>1 DEF LastRev
<1>2. CASE recs # <<>>
  <2>1. Len(recs) \in 1 .. Len(recs)
    BY <1>2 DEF Revisions
  <2>2. QED
    BY <1>2, <2>1, RecordTypes DEF LastRev
<1>3. QED
  BY <1>1, <1>2

LEMMA OverlayType ==
  ASSUME NEW c \in Contents, NEW b \in Batches
  PROVE  Overlay(c, b) \in Contents
BY DEF Contents, Batches, Overlay

LEMMA NothingIsContents == Nothing \in Contents /\ NoBatch \in Batches
BY DEF Nothing, Contents, NoBatch, Batches

LEMMA SnapshotType ==
  ASSUME NEW d, IsDirectory(d), d.snapshot # 0 => d.snapshot \in DOMAIN d.snaps
  PROVE  SnapshotOf(d) \in Contents
BY NothingIsContents DEF IsDirectory, SnapshotOf

(* What recovery finds are contents, and its revision is a number. *)
LEMMA RecoveredType ==
  ASSUME NEW j \in Journals, NEW d, IsDirectory(d),
         d.snapshot # 0 => d.snapshot \in DOMAIN d.snaps
  PROVE  Recovered(j, d) \in Contents /\ RecoveredRevision(j, d) \in Nat
<1>1. j.recs \in Revisions /\ d.snapshot \in Nat
  BY DEF Journals, IsDirectory
<1>2. ASSUME NEW k \in Keys
      PROVE  Recovered(j, d)[k] \in Values \cup {Absent}
  <2> DEFINE ms == Mentions(j.recs, d.snapshot, k)
  <2>1. CASE ms = {}
    BY <2>1, SnapshotType DEF Recovered, Contents
  <2>2. CASE ms # {}
    <3>1. Max(ms) \in ms /\ Max(ms) \in 1 .. Len(j.recs)
      BY <1>1, <2>2, LastMention
    <3>2. j.recs[Max(ms)].batch \in Batches
      BY <1>1, <3>1, RecordTypes
    <3>3. j.recs[Max(ms)].batch[k] \in Values \cup {Absent}
      BY <3>1, <3>2 DEF Mentions, Batches
    <3>4. QED
      BY <2>2, <3>3 DEF Recovered
  <2>3. QED
    BY <2>1, <2>2
<1>3. Recovered(j, d) \in Contents
  BY <1>2 DEF Recovered, Contents
<1>4. RecoveredRevision(j, d) \in Nat
  BY <1>1, LastRevType DEF RecoveredRevision
<1>5. QED
  BY <1>3, <1>4

(* Recovery reads nothing of a journal but its complete records, and       *)
(* nothing of a directory but the snapshot its manifest names.             *)
LEMMA RecoveryReads ==
  ASSUME NEW j, NEW jj, NEW d, NEW dd, j.recs = jj.recs,
         d.snapshot = dd.snapshot, SnapshotOf(d) = SnapshotOf(dd)
  PROVE  /\ Recovered(j, d) = Recovered(jj, dd)
         /\ RecoveredRevision(j, d) = RecoveredRevision(jj, dd)
BY DEF Recovered, RecoveredRevision

(* A snapshot no record is above is what recovery finds. *)
LEMMA RecoveredFromSnapshot ==
  ASSUME NEW j \in Journals, NEW d, d.snapshot \in Nat,
         \A i \in DOMAIN j.recs : j.recs[i].rev <= LastRev(j.recs),
         LastRev(j.recs) <= d.snapshot, SnapshotOf(d) \in Contents
  PROVE  /\ Recovered(j, d) = SnapshotOf(d)
         /\ RecoveredRevision(j, d) = d.snapshot
<1>1. j.recs \in Revisions /\ LastRev(j.recs) \in Nat
  BY LastRevType DEF Journals
<1>2. \A i \in DOMAIN j.recs : j.recs[i].rev \in Nat
  BY <1>1, RecordTypes
<1>3. \A k \in Keys : Mentions(j.recs, d.snapshot, k) = {}
  BY <1>1, <1>2 DEF Mentions
<1>4. Recovered(j, d) = [k \in Keys |-> SnapshotOf(d)[k]]
  BY <1>3 DEF Recovered
<1>5. RecoveredRevision(j, d) = d.snapshot
  BY <1>1 DEF RecoveredRevision
<1>6. QED
  BY <1>4, <1>5 DEF Contents

(* Appending a record above the snapshot overlays its batch. *)
LEMMA RecoveredAppend ==
  ASSUME NEW j \in Journals, NEW d, d.snapshot \in Nat, NEW rec \in Record,
         rec.rev > d.snapshot, NEW t \in BOOLEAN
  PROVE  LET jj == [recs |-> Append(j.recs, rec), torn |-> t]
         IN  /\ Recovered(jj, d) = Overlay(Recovered(j, d), rec.batch)
             /\ RecoveredRevision(jj, d) = rec.rev
             /\ jj \in Journals
<1> DEFINE recs == j.recs
           jj == [recs |-> Append(recs, rec), torn |-> t]
           n == Len(recs)
<1>1. recs \in Revisions /\ n \in Nat /\ DOMAIN recs = 1 .. n
  BY DEF Journals, Revisions
<1>2. /\ jj.recs \in Revisions /\ Len(jj.recs) = n + 1
      /\ DOMAIN jj.recs = 1 .. n + 1
      /\ jj.recs[n + 1] = rec
      /\ \A i \in 1 .. n : jj.recs[i] = recs[i]
  BY <1>1 DEF Revisions, Record
<1>3. RecoveredRevision(jj, d) = rec.rev
  BY <1>1, <1>2 DEF RecoveredRevision, LastRev, Record
<1>4. ASSUME NEW k \in Keys
      PROVE  Recovered(jj, d)[k] = Overlay(Recovered(j, d), rec.batch)[k]
  <2> DEFINE old == Mentions(recs, d.snapshot, k)
             new == Mentions(jj.recs, d.snapshot, k)
  <2>1. CASE rec.batch[k] = Untouched
    <3>1. new = old
      BY <1>1, <1>2, <2>1 DEF Mentions
    <3>2. old # {} => Max(old) \in 1 .. n
      BY <1>1, LastMention
    <3>3. Recovered(jj, d)[k] = Recovered(j, d)[k]
      BY <1>2, <3>1, <3>2 DEF Recovered
    <3>4. QED
      BY <2>1, <3>3 DEF Overlay
  <2>2. CASE rec.batch[k] # Untouched
    <3>1. n + 1 \in new
      BY <1>1, <1>2, <2>2 DEF Mentions
    <3>2. Max(new) \in 1 .. n + 1 /\ Max(new) >= n + 1
      BY <1>2, <3>1, LastMention
    <3>3. Max(new) = n + 1
      BY <1>1, <3>2
    <3>4. Recovered(jj, d)[k] = rec.batch[k]
      BY <1>2, <3>1, <3>3 DEF Recovered
    <3>5. QED
      BY <2>2, <3>4 DEF Overlay
  <2>3. QED
    BY <2>1, <2>2
<1>5. Recovered(jj, d) = Overlay(Recovered(j, d), rec.batch)
  BY <1>4 DEF Recovered, Overlay
<1>6. jj \in Journals
  BY <1>2 DEF Journals
<1>7. QED
  BY <1>3, <1>5, <1>6

-----------------------------------------------------------------------------
(* Types. *)

OffsetAtEnd == open => offset = Len(journal.recs)
TypeInv == TypeOK /\ OffsetAtEnd

(* With the offset at the end a commit cuts nothing off. *)
LEMMA KeptIsJournal ==
  ASSUME TypeInv, open
  PROVE  Kept = journal.recs
<1>1. journal.recs \in Seq(Record)
  BY DEF TypeInv, TypeOK, Journals, Revisions
<1>2. offset = Len(journal.recs)
  BY DEF TypeInv, OffsetAtEnd
<1>3. QED
  BY <1>1, <1>2 DEF Kept

LEMMA CommitTypes ==
  ASSUME TypeOK
  PROVE  NewRecord \in Record /\ Committed \in Contents
<1>1. current \in Nat /\ staged \in Batches /\ index \in Contents
  BY DEF TypeOK
<1>2. NewRecord \in Record
  BY <1>1 DEF NewRecord, Record
<1>3. QED
  BY <1>1, <1>2, OverlayType DEF Committed

LEMMA ManifestTypes ==
  ASSUME NEW d, IsDirectory(d), NEW c \in Nat, NEW s \in Nat, NEW r \in Nat
  PROVE  IsDirectory(ManifestOf(d, c, s, r))
BY DEF IsDirectory, ManifestOf

LEMMA SnapshotWrittenType ==
  ASSUME TypeOK
  PROVE  IsDirectory(SnapshotWritten)
<1>1. IsDirectory(dir) /\ current \in Nat /\ index \in Contents
  BY DEF TypeOK
<1>2. DOMAIN SnapshotWritten.snaps = DOMAIN dir.snaps \cup {current}
  BY DEF SnapshotWritten, WithSnapshot
<1>3. SnapshotWritten.snaps \in [DOMAIN SnapshotWritten.snaps -> Contents]
  BY <1>1, <1>2 DEF SnapshotWritten, WithSnapshot, IsDirectory
<1>4. QED
  BY <1>1, <1>2, <1>3 DEF SnapshotWritten, WithSnapshot, IsDirectory

LEMMA BoundaryType ==
  ASSUME TypeOK, NEW n \in Retentions
  PROVE  Boundary(n) \in Nat
BY BoundsAreNatural DEF TypeOK, Boundary

LEMMA DirectoryTypes ==
  ASSUME TypeOK
  PROVE  /\ IsDirectory(SnapshotManifest) /\ IsDirectory(CommitManifest)
         /\ \A n \in Retentions :
                IsDirectory(CompactManifest(n)) /\ SnapshotAfter(n) \in Nat
<1>1. /\ current \in Nat /\ snapshot \in Nat /\ retention \in Nat
      /\ current + 1 \in Nat /\ IsDirectory(dir)
  BY DEF TypeOK
<1>2. IsDirectory(SnapshotManifest)
  BY <1>1, SnapshotWrittenType, ManifestTypes DEF SnapshotManifest
<1>3. IsDirectory(CommitManifest)
  BY <1>1, ManifestTypes DEF CommitManifest
<1>4. ASSUME NEW n \in Retentions
      PROVE  IsDirectory(CompactManifest(n)) /\ SnapshotAfter(n) \in Nat
  <2>1. IsDirectory(Before(n)) /\ SnapshotAfter(n) \in Nat
    BY <1>1, <1>2 DEF Before, SnapshotAfter
  <2>2. QED
    BY <1>1, <2>1, BoundaryType, ManifestTypes DEF CompactManifest
<1>5. QED
  BY <1>2, <1>3, <1>4

LEMMA OpenTypes ==
  ASSUME TypeOK, Opens(journal, dir)
  PROVE  /\ Recovered(journal, dir) \in Contents
         /\ RecoveredRevision(journal, dir) \in Nat
         /\ IsDirectory(OpenManifest)
<1>1. journal \in Journals /\ IsDirectory(dir)
  BY DEF TypeOK
<1>2. dir.snapshot # 0 => dir.snapshot \in DOMAIN dir.snaps
  BY DEF Opens
<1>3. dir.snapshot \in Nat /\ dir.retention \in Nat
  BY <1>1 DEF IsDirectory
<1>4. QED
  BY <1>1, <1>2, <1>3, RecoveredType, ManifestTypes DEF OpenManifest

LEMMA JournalType ==
  ASSUME NEW recs \in Revisions, NEW t \in BOOLEAN
  PROVE  [recs |-> recs, torn |-> t] \in Journals
BY DEF Journals

LEMMA EmptyJournal ==
  /\ <<>> \in Revisions /\ <<>> \in Seq(Contents)
  /\ Len(<<>>) = 0
  /\ [recs |-> <<>>, torn |-> FALSE] \in Journals
BY DEF Journals, Revisions

LEMMA CommitSyncedTypes ==
  ASSUME TypeInv, CommitSynced
  PROVE  /\ journal' \in Journals /\ index' \in Contents
         /\ revisions' \in Revisions /\ current' \in Nat
         /\ offset' \in Nat /\ synced' \in Nat /\ offset' = Len(journal'.recs)
         /\ Committed \in Contents
<1>1. /\ journal.recs \in Revisions /\ revisions \in Revisions
      /\ current \in Nat /\ TypeOK
  BY DEF TypeInv, TypeOK, Journals
<1>2. NewRecord \in Record /\ Committed \in Contents
  BY <1>1, CommitTypes
<1>3. Kept = journal.recs
  BY KeptIsJournal DEF CommitSynced, CanCommit
<1>4. Append(journal.recs, NewRecord) \in Revisions
      /\ Append(revisions, NewRecord) \in Revisions
      /\ Len(Append(journal.recs, NewRecord)) = Len(journal.recs) + 1
      /\ Len(journal.recs) \in Nat
  BY <1>1, <1>2 DEF Revisions
<1>5. journal' \in Journals
  BY <1>3, <1>4, JournalType DEF CommitSynced
<1>6. QED
  BY <1>1, <1>2, <1>3, <1>4, <1>5 DEF CommitSynced

(* Every operation keeps the types and the journal's end at the offset. *)
LEMMA TypeStep ==
  ASSUME TypeInv, [Next]_vars
  PROVE  TypeInv'
<1> USE DEF TypeInv
<1>1. /\ journal.recs \in Revisions /\ Len(journal.recs) \in Nat
      /\ journal \in Journals /\ dir = dir
      /\ NoBatch \in Batches
  BY RecordTypes, NothingIsContents DEF TypeOK, Journals
<1>2. CASE Open
  <2>1. Opens(journal, dir) /\ TypeOK
    BY <1>2 DEF Open
  <2>2. index' \in Contents /\ current' \in Nat /\ IsDirectory(dir') /\ dirAlt' = {}
    BY <1>2, <2>1, OpenTypes DEF Open, Replaces
  <2>3. hist' \in Seq(Contents)
    BY <1>2, <2>2 DEF Open, TypeOK
  <2>4. snapshot' \in Nat /\ retention' \in Nat
    BY <1>2 DEF Open, TypeOK, IsDirectory
  <2>5. QED
    BY <1>1, <1>2, <2>2, <2>3, <2>4 DEF Open, TypeOK, OffsetAtEnd
<1>3. CASE OpenUnsynced
  <2>1. IsDirectory(dir') /\ dirAlt' = dirAlt \cup {dir}
    BY <1>3, OpenTypes DEF OpenUnsynced, ReplacesUnsynced
  <2>2. QED
    BY <1>3, <2>1 DEF OpenUnsynced, TypeOK, OffsetAtEnd, handle, observers
<1>4. CASE Close
  BY <1>1, <1>4 DEF Close, TypeOK, OffsetAtEnd, files, observers
<1>5. CASE PowerLoss
  BY <1>1, <1>5 DEF PowerLoss, TypeOK, OffsetAtEnd, observers
<1>6. ASSUME NEW k \in Keys, NEW v \in Values \cup {Absent}, Stage(k, v)
      PROVE  TypeInv'
  <2>1. staged' \in Batches
    BY <1>6 DEF Stage, TypeOK, Batches
  <2>2. QED
    BY <1>6, <2>1 DEF Stage, TypeOK, OffsetAtEnd, files, observers
<1>7. CASE DiscardStaged
  BY <1>1, <1>7 DEF DiscardStaged, TypeOK, OffsetAtEnd, files, observers
<1>8. CASE Commit
  <2>1. CommitSynced /\ IsDirectory(dir') /\ dirAlt' = {}
    BY <1>8, DirectoryTypes DEF Commit, Replaces
  <2>2. /\ journal' \in Journals /\ index' \in Contents
        /\ revisions' \in Revisions /\ current' \in Nat
        /\ offset' \in Nat /\ synced' \in Nat /\ offset' = Len(journal'.recs)
        /\ Committed \in Contents
    BY <2>1, CommitSyncedTypes
  <2>3. hist' \in Seq(Contents)
    BY <1>8, <2>2 DEF Commit, TypeOK
  <2>4. QED
    BY <1>1, <1>8, <2>1, <2>2, <2>3 DEF Commit, CommitSynced, TypeOK, OffsetAtEnd
<1>9. CASE CommitRolledBack
  <2>1. Kept = journal.recs
    BY <1>9, KeptIsJournal DEF CommitRolledBack, CanCommit
  <2>2. journal' \in Journals /\ journal'.recs = journal.recs
    BY <1>1, <1>9, <2>1, JournalType DEF CommitRolledBack
  <2>3. synced' \in Nat
    BY <1>1, <1>9, <2>1, LastRevType DEF CommitRolledBack, TypeOK
  <2>4. QED
    BY <1>9, <2>2, <2>3 DEF CommitRolledBack, Fails, TypeOK, OffsetAtEnd
<1>10. CASE CommitTorn
  <2>1. Kept = journal.recs
    BY <1>10, KeptIsJournal DEF CommitTorn, CanCommit
  <2>2. \A t \in BOOLEAN : [recs |-> Kept, torn |-> t] \in Journals
    BY <1>1, <2>1, JournalType
  <2>3. journal' \in Journals /\ journalAlt' \subseteq Journals
    BY <1>10, <2>2 DEF CommitTorn, TypeOK
  <2>4. QED
    BY <1>1, <1>10, <2>3 DEF CommitTorn, Fails, TypeOK, OffsetAtEnd, observers
<1>11. CASE CommitUnsynced
  <2>1. Kept = journal.recs
    BY <1>11, KeptIsJournal DEF CommitUnsynced, CanCommit
  <2>2. \A t \in BOOLEAN : [recs |-> Kept, torn |-> t] \in Journals
    BY <1>1, <2>1, JournalType
  <2>3. Append(Kept, NewRecord) \in Revisions /\ Committed \in Contents
    BY <1>1, <2>1, CommitTypes DEF Revisions
  <2>4. journal' \in Journals /\ journalAlt' \subseteq Journals
    BY <1>11, <2>2, <2>3, JournalType DEF CommitUnsynced, TypeOK
  <2>5. QED
    BY <1>1, <1>11, <2>3, <2>4 DEF CommitUnsynced, Fails, TypeOK, OffsetAtEnd
<1>12. CASE CommitUnpublished
  <2>1. CommitSynced /\ IsDirectory(CommitManifest)
    BY <1>12, DirectoryTypes DEF CommitUnpublished
  <2>2. /\ journal' \in Journals /\ index' \in Contents
        /\ revisions' \in Revisions /\ current' \in Nat
        /\ offset' \in Nat /\ synced' \in Nat /\ Committed \in Contents
    BY <2>1, CommitSyncedTypes
  <2>3. \A d \in {dir'} \cup dirAlt' : IsDirectory(d)
    BY <1>12, <2>1 DEF CommitUnpublished, NotReplaced, ReplacesUnsynced, TypeOK
  <2>4. QED
    BY <1>1, <1>12, <2>1, <2>2, <2>3
    DEF CommitUnpublished, CommitSynced, Fails, TypeOK, OffsetAtEnd
<1>13. IsDirectory(SnapshotWritten) /\ IsDirectory(SnapshotManifest)
  BY SnapshotWrittenType, ManifestTypes DEF SnapshotManifest, TypeOK
<1>14. CASE TakeSnapshot
  BY <1>13, <1>14 DEF TakeSnapshot, Replaces, TypeOK, OffsetAtEnd, observers
<1>15. CASE SnapshotNotWritten
  BY <1>15 DEF SnapshotNotWritten, Fails, TypeOK, OffsetAtEnd, files, observers
<1>16. CASE SnapshotUncertain
  <2>1. \A d \in {dir'} \cup dirAlt' : IsDirectory(d)
    BY <1>13, <1>16 DEF SnapshotUncertain, Replaces, ReplacesUnsynced, TypeOK
  <2>2. snapshot' \in Nat
    BY <1>16 DEF SnapshotUncertain, TypeOK
  <2>3. QED
    BY <1>1, <1>16, <2>1, <2>2 DEF SnapshotUncertain, Fails, TypeOK, OffsetAtEnd, observers
<1>17. ASSUME NEW n \in Retentions
       PROVE  /\ Boundary(n) \in Nat /\ SnapshotAfter(n) \in Nat
              /\ IsDirectory(CompactManifest(n))
  BY BoundaryType, DirectoryTypes
<1>18. ASSUME NEW n \in Retentions, Compact(n) PROVE TypeInv'
  <2>1. IsDirectory(dir') /\ dirAlt' = {} /\ snapshot' \in Nat /\ retention' \in Nat
    BY <1>17, <1>18 DEF Compact, Replaces
  <2>2. CASE n = 0
    <3>1. /\ journal' = [recs |-> <<>>, torn |-> FALSE] /\ journalAlt' = {}
          /\ offset' = 0 /\ revisions' = <<>> /\ failure' = "none"
          /\ synced' = current
      BY <1>18, <2>2 DEF Compact
    <3>2. journal' \in Journals /\ offset' = Len(journal'.recs)
      BY <3>1, EmptyJournal
    <3>3. QED
      BY <1>18, <2>1, <3>1, <3>2, EmptyJournal DEF Compact, TypeOK, OffsetAtEnd
  <2>3. CASE n # 0
    BY <1>18, <2>1, <2>3 DEF Compact, TypeOK, OffsetAtEnd
  <2>4. QED
    BY <2>2, <2>3
<1>19. ASSUME NEW n \in Retentions, CompactNotPublished(n) PROVE TypeInv'
  <2>1. \A d \in {dir'} \cup dirAlt' : IsDirectory(d)
    BY <1>13, <1>19 DEF CompactNotPublished, Replaces, NotReplaced, TypeOK
  <2>2. QED
    BY <1>17, <1>19, <2>1 DEF CompactNotPublished, Fails, TypeOK, OffsetAtEnd, observers
<1>20. ASSUME NEW n \in Retentions, CompactUncertain(n) PROVE TypeInv'
  <2>1. \A d \in {dir'} \cup dirAlt' : IsDirectory(d)
    BY <1>13, <1>17, <1>20 DEF CompactUncertain, Replaces, TypeOK
  <2>2. journal' \in Journals /\ journalAlt' \subseteq Journals
    BY <1>1, <1>20, EmptyJournal DEF CompactUncertain, TypeOK
  <2>3. QED
    BY <1>1, <1>17, <1>20, <2>1, <2>2
    DEF CompactUncertain, Fails, TypeOK, OffsetAtEnd, observers
<1>21. CASE UNCHANGED vars
  BY <1>21 DEF vars, handle, files, observers, TypeOK, OffsetAtEnd
<1>22. QED
  BY <1>2, <1>3, <1>4, <1>5, <1>6, <1>7, <1>8, <1>9, <1>10, <1>11, <1>12,
     <1>14, <1>15, <1>16, <1>18, <1>19, <1>20, <1>21 DEF Next

LEMMA TypeInit == Init => TypeInv
<1>1. ASSUME Init PROVE TypeInv
  <2>1. Nothing \in Contents /\ NoBatch \in Batches
    BY NothingIsContents
  <2>2. journal \in Journals
    BY <1>1, EmptyJournal DEF Init
  <2>3. IsDirectory(dir)
    BY <1>1 DEF Init, IsDirectory
  <2>4. QED
    BY <1>1, <2>1, <2>2, <2>3, EmptyJournal
    DEF Init, TypeInv, TypeOK, OffsetAtEnd
<1>2. QED
  BY <1>1

LEMMA TypeInvariant == Spec => []TypeInv
BY TypeInit, TypeStep, PTL DEF Spec

(* In every reachable state every variable has its type: recovery never    *)
(* finds anything but contents, whatever fails (store_open, store_commit,  *)
(* store_snapshot, store_compact).                                         *)
THEOREM TypeCorrect == Spec => []TypeOK
BY TypeInvariant, PTL DEF TypeInv

-----------------------------------------------------------------------------
(* The inductive invariant.  Durability is not inductive by itself: that a *)
(* file opens depends on the manifest, and the manifest may be undone by a *)
(* power loss later.  So the invariant speaks of every pair of a journal   *)
(* and a directory a power loss may leave, whether they open together or   *)
(* not, and bounds what each may hold against what callers were told.      *)

HandleFollowsHistory ==
    open => /\ current = Len(hist) /\ dirAlt = {} /\ doubt = {}
            /\ HandleShowsDisk

(* The last record is the newest one. *)
NewestLast(j) == \A i \in DOMAIN j.recs : j.recs[i].rev <= LastRev(j.recs)

JournalsBounded ==
    /\ \A j \in CrashJournals : NewestLast(j)
    /\ \A j \in journalAlt : LastRev(j.recs) <= Len(hist)
    /\ LastRev(journal.recs) <= Len(hist) + 1
    /\ open => LastRev(journal.recs) <= Len(hist)

DirBounded(d) ==
    /\ d.snapshot <= Len(hist) /\ Len(hist) <= d.current
    /\ d.snapshot # 0 => d.snapshot \in DOMAIN d.snaps
DirsBounded == \A d \in CrashDirs : DirBounded(d)

(* A journal and a directory that hold at least what callers were told of  *)
(* hold exactly that, or the one commit in doubt on top of it.             *)
Truthful(j, d) ==
    RecoveredRevision(j, d) >= Len(hist) =>
        \/ /\ RecoveredRevision(j, d) = Len(hist)
           /\ Recovered(j, d) = ContentsAt(Len(hist))
        \/ /\ RecoveredRevision(j, d) = Len(hist) + 1
           /\ doubt = {Recovered(j, d)}
DiskTruthful == \A j \in CrashJournals, d \in CrashDirs : Truthful(j, d)

Inv == /\ TypeInv /\ HandleFollowsHistory /\ JournalsBounded /\ DirsBounded
       /\ DiskTruthful

(* Types of everything a crash may leave. *)
LEMMA CrashTypes ==
  ASSUME TypeOK
  PROVE  /\ \A j \in CrashJournals : j \in Journals /\ LastRev(j.recs) \in Nat
         /\ \A d \in CrashDirs : /\ IsDirectory(d) /\ d.snapshot \in Nat
                                 /\ d.current \in Nat /\ d.retention \in Nat
         /\ Len(hist) \in Nat
<1>1. \A j \in CrashJournals : j \in Journals
  BY DEF TypeOK, CrashJournals
<1>2. \A j \in Journals : j.recs \in Revisions
  BY DEF Journals
<1>3. \A d \in CrashDirs : IsDirectory(d)
  BY DEF TypeOK, CrashDirs
<1>4. Len(hist) \in Nat
  BY DEF TypeOK
<1>5. QED
  BY <1>1, <1>2, <1>3, <1>4, LastRevType DEF IsDirectory

(* What an open handle shows is the last version callers were told of. *)
LEMMA OpenShowsHistory ==
  ASSUME Inv, open
  PROVE  /\ index = ContentsAt(Len(hist)) /\ index \in Contents
         /\ current = Len(hist) /\ current \in Nat
         /\ dirAlt = {} /\ doubt = {} /\ CrashDirs = {dir}
         /\ Recovered(journal, dir) = index
         /\ RecoveredRevision(journal, dir) = current
         /\ journal.recs = Kept /\ snapshot = dir.snapshot
<1>1. TypeOK /\ HandleFollowsHistory /\ HandleShowsDisk
  BY DEF Inv, TypeInv, HandleFollowsHistory
<1>2. /\ current = Len(hist) /\ doubt = {} /\ current \in Nat
      /\ index = Recovered(journal, dir)
      /\ RecoveredRevision(journal, dir) = current
      /\ snapshot = dir.snapshot /\ index \in Contents
      /\ dirAlt = {}
  BY <1>1 DEF HandleFollowsHistory, HandleShowsDisk, TypeOK
<1>3. Truthful(journal, dir)
  BY DEF Inv, DiskTruthful, CrashJournals, CrashDirs
<1>4. index = ContentsAt(Len(hist))
  BY <1>2, <1>3 DEF Truthful
<1>5. CrashDirs = {dir} /\ journal.recs = Kept
  BY <1>2, KeptIsJournal DEF CrashDirs, Inv
<1>6. QED
  BY <1>2, <1>4, <1>5

(* A directory whose snapshot is what the open handle shows. *)
Pinned(d) == open /\ d.snapshot = current /\ SnapshotOf(d) = index

LEMMA PinnedIsTruthful ==
  ASSUME Inv, NEW d, Pinned(d), NEW j \in Journals, NewestLast(j),
         LastRev(j.recs) <= Len(hist)
  PROVE  /\ RecoveredRevision(j, d) = Len(hist)
         /\ Recovered(j, d) = ContentsAt(Len(hist))
<1>1. /\ SnapshotOf(d) = ContentsAt(Len(hist)) /\ SnapshotOf(d) \in Contents
      /\ d.snapshot = Len(hist) /\ d.snapshot \in Nat
  BY OpenShowsHistory DEF Pinned
<1>2. QED
  BY <1>1, RecoveredFromSnapshot DEF NewestLast

SameSnapshot(d, dd) == d.snapshot = dd.snapshot /\ SnapshotOf(d) = SnapshotOf(dd)

(* The steps that publish nothing: every journal and every directory that  *)
(* a crash may now leave reads as one it could leave before, or as the     *)
(* snapshot of what the handle shows; and the journal is only emptied when *)
(* every directory holds that snapshot.                                    *)
LEMMA NothingPublished ==
  ASSUME Inv, hist' = hist, doubt' = doubt,
         \A d \in CrashDirs' :
             Pinned(d) \/ \E dd \in CrashDirs : SameSnapshot(d, dd),
         \A j \in CrashJournals' :
             \/ \E jj \in CrashJournals : j.recs = jj.recs
             \/ j = [recs |-> <<>>, torn |-> FALSE] /\ \A d \in CrashDirs' : Pinned(d)
  PROVE  DiskTruthful'
<1> SUFFICES ASSUME NEW j \in CrashJournals', NEW d \in CrashDirs'
             PROVE  Truthful(j, d)'
  BY DEF DiskTruthful
<1>1. CASE Pinned(d)
  <2>1. PICK jj \in Journals : /\ NewestLast(jj) /\ LastRev(jj.recs) <= Len(hist)
                               /\ j.recs = jj.recs
    <3>1. CASE j = [recs |-> <<>>, torn |-> FALSE]
      <4>1. j.recs = <<>> /\ LastRev(j.recs) = 0 /\ Len(hist) \in Nat
        BY <3>1, CrashTypes DEF LastRev, Inv, TypeInv
      <4>2. QED
        BY <3>1, <4>1, EmptyJournal DEF NewestLast
    <3>2. CASE \E jj \in CrashJournals : j.recs = jj.recs
      BY <1>1, <3>2, CrashTypes
      DEF Pinned, Inv, TypeInv, JournalsBounded, CrashJournals
    <3>3. QED
      BY <3>1, <3>2
  <2>2. /\ RecoveredRevision(jj, d) = Len(hist)
        /\ Recovered(jj, d) = ContentsAt(Len(hist))
    BY <1>1, <2>1, PinnedIsTruthful
  <2>3. /\ RecoveredRevision(j, d) = RecoveredRevision(jj, d)
        /\ Recovered(j, d) = Recovered(jj, d)
    BY <2>1 DEF RecoveredRevision, Recovered
  <2>4. QED
    BY <2>2, <2>3 DEF Truthful, ContentsAt
<1>2. CASE ~Pinned(d)
  <2>1. PICK dd \in CrashDirs : SameSnapshot(d, dd)
    BY <1>2
  <2>2. PICK jj \in CrashJournals : j.recs = jj.recs
    BY <1>2
  <2>3. Truthful(jj, dd)
    BY DEF Inv, DiskTruthful
  <2>4. /\ RecoveredRevision(j, d) = RecoveredRevision(jj, dd)
        /\ Recovered(j, d) = Recovered(jj, dd)
    BY <2>1, <2>2, RecoveryReads DEF SameSnapshot
  <2>5. QED
    BY <2>3, <2>4 DEF Truthful, ContentsAt
<1>3. QED
  BY <1>1, <1>2

(* Writing a snapshot and a manifest. *)
LEMMA SnapshotsPinned ==
  ASSUME Inv, open, NEW n
  PROVE  /\ Pinned(SnapshotManifest)
         /\ Pinned(SnapshotWritten) \/ SameSnapshot(SnapshotWritten, dir)
         /\ n = 0 => Pinned(CompactManifest(n))
         /\ n # 0 => SameSnapshot(CompactManifest(n), dir)
         /\ DirBounded(SnapshotManifest) /\ DirBounded(SnapshotWritten)
         /\ DirBounded(CompactManifest(n))
         /\ SnapshotManifest.snapshot = current
         /\ CompactManifest(n).snapshot = SnapshotAfter(n)
         /\ CompactManifest(n).retention = Boundary(n)
         /\ SnapshotManifest.retention = retention
<1>1. /\ index = ContentsAt(Len(hist)) /\ current = Len(hist) /\ current \in Nat
      /\ snapshot = dir.snapshot
  BY OpenShowsHistory
<1>2. /\ DirBounded(dir) /\ dir.snapshot \in Nat /\ dir.current \in Nat
  BY CrashTypes DEF Inv, TypeInv, DirsBounded, CrashDirs
<1>3. /\ DOMAIN SnapshotWritten.snaps = DOMAIN dir.snaps \cup {current}
      /\ SnapshotWritten.snaps[current] = index
      /\ \A r \in DOMAIN dir.snaps :
            r # current => SnapshotWritten.snaps[r] = dir.snaps[r]
      /\ SnapshotWritten.snapshot = dir.snapshot
      /\ SnapshotWritten.current = dir.current
  BY DEF SnapshotWritten, WithSnapshot
<1>4. current = 0 => index = Nothing
  BY <1>1 DEF ContentsAt
<1>5. /\ SnapshotManifest.snapshot = current /\ SnapshotManifest.current = current
      /\ SnapshotManifest.snaps = SnapshotWritten.snaps
      /\ SnapshotManifest.retention = retention
  BY DEF SnapshotManifest, ManifestOf
<1>6. Pinned(SnapshotManifest) /\ DirBounded(SnapshotManifest)
  BY <1>1, <1>3, <1>4, <1>5 DEF Pinned, SnapshotOf, DirBounded
<1>7. DirBounded(SnapshotWritten)
  BY <1>1, <1>2, <1>3 DEF DirBounded
<1>8. Pinned(SnapshotWritten) \/ SameSnapshot(SnapshotWritten, dir)
  <2>1. CASE dir.snapshot = current
    BY <1>3, <1>4, <2>1 DEF Pinned, SnapshotOf
  <2>2. CASE dir.snapshot # current
    BY <1>2, <1>3, <2>2 DEF SameSnapshot, SnapshotOf, DirBounded
  <2>3. QED
    BY <2>1, <2>2
<1>9. /\ CompactManifest(n).snapshot = SnapshotAfter(n)
      /\ CompactManifest(n).current = current
      /\ CompactManifest(n).snaps = Before(n).snaps
      /\ CompactManifest(n).retention = Boundary(n)
  BY DEF CompactManifest, ManifestOf
<1>10. CASE n = 0
  BY <1>1, <1>3, <1>4, <1>5, <1>6, <1>7, <1>8, <1>9, <1>10
  DEF Before, SnapshotAfter, Pinned, SnapshotOf, DirBounded
<1>11. CASE n # 0
  BY <1>1, <1>2, <1>5, <1>6, <1>7, <1>8, <1>9, <1>11
  DEF Before, SnapshotAfter, SameSnapshot, SnapshotOf, DirBounded
<1>12. QED
  BY <1>10, <1>11

-----------------------------------------------------------------------------
(* Every step keeps the invariant.  The journals and directories of the    *)
(* steps that publish nothing are covered by NothingPublished; the other   *)
(* steps are Open, and the commits that complete a record.                 *)

(* The handle is left alone, or only given up, and so are the files. *)
LEMMA QuietStep ==
  ASSUME Inv, [Next]_vars, UNCHANGED <<files, observers>>,
         open' => open, UNCHANGED <<index, revisions, current, snapshot,
                                    retention, offset>>
  PROVE  Inv'
<1>1. TypeInv'
  BY TypeStep DEF Inv
<1>2. /\ UNCHANGED <<journal, dir, journalAlt, dirAlt, hist, doubt>>
      /\ CrashJournals' = CrashJournals /\ CrashDirs' = CrashDirs
  BY DEF files, observers, CrashJournals, CrashDirs
<1>3. DiskTruthful'
  BY <1>2 DEF Inv, DiskTruthful, Truthful, ContentsAt
<1>4. JournalsBounded' /\ DirsBounded'
  BY <1>2 DEF Inv, JournalsBounded, NewestLast, DirsBounded, DirBounded
<1>5. HandleFollowsHistory'
  BY <1>2 DEF Inv, HandleFollowsHistory, HandleShowsDisk
<1>6. QED
  BY <1>1, <1>3, <1>4, <1>5 DEF Inv

LEMMA OpenUnsyncedStep ==
  ASSUME Inv, OpenUnsynced
  PROVE  Inv'
<1>1. TypeInv'
  BY TypeStep DEF Inv, Next
<1>2. /\ UNCHANGED <<open, journal, journalAlt, hist, doubt>>
      /\ ~open /\ Opens(journal, dir)
      /\ dir' = OpenManifest /\ dirAlt' = dirAlt \cup {dir}
  BY DEF OpenUnsynced, ReplacesUnsynced, handle, observers
<1>3. /\ OpenManifest.snapshot = dir.snapshot /\ OpenManifest.snaps = dir.snaps
      /\ OpenManifest.current = RecoveredRevision(journal, dir)
      /\ SameSnapshot(OpenManifest, dir)
  BY DEF OpenManifest, ManifestOf, SameSnapshot, SnapshotOf
<1>4. /\ CrashDirs' = CrashDirs \cup {OpenManifest} /\ dir \in CrashDirs
      /\ CrashJournals' = CrashJournals
  BY <1>2 DEF CrashDirs, CrashJournals
<1>5. DirBounded(OpenManifest)
  <2>1. DirBounded(dir) /\ RecoveredRevision(journal, dir) >= dir.current
    BY <1>2 DEF Inv, DirsBounded, CrashDirs, Opens
  <2>2. /\ Len(hist) \in Nat /\ dir.current \in Nat
        /\ RecoveredRevision(journal, dir) \in Nat
    BY <1>2, CrashTypes, OpenTypes DEF Inv, TypeInv, CrashDirs
  <2>3. QED
    BY <1>3, <2>1, <2>2 DEF DirBounded
<1>6. DirsBounded'
  BY <1>2, <1>4, <1>5 DEF Inv, DirsBounded, DirBounded
<1>7. DiskTruthful'
  <2>1. \A d \in CrashDirs' : \E dd \in CrashDirs : SameSnapshot(d, dd)
    BY <1>3, <1>4 DEF SameSnapshot
  <2>2. QED
    BY <1>2, <1>4, <2>1, NothingPublished
<1>8. JournalsBounded'
  BY <1>2, <1>4 DEF Inv, JournalsBounded, NewestLast
<1>9. HandleFollowsHistory'
  BY <1>2 DEF HandleFollowsHistory
<1>10. QED
  BY <1>1, <1>6, <1>7, <1>8, <1>9 DEF Inv

LEMMA PowerLossStep ==
  ASSUME Inv, PowerLoss
  PROVE  Inv'
<1>1. TypeInv'
  BY TypeStep DEF Inv, Next
<1>2. /\ journal' \in CrashJournals /\ dir' \in CrashDirs
      /\ CrashJournals' = {journal'} /\ CrashDirs' = {dir'}
      /\ open' = FALSE /\ hist' = hist /\ doubt' = doubt /\ journalAlt' = {}
  BY DEF PowerLoss, CrashJournals, CrashDirs, observers
<1>3. DiskTruthful'
  BY <1>2 DEF Inv, DiskTruthful, Truthful, ContentsAt
<1>4. DirsBounded'
  BY <1>2 DEF Inv, DirsBounded, DirBounded
<1>5. JournalsBounded'
  <2>1. \A j \in CrashJournals : NewestLast(j) /\ LastRev(j.recs) <= Len(hist) + 1
    BY CrashTypes DEF Inv, TypeInv, JournalsBounded, CrashJournals
  <2>2. QED
    BY <1>2, <2>1 DEF JournalsBounded, NewestLast
<1>6. HandleFollowsHistory'
  BY <1>2 DEF HandleFollowsHistory
<1>7. QED
  BY <1>1, <1>3, <1>4, <1>5, <1>6 DEF Inv

LEMMA OpenStep ==
  ASSUME Inv, Open
  PROVE  Inv'
<1> DEFINE rr == RecoveredRevision(journal, dir)
<1>1. TypeInv'
  BY TypeStep DEF Inv, Next
<1>2. /\ Opens(journal, dir) /\ open' = TRUE /\ index' = Recovered(journal, dir)
      /\ revisions' = journal.recs /\ current' = rr /\ offset' = Len(journal.recs)
      /\ snapshot' = dir.snapshot /\ retention' = dir.retention
      /\ dir' = OpenManifest /\ dirAlt' = {} /\ UNCHANGED <<journal, journalAlt>>
      /\ hist' = IF rr > Len(hist) THEN Append(hist, index') ELSE hist
      /\ doubt' = {}
  BY DEF Open, Replaces
<1>3. /\ OpenManifest.snapshot = dir.snapshot /\ OpenManifest.snaps = dir.snaps
      /\ OpenManifest.retention = dir.retention /\ OpenManifest.current = rr
      /\ SnapshotOf(OpenManifest) = SnapshotOf(dir)
  BY DEF OpenManifest, ManifestOf, SnapshotOf
<1>4. \A j : /\ Recovered(j, dir') = Recovered(j, dir)
             /\ RecoveredRevision(j, dir') = RecoveredRevision(j, dir)
  BY <1>2, <1>3 DEF Recovered, RecoveredRevision
<1>5. /\ Len(hist) \in Nat /\ dir.current \in Nat /\ rr \in Nat
      /\ hist \in Seq(Contents) /\ Recovered(journal, dir) \in Contents
      /\ dir.snapshot \in Nat
  BY <1>2, CrashTypes, OpenTypes DEF Inv, TypeInv, TypeOK, CrashDirs
<1>6. DirBounded(dir) /\ rr >= Len(hist)
  <2>1. DirBounded(dir)
    BY DEF Inv, DirsBounded, CrashDirs
  <2>2. rr >= dir.current
    BY <1>2 DEF Opens
  <2>3. QED
    BY <1>5, <2>1, <2>2 DEF DirBounded
<1>7. /\ rr = Len(hist) \/ rr = Len(hist) + 1
      /\ rr = Len(hist) => Recovered(journal, dir) = ContentsAt(Len(hist))
  <2>1. Truthful(journal, dir)
    BY DEF Inv, DiskTruthful, CrashJournals, CrashDirs
  <2>2. QED
    BY <1>5, <1>6, <2>1 DEF Truthful
<1>8. /\ Len(hist') = rr
      /\ Recovered(journal, dir) = IF rr = 0 THEN Nothing ELSE hist'[rr]
  <2>1. CASE rr = Len(hist)
    BY <1>2, <1>5, <1>7, <2>1 DEF ContentsAt
  <2>2. CASE rr = Len(hist) + 1
    <3>1. hist' = Append(hist, Recovered(journal, dir))
      BY <1>2, <1>5, <2>2
    <3>2. Len(hist') = rr /\ hist'[rr] = Recovered(journal, dir) /\ rr # 0
      BY <1>5, <2>2, <3>1
    <3>3. QED
      BY <3>2
  <2>3. QED
    BY <1>7, <2>1, <2>2
<1>9. CrashDirs' = {dir'} /\ CrashJournals' = CrashJournals
  BY <1>2 DEF CrashDirs, CrashJournals
<1>10. DirsBounded'
  BY <1>2, <1>3, <1>5, <1>6, <1>8, <1>9 DEF DirsBounded, DirBounded
<1>11. /\ \A j \in CrashJournals : NewestLast(j)
       /\ \A j \in journalAlt : LastRev(j.recs) <= Len(hist) /\ LastRev(j.recs) \in Nat
       /\ LastRev(journal.recs) \in Nat /\ LastRev(journal.recs) <= rr
  BY <1>5, CrashTypes
  DEF Inv, TypeInv, JournalsBounded, CrashJournals, RecoveredRevision
<1>12. JournalsBounded'
  <2>1. \A j \in journalAlt : LastRev(j.recs) <= Len(hist')
    BY <1>5, <1>6, <1>8, <1>11
  <2>2. QED
    BY <1>2, <1>5, <1>8, <1>9, <1>11, <2>1 DEF JournalsBounded, NewestLast
<1>13. DiskTruthful'
  <2> SUFFICES ASSUME NEW j \in CrashJournals', NEW d \in CrashDirs'
               PROVE  Truthful(j, d)'
    BY DEF DiskTruthful
  <2>0. /\ Recovered(j, d) = Recovered(j, dir)
        /\ RecoveredRevision(j, d) = RecoveredRevision(j, dir)
    BY <1>4, <1>9
  <2>1. CASE j = journal
    BY <1>8, <2>0, <2>1 DEF Truthful, ContentsAt
  <2>2. CASE j \in journalAlt
    <3>1. /\ RecoveredRevision(j, dir) <= Len(hist)
          /\ RecoveredRevision(j, dir) \in Nat
      BY <1>5, <1>6, <1>11, <2>2 DEF RecoveredRevision, DirBounded
    <3>2. CASE rr = Len(hist)
      <4>1. Truthful(j, dir) /\ hist' = hist
        BY <1>2, <1>5, <2>2, <3>2 DEF Inv, DiskTruthful, CrashJournals, CrashDirs
      <4>2. QED
        BY <1>5, <2>0, <3>1, <4>1 DEF Truthful, ContentsAt
    <3>3. CASE rr = Len(hist) + 1
      <4>1. ~(RecoveredRevision(j, d) >= Len(hist'))
        BY <2>0, <1>5, <1>8, <3>1, <3>3
      <4>2. QED
        BY <4>1 DEF Truthful
    <3>4. QED
      BY <1>7, <3>2, <3>3
  <2>3. QED
    BY <1>9, <2>1, <2>2 DEF CrashJournals
<1>14. HandleFollowsHistory'
  BY <1>2, <1>3, <1>4, <1>8 DEF HandleFollowsHistory, HandleShowsDisk
<1>15. QED
  BY <1>1, <1>10, <1>12, <1>13, <1>14 DEF Inv

(* The journal of a commit that completed its record. *)
LEMMA AppendedJournal ==
  ASSUME Inv, CanCommit
  PROVE  LET j == [recs |-> Append(Kept, NewRecord), torn |-> FALSE]
         IN  /\ Recovered(j, dir) = Committed
             /\ RecoveredRevision(j, dir) = Len(hist) + 1
             /\ LastRev(j.recs) = Len(hist) + 1 /\ NewestLast(j)
<1> DEFINE j == [recs |-> Append(Kept, NewRecord), torn |-> FALSE]
<1>1. /\ current = Len(hist) /\ current \in Nat /\ journal.recs = Kept
      /\ Recovered(journal, dir) = index
  BY OpenShowsHistory DEF CanCommit
<1>2. /\ journal \in Journals /\ dir.snapshot \in Nat /\ dir.snapshot <= current
      /\ NewestLast(journal) /\ LastRev(journal.recs) <= current
      /\ LastRev(journal.recs) \in Nat
  BY <1>1, CrashTypes
  DEF Inv, TypeInv, DirsBounded, DirBounded, JournalsBounded, CrashDirs,
      CrashJournals, CanCommit
<1>3. NewRecord \in Record /\ NewRecord.rev = current + 1 /\ NewRecord.batch = staged
  BY CommitTypes DEF Inv, TypeInv, NewRecord
<1>4. /\ Recovered(j, dir) = Overlay(Recovered(journal, dir), NewRecord.batch)
      /\ RecoveredRevision(j, dir) = NewRecord.rev
  <2>1. NewRecord.rev > dir.snapshot
    BY <1>1, <1>2, <1>3
  <2> DEFINE jj == [recs |-> Append(journal.recs, NewRecord), torn |-> FALSE]
  <2>2. /\ Recovered(jj, dir) = Overlay(Recovered(journal, dir), NewRecord.batch)
        /\ RecoveredRevision(jj, dir) = NewRecord.rev
    BY <1>2, <1>3, <2>1, RecoveredAppend
  <2>3. QED
    BY <1>1, <2>2
<1>5. LastRev(j.recs) = Len(hist) + 1 /\ NewestLast(j)
  <2>1. journal.recs \in Revisions
    BY <1>2 DEF Journals
  <2>2. /\ Len(journal.recs) \in Nat /\ DOMAIN journal.recs = 1 .. Len(journal.recs)
        /\ \A i \in 1 .. Len(journal.recs) : journal.recs[i].rev \in Nat
    BY <2>1, RecordTypes
  <2>3. /\ Len(j.recs) = Len(journal.recs) + 1 /\ j.recs # <<>>
        /\ DOMAIN j.recs = 1 .. Len(journal.recs) + 1
        /\ j.recs[Len(journal.recs) + 1] = NewRecord
        /\ \A i \in 1 .. Len(journal.recs) : j.recs[i] = journal.recs[i]
    BY <1>1, <1>3, <2>1, <2>2 DEF Revisions
  <2>4. LastRev(j.recs) = current + 1
    BY <1>3, <2>3 DEF LastRev
  <2>5. \A i \in 1 .. Len(journal.recs) : journal.recs[i].rev <= current + 1
    BY <1>1, <1>2, <2>2 DEF NewestLast
  <2>6. NewestLast(j)
    BY <1>1, <1>3, <2>2, <2>3, <2>4, <2>5 DEF NewestLast
  <2>7. QED
    BY <1>1, <2>4, <2>6
<1>6. QED
  BY <1>1, <1>3, <1>4, <1>5 DEF Committed

(* A commit that wrote no complete record. *)
LEMMA FailedCommitStep ==
  ASSUME Inv, CommitRolledBack \/ CommitTorn
  PROVE  Inv'
<1>1. TypeInv'
  BY TypeStep DEF Inv, Next
<1>2. /\ open /\ UNCHANGED <<index, revisions, current, snapshot, retention,
                             offset, dir, dirAlt, hist, doubt>>
      /\ open' \in {open, FALSE}
  BY DEF CommitRolledBack, CommitTorn, CanCommit, Fails, observers
<1>3. journal.recs = Kept
  BY <1>2, OpenShowsHistory
<1>4. /\ \A j \in CrashJournals' : \E jj \in CrashJournals : j.recs = jj.recs
      /\ journal'.recs = journal.recs
      /\ \A j \in journalAlt' : j \in journalAlt \/ j.recs = journal.recs
  <2>1. CASE CommitRolledBack
    BY <1>3, <2>1 DEF CommitRolledBack, CrashJournals
  <2>2. CASE CommitTorn
    BY <1>3, <2>2 DEF CommitTorn, CrashJournals
  <2>3. QED
    BY <2>1, <2>2
<1>5. CrashDirs' = CrashDirs
  BY <1>2 DEF CrashDirs
<1>6. DiskTruthful'
  BY <1>2, <1>4, <1>5, NothingPublished DEF SameSnapshot
<1>7. DirsBounded'
  BY <1>2, <1>5 DEF Inv, DirsBounded, DirBounded
<1>8. JournalsBounded'
  <2>1. \A j \in CrashJournals' : NewestLast(j)
    BY <1>4 DEF Inv, JournalsBounded, NewestLast
  <2>2. LastRev(journal.recs) <= Len(hist)
    BY <1>2 DEF Inv, JournalsBounded
  <2>3. \A j \in journalAlt' : LastRev(j.recs) <= Len(hist)
    BY <1>4, <2>2 DEF Inv, JournalsBounded
  <2>4. LastRev(journal'.recs) <= Len(hist) /\ LastRev(journal'.recs) <= Len(hist) + 1
    BY <1>4, <2>2 DEF Inv, JournalsBounded
  <2>5. QED
    BY <1>2, <2>1, <2>3, <2>4 DEF JournalsBounded, NewestLast
<1>9. HandleFollowsHistory'
  <2>1. HandleFollowsHistory /\ HandleShowsDisk
    BY <1>2 DEF Inv, HandleFollowsHistory
  <2>2. Recovered(journal', dir) = Recovered(journal, dir)
        /\ RecoveredRevision(journal', dir) = RecoveredRevision(journal, dir)
    BY <1>4 DEF Recovered, RecoveredRevision
  <2>3. QED
    BY <1>2, <1>4, <2>1, <2>2 DEF HandleFollowsHistory, HandleShowsDisk
<1>10. QED
  BY <1>1, <1>6, <1>7, <1>8, <1>9 DEF Inv

(* A commit that completed its record and reported an uncertain outcome. *)
LEMMA UncertainCommitStep ==
  ASSUME Inv, CommitUnsynced \/ CommitUnpublished
  PROVE  Inv'
<1> DEFINE jn == [recs |-> Append(Kept, NewRecord), torn |-> FALSE]
<1>1. TypeInv'
  BY TypeStep DEF Inv, Next
<1>2. /\ CanCommit /\ open /\ open' = FALSE /\ journal' = jn
      /\ hist' = hist /\ doubt' = {Committed}
      /\ journalAlt' \subseteq journalAlt \cup {journal}
                                 \cup {[recs |-> Kept, torn |-> t] : t \in BOOLEAN}
  BY DEF CommitUnsynced, CommitUnpublished, CommitSynced, CanCommit, Fails
<1>3. /\ journal.recs = Kept /\ CrashDirs = {dir} /\ Len(hist) \in Nat
      /\ current = Len(hist) /\ doubt = {}
  BY <1>2, OpenShowsHistory, CrashTypes DEF Inv, TypeInv
<1>4. \A d \in CrashDirs' : SameSnapshot(d, dir) /\ d.snaps = dir.snaps
                            /\ d.current \in {dir.current, current + 1}
  BY <1>3
  DEF CommitUnsynced, CommitUnpublished, NotReplaced, ReplacesUnsynced,
      CommitManifest, ManifestOf, CrashDirs, SameSnapshot, SnapshotOf, Inv,
      HandleFollowsHistory, HandleShowsDisk, CanCommit, CommitSynced
<1>5. /\ Recovered(jn, dir) = Committed /\ RecoveredRevision(jn, dir) = Len(hist) + 1
      /\ LastRev(jn.recs) = Len(hist) + 1 /\ NewestLast(jn)
  BY <1>2, AppendedJournal
<1>6. \A j \in journalAlt' : \E jj \in CrashJournals : j.recs = jj.recs
                             /\ LastRev(jj.recs) <= Len(hist)
  BY <1>2, <1>3 DEF Inv, JournalsBounded, CrashJournals
<1>7. DirsBounded'
  BY <1>2, <1>3, <1>4 DEF Inv, DirsBounded, DirBounded, CrashDirs, SameSnapshot
<1>8. JournalsBounded'
  <2>1. \A j \in CrashJournals' : NewestLast(j)
    BY <1>2, <1>5, <1>6 DEF Inv, JournalsBounded, NewestLast, CrashJournals
  <2>2. \A j \in journalAlt' : LastRev(j.recs) <= Len(hist)
    BY <1>6
  <2>3. QED
    BY <1>2, <1>3, <1>5, <2>1, <2>2 DEF JournalsBounded, NewestLast
<1>9. DiskTruthful'
  <2> SUFFICES ASSUME NEW j \in CrashJournals', NEW d \in CrashDirs'
               PROVE  Truthful(j, d)'
    BY DEF DiskTruthful
  <2>1. SameSnapshot(d, dir)
    BY <1>4
  <2>2. CASE j = jn
    <3>1. /\ Recovered(j, d) = Committed
          /\ RecoveredRevision(j, d) = Len(hist) + 1
      BY <1>5, <2>1, <2>2, RecoveryReads DEF SameSnapshot
    <3>2. QED
      BY <1>2, <3>1 DEF Truthful
  <2>3. CASE j \in journalAlt'
    <3>1. PICK jj \in CrashJournals : j.recs = jj.recs
      BY <1>6, <2>3
    <3>2. /\ Recovered(j, d) = Recovered(jj, dir)
          /\ RecoveredRevision(j, d) = RecoveredRevision(jj, dir)
      BY <2>1, <3>1, RecoveryReads DEF SameSnapshot
    <3>3. Truthful(jj, dir)
      BY <1>3 DEF Inv, DiskTruthful
    <3>4. QED
      BY <1>2, <1>3, <3>2, <3>3 DEF Truthful, ContentsAt
  <2>4. QED
    BY <1>2, <2>2, <2>3 DEF CrashJournals
<1>10. HandleFollowsHistory'
  BY <1>2 DEF HandleFollowsHistory
<1>11. QED
  BY <1>1, <1>7, <1>8, <1>9, <1>10 DEF Inv

(* A commit that succeeded. *)
LEMMA CommitStep ==
  ASSUME Inv, Commit
  PROVE  Inv'
<1> DEFINE jn == [recs |-> Append(Kept, NewRecord), torn |-> FALSE]
<1>1. TypeInv'
  BY TypeStep DEF Inv, Next
<1>2. /\ CanCommit /\ open /\ open' = TRUE /\ journal' = jn /\ journalAlt' = {}
      /\ dir' = CommitManifest /\ dirAlt' = {}
      /\ index' = Committed /\ revisions' = Append(revisions, NewRecord)
      /\ current' = current + 1 /\ offset' = Len(Kept) + 1
      /\ hist' = Append(hist, Committed) /\ doubt' = doubt
      /\ UNCHANGED <<snapshot, retention>>
  BY DEF Commit, CommitSynced, CanCommit, Replaces
<1>3. /\ journal.recs = Kept /\ CrashDirs = {dir} /\ Len(hist) \in Nat
      /\ current = Len(hist) /\ doubt = {}
  BY <1>2, OpenShowsHistory, CrashTypes DEF Inv, TypeInv
<1>4. /\ revisions = journal.recs /\ snapshot = dir.snapshot /\ retention = dir.retention
  BY <1>2 DEF Inv, HandleFollowsHistory, HandleShowsDisk
<1>5. /\ CommitManifest.snapshot = dir.snapshot /\ CommitManifest.snaps = dir.snaps
      /\ CommitManifest.retention = dir.retention
      /\ CommitManifest.current = current + 1
      /\ SnapshotOf(CommitManifest) = SnapshotOf(dir)
  BY <1>4 DEF CommitManifest, ManifestOf, SnapshotOf
<1>6. /\ Recovered(jn, dir) = Committed /\ RecoveredRevision(jn, dir) = Len(hist) + 1
      /\ LastRev(jn.recs) = Len(hist) + 1 /\ NewestLast(jn)
  BY <1>2, AppendedJournal
<1>7. /\ Recovered(jn, dir') = Committed
      /\ RecoveredRevision(jn, dir') = Len(hist) + 1
  BY <1>2, <1>5, <1>6, RecoveryReads
<1>8. Len(hist') = Len(hist) + 1 /\ hist'[Len(hist) + 1] = Committed
  BY <1>2, <1>3, CommitTypes DEF Inv, TypeInv, TypeOK
<1>9. CrashJournals' = {jn} /\ CrashDirs' = {dir'}
  BY <1>2 DEF CrashJournals, CrashDirs
<1>10. DirsBounded'
  <2>1. DirBounded(dir) /\ dir.snapshot \in Nat
    BY CrashTypes DEF Inv, TypeInv, DirsBounded, CrashDirs
  <2>2. QED
    BY <1>2, <1>3, <1>5, <1>8, <1>9, <2>1 DEF DirsBounded, DirBounded
<1>11. JournalsBounded'
  BY <1>2, <1>3, <1>6, <1>8, <1>9 DEF JournalsBounded, NewestLast
<1>12. DiskTruthful'
  <2> SUFFICES ASSUME NEW j \in CrashJournals', NEW d \in CrashDirs'
               PROVE  Truthful(j, d)'
    BY DEF DiskTruthful
  <2>1. /\ Recovered(j, d) = Committed
        /\ RecoveredRevision(j, d) = Len(hist) + 1
    BY <1>7, <1>9
  <2>2. QED
    BY <1>3, <1>8, <2>1 DEF Truthful, ContentsAt
<1>13. HandleFollowsHistory'
  <2>1. offset' = Len(journal'.recs)
    BY <1>1, <1>2 DEF TypeInv, OffsetAtEnd
  <2>2. revisions' = journal'.recs
    BY <1>2, <1>3, <1>4
  <2>3. QED
    BY <1>2, <1>3, <1>4, <1>5, <1>7, <1>8, <2>1, <2>2
    DEF HandleFollowsHistory, HandleShowsDisk
<1>14. QED
  BY <1>1, <1>10, <1>11, <1>12, <1>13 DEF Inv

(* store_snapshot and store_compact publish nothing new; what is left to   *)
(* show is what they do to the files and to the handle.                    *)
LEMMA MaintenanceStep ==
  ASSUME Inv, TypeInv', open, UNCHANGED <<index, current, hist, doubt>>,
         \A d \in CrashDirs' :
             /\ DirBounded(d)
             /\ Pinned(d) \/ \E dd \in CrashDirs : SameSnapshot(d, dd),
         \/ UNCHANGED <<journal, journalAlt>>
         \/ /\ journal' = [recs |-> <<>>, torn |-> FALSE]
            /\ journalAlt' \subseteq journalAlt \cup {journal}
            /\ \A d \in CrashDirs' : Pinned(d)
            /\ \/ open' = FALSE
               \/ journalAlt' = {},
         open' => /\ dirAlt' = {} /\ revisions' = journal'.recs
                  /\ snapshot' = dir'.snapshot /\ retention' = dir'.retention
  PROVE  Inv'
<1>1. /\ current = Len(hist) /\ doubt = {} /\ Len(hist) \in Nat
      /\ index = ContentsAt(Len(hist))
      /\ Recovered(journal, dir) = index /\ RecoveredRevision(journal, dir) = current
      /\ CrashDirs = {dir}
  BY OpenShowsHistory, CrashTypes DEF Inv, TypeInv
<1>2. LastRev(journal.recs) <= Len(hist)
  BY DEF Inv, JournalsBounded
<1>3. DirsBounded'
  BY DEF DirsBounded, DirBounded
<1>4. LET e == [recs |-> <<>>, torn |-> FALSE]
      IN  e \in Journals /\ e.recs = <<>> /\ LastRev(e.recs) = 0 /\ NewestLast(e)
  BY EmptyJournal DEF LastRev, NewestLast
<1>5. JournalsBounded'
  <2>1. CASE UNCHANGED <<journal, journalAlt>>
    BY <1>1, <1>2, <2>1 DEF Inv, JournalsBounded, NewestLast, CrashJournals
  <2>2. CASE journal' = [recs |-> <<>>, torn |-> FALSE]
             /\ journalAlt' \subseteq journalAlt \cup {journal}
    <3>1. \A j \in CrashJournals' : NewestLast(j)
      BY <1>4, <2>2 DEF Inv, JournalsBounded, NewestLast, CrashJournals
    <3>2. \A j \in journalAlt' : LastRev(j.recs) <= Len(hist)
      BY <1>2, <2>2 DEF Inv, JournalsBounded
    <3>3. LastRev(journal'.recs) <= Len(hist) /\ LastRev(journal'.recs) <= Len(hist) + 1
      BY <1>1, <1>4, <2>2
    <3>4. QED
      BY <3>1, <3>2, <3>3 DEF JournalsBounded, NewestLast
  <2>3. QED
    BY <2>1, <2>2
<1>6. DiskTruthful'
  <2>1. \A j \in CrashJournals' :
          \/ \E jj \in CrashJournals : j.recs = jj.recs
          \/ j = [recs |-> <<>>, torn |-> FALSE] /\ \A d \in CrashDirs' : Pinned(d)
    BY DEF CrashJournals
  <2>2. QED
    BY <2>1, NothingPublished
<1>7. HandleFollowsHistory'
  <2> SUFFICES ASSUME open'
               PROVE  HandleFollowsHistory'
    BY DEF HandleFollowsHistory
  <2>1. /\ dirAlt' = {} /\ revisions' = journal'.recs /\ dir' \in CrashDirs'
        /\ snapshot' = dir'.snapshot /\ retention' = dir'.retention
        /\ offset' = Len(journal'.recs)
    BY DEF TypeInv, OffsetAtEnd, CrashDirs
  <2>2. /\ Recovered(journal', dir') = index
        /\ RecoveredRevision(journal', dir') = current
    <3>1. CASE Pinned(dir')
      <4>1. journal' \in Journals /\ NewestLast(journal') /\ LastRev(journal'.recs) <= Len(hist)
        <5>1. journal' \in Journals
          BY DEF TypeInv, TypeOK
        <5>2. CASE journal' = journal
          BY <1>2, <5>1, <5>2 DEF Inv, JournalsBounded, CrashJournals
        <5>3. CASE journal' = [recs |-> <<>>, torn |-> FALSE]
          BY <1>1, <1>4, <5>1, <5>3
        <5>4. QED
          BY <5>2, <5>3
      <4>2. QED
        BY <1>1, <3>1, <4>1, PinnedIsTruthful
    <3>2. CASE ~Pinned(dir')
      <4>1. SameSnapshot(dir', dir) /\ journal' = journal
        BY <1>1, <2>1, <3>2
      <4>2. QED
        BY <1>1, <4>1, RecoveryReads DEF SameSnapshot
    <3>3. QED
      BY <3>1, <3>2
  <2>3. QED
    BY <1>1, <2>1, <2>2 DEF HandleFollowsHistory, HandleShowsDisk
<1>8. QED
  BY <1>3, <1>5, <1>6, <1>7 DEF Inv

LEMMA SnapshotStep ==
  ASSUME Inv, TakeSnapshot \/ SnapshotUncertain
  PROVE  Inv'
<1>1. TypeInv'
  BY TypeStep DEF Inv, Next
<1>2. open /\ UNCHANGED <<index, current, hist, doubt, journal, journalAlt>>
  BY DEF TakeSnapshot, SnapshotUncertain, observers
<1>3. /\ Pinned(SnapshotManifest)
      /\ Pinned(SnapshotWritten) \/ SameSnapshot(SnapshotWritten, dir)
      /\ DirBounded(SnapshotManifest) /\ DirBounded(SnapshotWritten)
      /\ SnapshotManifest.snapshot = current
      /\ SnapshotManifest.retention = retention
  BY <1>2, SnapshotsPinned
<1>4. CrashDirs = {dir} /\ DirBounded(dir) /\ dirAlt = {}
  BY <1>2, OpenShowsHistory DEF Inv, DirsBounded
<1>5. CASE TakeSnapshot
  <2>1. /\ CrashDirs' = {SnapshotManifest} /\ dir' = SnapshotManifest
        /\ dirAlt' = {} /\ snapshot' = current /\ retention' = retention
        /\ revisions' = revisions
    BY <1>5 DEF TakeSnapshot, Replaces, CrashDirs
  <2>2. revisions = journal.recs
    BY <1>2 DEF Inv, HandleFollowsHistory, HandleShowsDisk
  <2>3. QED
    BY <1>1, <1>2, <1>3, <2>1, <2>2, MaintenanceStep
<1>6. CASE SnapshotUncertain
  <2>1. /\ CrashDirs' \subseteq {SnapshotManifest, SnapshotWritten, dir}
        /\ open' = FALSE
    BY <1>4, <1>6 DEF SnapshotUncertain, Fails, Replaces, ReplacesUnsynced, CrashDirs
  <2>2. \A d \in CrashDirs' :
            DirBounded(d) /\ (Pinned(d) \/ \E dd \in CrashDirs : SameSnapshot(d, dd))
    BY <1>3, <1>4, <2>1 DEF SameSnapshot
  <2>3. QED
    BY <1>1, <1>2, <2>1, <2>2, MaintenanceStep
<1>7. QED
  BY <1>5, <1>6

LEMMA CompactStep ==
  ASSUME Inv, NEW n \in Retentions,
         Compact(n) \/ CompactNotPublished(n) \/ CompactUncertain(n)
  PROVE  Inv'
<1>1. TypeInv'
  BY TypeStep DEF Inv, Next
<1>2. open /\ UNCHANGED <<index, current, hist, doubt>>
  BY DEF Compact, CompactNotPublished, CompactUncertain, observers
<1>3. /\ Pinned(SnapshotManifest) /\ DirBounded(SnapshotManifest)
      /\ n = 0 => Pinned(CompactManifest(n))
      /\ n # 0 => SameSnapshot(CompactManifest(n), dir)
      /\ DirBounded(CompactManifest(n))
      /\ SnapshotManifest.snapshot = current
      /\ SnapshotManifest.retention = retention
      /\ CompactManifest(n).snapshot = SnapshotAfter(n)
      /\ CompactManifest(n).retention = Boundary(n)
  BY <1>2, SnapshotsPinned
<1>4. /\ CrashDirs = {dir} /\ DirBounded(dir) /\ dirAlt = {}
      /\ revisions = journal.recs /\ snapshot = dir.snapshot
      /\ retention = dir.retention
  BY <1>2, OpenShowsHistory
  DEF Inv, DirsBounded, HandleFollowsHistory, HandleShowsDisk
<1>5. CASE Compact(n)
  <2>1. /\ CrashDirs' = {CompactManifest(n)} /\ dir' = CompactManifest(n)
        /\ dirAlt' = {} /\ snapshot' = SnapshotAfter(n) /\ retention' = Boundary(n)
    BY <1>5 DEF Compact, Replaces, CrashDirs
  <2>2. CASE n = 0
    <3>1. /\ journal' = [recs |-> <<>>, torn |-> FALSE] /\ journalAlt' = {}
          /\ revisions' = journal'.recs
      BY <1>5, <2>2 DEF Compact
    <3>2. QED
      BY <1>1, <1>2, <1>3, <2>1, <2>2, <3>1, MaintenanceStep
  <2>3. CASE n # 0
    <3>1. UNCHANGED <<journal, journalAlt, revisions>>
      BY <1>5, <2>3 DEF Compact
    <3>2. QED
      BY <1>1, <1>2, <1>3, <1>4, <2>1, <2>3, <3>1, MaintenanceStep
  <2>4. QED
    BY <2>2, <2>3
<1>6. CASE CompactNotPublished(n)
  <2>1. /\ UNCHANGED <<journal, journalAlt, revisions, retention>>
        /\ snapshot' = SnapshotAfter(n) /\ dirAlt' = {}
        /\ dir' = IF n = 0 THEN SnapshotManifest ELSE dir
    BY <1>4, <1>6 DEF CompactNotPublished, Replaces, NotReplaced
  <2>2. /\ CrashDirs' = {dir'} /\ snapshot' = dir'.snapshot
        /\ retention' = dir'.retention /\ DirBounded(dir')
        /\ Pinned(dir') \/ SameSnapshot(dir', dir)
    BY <1>3, <1>4, <2>1 DEF CrashDirs, SnapshotAfter, SameSnapshot
  <2>3. QED
    BY <1>1, <1>2, <1>4, <2>1, <2>2, MaintenanceStep
<1>7. CASE CompactUncertain(n)
  <2>1. open' = FALSE
    BY <1>7 DEF CompactUncertain, Fails
  <2>2. CASE dir' = CompactManifest(n) /\ UNCHANGED <<journal, journalAlt>>
    <3>1. CrashDirs' \subseteq {CompactManifest(n), SnapshotManifest, dir}
      BY <1>4, <1>7, <2>2 DEF CompactUncertain, Replaces, CrashDirs
    <3>2. \A d \in CrashDirs' :
              DirBounded(d) /\ (Pinned(d) \/ \E dd \in CrashDirs : SameSnapshot(d, dd))
      BY <1>3, <1>4, <3>1 DEF SameSnapshot
    <3>3. QED
      BY <1>1, <1>2, <2>1, <2>2, <3>2, MaintenanceStep
  <2>3. CASE /\ n = 0 /\ Replaces(CompactManifest(n))
             /\ \/ UNCHANGED <<journal, journalAlt>>
                \/ /\ journal' = [recs |-> <<>>, torn |-> FALSE]
                   /\ journalAlt' = journalAlt \cup {journal}
    <3>1. CrashDirs' = {CompactManifest(n)}
      BY <2>3 DEF Replaces, CrashDirs
    <3>2. QED
      BY <1>1, <1>2, <1>3, <2>1, <2>3, <3>1, MaintenanceStep
  <2>4. QED
    BY <1>7, <2>2, <2>3 DEF CompactUncertain
<1>8. QED
  BY <1>5, <1>6, <1>7

LEMMA InvStep ==
  ASSUME Inv, [Next]_vars
  PROVE  Inv'
<1>1. CASE Open
  BY <1>1, OpenStep
<1>2. CASE OpenUnsynced
  BY <1>2, OpenUnsyncedStep
<1>3. CASE PowerLoss
  BY <1>3, PowerLossStep
<1>4. CASE Close \/ DiscardStaged \/ SnapshotNotWritten
  BY <1>4, QuietStep DEF Close, DiscardStaged, SnapshotNotWritten, Fails
<1>5. ASSUME NEW k \in Keys, NEW v \in Values \cup {Absent}, Stage(k, v)
      PROVE  Inv'
  BY <1>5, QuietStep DEF Stage
<1>6. CASE CommitRolledBack \/ CommitTorn
  BY <1>6, FailedCommitStep
<1>7. CASE CommitUnsynced \/ CommitUnpublished
  BY <1>7, UncertainCommitStep
<1>8. CASE Commit
  BY <1>8, CommitStep
<1>9. CASE TakeSnapshot \/ SnapshotUncertain
  BY <1>9, SnapshotStep
<1>10. ASSUME NEW n \in Retentions,
              Compact(n) \/ CompactNotPublished(n) \/ CompactUncertain(n)
       PROVE  Inv'
  BY <1>10, CompactStep
<1>11. CASE UNCHANGED vars
  BY <1>11, QuietStep DEF vars, handle
<1>12. QED
  BY <1>1, <1>2, <1>3, <1>4, <1>5, <1>6, <1>7, <1>8, <1>9, <1>10, <1>11 DEF Next

LEMMA InvInit == Init => Inv
<1> SUFFICES ASSUME Init PROVE Inv
  OBVIOUS
<1>1. TypeInv
  BY TypeInit
<1>2. /\ open = FALSE /\ hist = <<>> /\ Len(hist) = 0 /\ journal.recs = <<>>
      /\ CrashJournals = {journal} /\ CrashDirs = {dir} /\ journalAlt = {}
      /\ dir.snapshot = 0 /\ dir.current = 0
  BY DEF Init, CrashJournals, CrashDirs
<1>3. LastRev(journal.recs) = 0 /\ NewestLast(journal) /\ SnapshotOf(dir) = Nothing
  BY <1>2 DEF LastRev, NewestLast, SnapshotOf
<1>4. journal \in Journals /\ Nothing \in Contents
  BY <1>1, NothingIsContents DEF TypeInv, TypeOK
<1>5. Recovered(journal, dir) = Nothing /\ RecoveredRevision(journal, dir) = 0
  BY <1>2, <1>3, <1>4, RecoveredFromSnapshot DEF NewestLast
<1>6. DiskTruthful
  BY <1>2, <1>5 DEF DiskTruthful, Truthful, ContentsAt
<1>7. HandleFollowsHistory /\ JournalsBounded /\ DirsBounded
  BY <1>2, <1>3 DEF HandleFollowsHistory, JournalsBounded, DirsBounded, DirBounded
<1>8. QED
  BY <1>1, <1>6, <1>7 DEF Inv

LEMMA Invariant == Spec => []Inv
BY InvInit, InvStep, PTL DEF Spec

-----------------------------------------------------------------------------
(* While a handle is open, a process that dies and a fresh store_open find *)
(* on disk exactly what the handle shows.                                  *)
THEOREM HandleAndDiskAgree == Spec => []HandleShowsDisk
<1>1. Inv => HandleShowsDisk
  BY DEF Inv, HandleFollowsHistory, HandleShowsDisk
<1>2. QED
  BY <1>1, Invariant, PTL

(* Whatever a crash or a power loss leaves, if store_open accepts it then  *)
(* it holds the last revision a caller was told of, or that one and the    *)
(* single commit that was reported uncertain: no acknowledged revision is  *)
(* ever dropped or altered silently.                                       *)
THEOREM RecoveryIsDurable == Spec => []Durability
<1>1. ASSUME Inv PROVE Durability
  <2> SUFFICES ASSUME NEW j \in CrashJournals, NEW d \in CrashDirs, Opens(j, d)
               PROVE  Truthful(j, d) /\ RecoveredRevision(j, d) >= Len(hist)
    BY DEF Durability, Truthful
  <2>1. Truthful(j, d) /\ DirBounded(d)
    BY <1>1 DEF Inv, DiskTruthful, DirsBounded
  <2>2. /\ Len(hist) \in Nat /\ d.current \in Nat
        /\ RecoveredRevision(j, d) \in Nat
    BY <1>1, <2>1, CrashTypes, RecoveredType DEF Inv, TypeInv, DirBounded
  <2>3. QED
    BY <2>1, <2>2 DEF Opens, DirBounded
<1>2. QED
  BY <1>1, Invariant, PTL

(* The store implements RevisionedStore: versions are only ever appended,  *)
(* one at a time and through an open handle or the open that settles a     *)
(* doubt; a handle always shows the last one.                              *)
THEOREM Refinement == Spec => RefinesRevisionedStore
<1>1. Init => Abstract!AbsInit
  BY DEF Init, Abstract!AbsInit
<1>2. ASSUME Inv, Inv', [Next]_vars
      PROVE  [Abstract!AbsNext]_Abstract!absVars
  <2>1. /\ index \in Contents /\ index' \in Contents
        /\ hist \in Seq(Contents) /\ Len(hist) \in Nat
    BY <1>2 DEF Inv, TypeInv, TypeOK
  <2>2. CASE Open
    <3>1. /\ ~open /\ open' = TRUE /\ doubt' = {}
          /\ index' = Recovered(journal, dir)
          /\ hist' = IF RecoveredRevision(journal, dir) > Len(hist)
                       THEN Append(hist, index') ELSE hist
      BY <2>2 DEF Open
    <3>2. Opens(journal, dir) /\ Truthful(journal, dir) /\ DirBounded(dir)
      BY <1>2, <2>2
      DEF Open, Inv, DiskTruthful, DirsBounded, CrashJournals, CrashDirs
    <3>3. RecoveredRevision(journal, dir) \in Nat /\ dir.current \in Nat
      BY <1>2, <3>2, OpenTypes, CrashTypes DEF Inv, TypeInv, CrashDirs
    <3>4. RecoveredRevision(journal, dir) >= Len(hist)
      BY <2>1, <3>2, <3>3 DEF Opens, DirBounded
    <3>5. CASE RecoveredRevision(journal, dir) = Len(hist)
      <4>1. hist' = hist /\ index' = ContentsAt(Len(hist))
        BY <2>1, <3>1, <3>2, <3>5 DEF Truthful
      <4>2. index' = Abstract!Latest(hist')
        BY <2>1, <4>1 DEF ContentsAt, Abstract!Latest
      <4>3. QED
        BY <3>1, <4>1, <4>2 DEF Abstract!AbsNext, Abstract!Attach
    <3>6. CASE RecoveredRevision(journal, dir) = Len(hist) + 1
      <4>1. hist' = Append(hist, index') /\ doubt = {index'}
        BY <2>1, <3>1, <3>2, <3>6 DEF Truthful
      <4>2. hist' # <<>> /\ hist'[Len(hist')] = index'
        BY <2>1, <4>1
      <4>3. index' = Abstract!Latest(hist')
        BY <4>2 DEF Abstract!Latest
      <4>4. QED
        BY <3>1, <4>1, <4>3 DEF Abstract!AbsNext, Abstract!Attach
    <3>7. QED
      BY <3>2, <3>4, <3>5, <3>6 DEF Truthful
  <2>3. CASE Commit
    <3>1. /\ open /\ open' = TRUE /\ hist' = Append(hist, Committed)
          /\ index' = Committed /\ doubt' = doubt /\ Committed \in Contents
      BY <1>2, <2>3, CommitTypes
      DEF Commit, CommitSynced, CanCommit, Inv, TypeInv
    <3>2. QED
      BY <3>1 DEF Abstract!AbsNext, Abstract!Publish, Abstract!PublishVersion
  <2>4. CASE CommitUnsynced \/ CommitUnpublished
    <3>1. /\ open /\ open' = FALSE /\ hist' = hist
          /\ doubt' = {Committed} /\ Committed \in Contents
      BY <1>2, <2>4, CommitTypes
      DEF CommitUnsynced, CommitUnpublished, CommitSynced, CanCommit, Fails,
          Inv, TypeInv
    <3>2. QED
      BY <2>1, <3>1 DEF Abstract!AbsNext, Abstract!Detach, Abstract!DetachInDoubt
  <2>5. ASSUME UNCHANGED <<hist, index, doubt>>, open' \in {open, FALSE}
        PROVE  [Abstract!AbsNext]_Abstract!absVars
    <3>1. CASE open' = open
      BY <2>5, <3>1 DEF Abstract!absVars
    <3>2. CASE open /\ open' = FALSE
      <4>1. doubt = {}
        BY <1>2, <3>2, OpenShowsHistory
      <4>2. QED
        BY <2>1, <2>5, <3>2, <4>1 DEF Abstract!AbsNext, Abstract!Detach, Abstract!DetachInDoubt
    <3>3. QED
      BY <1>2, <2>5, <3>1, <3>2 DEF Inv, TypeInv, TypeOK
  <2>6. CASE OpenUnsynced \/ Close \/ PowerLoss \/ DiscardStaged
    BY <2>5, <2>6
    DEF OpenUnsynced, Close, PowerLoss, DiscardStaged, handle, observers
  <2>7. ASSUME NEW k \in Keys, NEW v \in Values \cup {Absent}, Stage(k, v)
        PROVE  [Abstract!AbsNext]_Abstract!absVars
    BY <2>5, <2>7 DEF Stage, observers
  <2>8. CASE CommitRolledBack \/ CommitTorn
    BY <2>5, <2>8 DEF CommitRolledBack, CommitTorn, Fails, observers
  <2>9. CASE TakeSnapshot \/ SnapshotNotWritten \/ SnapshotUncertain
    BY <2>5, <2>9
    DEF TakeSnapshot, SnapshotNotWritten, SnapshotUncertain, Fails, observers
  <2>10. ASSUME NEW n \in Retentions,
                Compact(n) \/ CompactNotPublished(n) \/ CompactUncertain(n)
         PROVE  [Abstract!AbsNext]_Abstract!absVars
    BY <2>5, <2>10
    DEF Compact, CompactNotPublished, CompactUncertain, Fails, observers
  <2>11. CASE UNCHANGED vars
    BY <2>5, <2>11 DEF vars, handle, observers
  <2>12. QED
    BY <1>2, <2>2, <2>3, <2>4, <2>6, <2>7, <2>8, <2>9, <2>10, <2>11 DEF Next
<1>3. QED
  BY <1>1, <1>2, Invariant, PTL DEF RefinesRevisionedStore, Abstract!AbsSpec, Spec

-----------------------------------------------------------------------------
(* What is refused, and what a historical read answers, needs more: how    *)
(* far a journal reaches that a crash may leave, what each record did, and *)
(* where the retention boundary lies.                                      *)

(* A journal with records holds all that a journal sync ever covered; what *)
(* one without records does not hold is in every snapshot.                 *)
SyncedKept ==
    \A j \in CrashJournals, d \in CrashDirs :
        synced <= IF j.recs = <<>> THEN d.snapshot ELSE LastRev(j.recs)

(* A record takes the version before it to the one it names, which may be  *)
(* the one in doubt.                                                       *)
Version(h, r) == IF r = 0 THEN Nothing ELSE h[r]
TrueRecord(rec, h, unsure) ==
    /\ rec.rev = rec.prev + 1
    /\ rec.rev <= Len(h) =>
          Version(h, rec.rev) = Overlay(Version(h, rec.prev), rec.batch)
    /\ rec.rev = Len(h) + 1 =>
          unsure = {Overlay(Version(h, rec.prev), rec.batch)}
RecordsTrue ==
    \A j \in CrashJournals : \A i \in DOMAIN j.recs :
        TrueRecord(j.recs[i], hist, doubt)

(* The retention boundary of a manifest is not past its own revision, and  *)
(* an open handle's manifest is the one in place.                          *)
BoundariesPublished ==
    /\ \A d \in CrashDirs : d.retention <= d.current
    /\ open => dir.current = current

(* Nothing that an open handle shows is short of a journal sync. *)
LEMMA SyncedIsShown ==
  ASSUME Inv, SyncedKept, open
  PROVE  synced <= current /\ synced \in Nat /\ current \in Nat
<1>1. /\ RecoveredRevision(journal, dir) = current /\ current \in Nat
  BY OpenShowsHistory
<1>2. synced \in Nat /\ dir.snapshot \in Nat /\ LastRev(journal.recs) \in Nat
  BY CrashTypes DEF Inv, TypeInv, TypeOK, CrashJournals, CrashDirs
<1>3. synced <= IF journal.recs = <<>> THEN dir.snapshot ELSE LastRev(journal.recs)
  BY DEF SyncedKept, CrashJournals, CrashDirs
<1>4. QED
  BY <1>1, <1>2, <1>3 DEF RecoveredRevision

(* The snapshots of a step are those there were, or of the handle's        *)
(* current revision.                                                       *)
LEMMA NextSnapshots ==
  ASSUME Inv, Next
  PROVE  \A d \in CrashDirs' : \/ \E dd \in CrashDirs : d.snapshot = dd.snapshot
                               \/ open /\ d.snapshot = current
<1> DEFINE Old(d) == \E dd \in CrashDirs : d.snapshot = dd.snapshot
           Good == \A d \in CrashDirs' : Old(d) \/ (open /\ d.snapshot = current)
<1>1. dir \in CrashDirs /\ dirAlt \subseteq CrashDirs
  BY DEF CrashDirs
<1>2. OpenManifest.snapshot = dir.snapshot
  BY DEF OpenManifest, ManifestOf
<1>3. open => CommitManifest.snapshot = dir.snapshot
  BY DEF CommitManifest, ManifestOf, Inv, HandleFollowsHistory, HandleShowsDisk
<1>4. open => /\ SnapshotManifest.snapshot = current
              /\ SnapshotWritten.snapshot = dir.snapshot
              /\ snapshot = dir.snapshot
  BY OpenShowsHistory DEF SnapshotManifest, ManifestOf, SnapshotWritten, WithSnapshot
<1>5. CASE Open \/ OpenUnsynced
  BY <1>1, <1>2, <1>5 DEF Open, OpenUnsynced, Replaces, ReplacesUnsynced, CrashDirs
<1>6. CASE Commit \/ CommitUnpublished
  BY <1>1, <1>3, <1>6 DEF Commit, CommitUnpublished, CommitSynced, CanCommit,
     Replaces, ReplacesUnsynced, NotReplaced, CrashDirs
<1>7. CASE TakeSnapshot \/ SnapshotUncertain
  BY <1>1, <1>4, <1>7 DEF TakeSnapshot, SnapshotUncertain, Replaces,
     ReplacesUnsynced, CrashDirs
<1>8. ASSUME NEW n \in Retentions,
             Compact(n) \/ CompactNotPublished(n) \/ CompactUncertain(n)
      PROVE  Good
  <2>1. open /\ CompactManifest(n).snapshot \in {current, dir.snapshot}
    BY <1>4, <1>8 DEF Compact, CompactNotPublished, CompactUncertain,
       CompactManifest, ManifestOf, SnapshotAfter
  <2>2. CrashDirs' \subseteq {CompactManifest(n), SnapshotManifest} \cup CrashDirs
    BY <1>8 DEF Compact, CompactNotPublished, CompactUncertain, Replaces,
       NotReplaced, CrashDirs
  <2>3. QED
    BY <1>4, <2>1, <2>2, <1>1
<1>9. CASE PowerLoss
  BY <1>9 DEF PowerLoss, CrashDirs
<1>10. CASE UNCHANGED <<dir, dirAlt>>
  BY <1>10 DEF CrashDirs
<1>11. ASSUME NEW k \in Keys, NEW v \in Values \cup {Absent}, Stage(k, v)
       PROVE  UNCHANGED <<dir, dirAlt>>
  BY <1>11 DEF Stage, files
<1>12. CASE \/ Close \/ DiscardStaged \/ SnapshotNotWritten
            \/ CommitRolledBack \/ CommitTorn \/ CommitUnsynced
  BY <1>10, <1>12 DEF Close, DiscardStaged, SnapshotNotWritten, CommitRolledBack,
     CommitTorn, CommitUnsynced, files
<1>13. QED
  BY <1>5, <1>6, <1>7, <1>8, <1>9, <1>10, <1>11, <1>12 DEF Next

(* The journal of a commit that completed its record reaches one further. *)
LEMMA ReachesOn ==
  ASSUME Inv, CanCommit
  PROVE  LET recs == Append(Kept, NewRecord)
         IN  LastRev(recs) = current + 1 /\ recs # <<>>
<1>1. /\ LastRev(Append(Kept, NewRecord)) = Len(hist) + 1 /\ Len(hist) \in Nat
      /\ current = Len(hist)
  BY AppendedJournal, OpenShowsHistory, CrashTypes DEF Inv, TypeInv, CanCommit
<1>2. LastRev(<<>>) = 0
  BY DEF LastRev
<1>3. QED
  BY <1>1, <1>2

LEMMA StepKeepsSynced ==
  ASSUME Inv, SyncedKept, Next
  PROVE  SyncedKept'
<1>1. open => Kept = journal.recs /\ synced <= current /\ synced \in Nat /\ current \in Nat
  BY OpenShowsHistory, SyncedIsShown
(* The journals are those there were, and their syncs too. *)
<1>2. ASSUME synced' = synced,
             \A j \in CrashJournals' : \E jj \in CrashJournals : j.recs = jj.recs
      PROVE  SyncedKept'
  <2> SUFFICES ASSUME NEW j \in CrashJournals', NEW d \in CrashDirs'
               PROVE  synced <= IF j.recs = <<>> THEN d.snapshot ELSE LastRev(j.recs)
    BY <1>2 DEF SyncedKept
  <2>1. PICK jj \in CrashJournals : j.recs = jj.recs
    BY <1>2
  <2>2. CASE \E dd \in CrashDirs : d.snapshot = dd.snapshot
    BY <2>1, <2>2 DEF SyncedKept
  <2>3. CASE open /\ d.snapshot = current
    BY <1>1, <2>1, <2>3 DEF SyncedKept, CrashDirs
  <2>4. QED
    BY <2>2, <2>3, NextSnapshots
(* Or there is one journal, which reaches as far as its sync. *)
<1>3. CASE Commit \/ CommitUnpublished
  <2>1. /\ CanCommit /\ synced' = current + 1 /\ journalAlt' = {}
        /\ journal' = [recs |-> Append(Kept, NewRecord), torn |-> FALSE]
    BY <1>3 DEF Commit, CommitUnpublished, CommitSynced
  <2>2. /\ open /\ LastRev(journal'.recs) = current + 1
        /\ journal'.recs # <<>> /\ CrashJournals' = {journal'}
    BY <1>1, <2>1, ReachesOn DEF CanCommit, CrashJournals
  <2>3. synced' <= LastRev(journal'.recs)
    BY <1>1, <2>1, <2>2
  <2>4. QED
    BY <2>2, <2>3 DEF SyncedKept
<1>4. CASE CommitRolledBack
  <2>1. /\ open /\ CrashJournals' = {journal'} /\ journal'.recs = journal.recs
        /\ synced' = IF LastRev(journal.recs) > synced THEN LastRev(journal.recs) ELSE synced
        /\ CrashDirs' = CrashDirs
    BY <1>1, <1>4 DEF CommitRolledBack, CanCommit, CrashJournals, CrashDirs
  <2>2. CASE journal.recs = <<>>
    <3>1. LastRev(journal.recs) = 0 /\ synced' = synced
      BY <1>1, <2>1, <2>2 DEF LastRev
    <3>2. QED
      BY <2>1, <2>2, <3>1 DEF SyncedKept, CrashJournals
  <2>3. CASE journal.recs # <<>>
    <3>1. synced <= LastRev(journal.recs) /\ LastRev(journal.recs) \in Nat
      BY <2>3, CrashTypes DEF SyncedKept, CrashJournals, CrashDirs, Inv, TypeInv
    <3>2. synced' = LastRev(journal.recs)
      BY <1>1, <2>1, <3>1
    <3>3. QED
      BY <2>1, <2>3, <3>1, <3>2 DEF SyncedKept
  <2>4. QED
    BY <2>2, <2>3
<1>5. CASE CommitUnsynced
  <2>1. /\ CanCommit /\ synced' = synced /\ CrashDirs' = CrashDirs
        /\ journal' = [recs |-> Append(Kept, NewRecord), torn |-> FALSE]
        /\ \A j \in journalAlt' : \E jj \in CrashJournals : j.recs = jj.recs
    BY <1>1, <1>5 DEF CommitUnsynced, CanCommit, CrashJournals, CrashDirs
  <2>2. open /\ LastRev(journal'.recs) = current + 1 /\ journal'.recs # <<>>
    BY <2>1, ReachesOn DEF CanCommit
  <2>3. \A j \in CrashJournals : j.recs # <<>> => synced <= LastRev(j.recs)
    BY DEF SyncedKept, CrashDirs
  <2>4. \A j \in CrashJournals' : j = journal' \/ \E jj \in CrashJournals : j.recs = jj.recs
    BY <2>1 DEF CrashJournals
  <2> SUFFICES ASSUME NEW j \in CrashJournals', NEW d \in CrashDirs
               PROVE  synced <= IF j.recs = <<>> THEN d.snapshot ELSE LastRev(j.recs)
    BY <2>1 DEF SyncedKept
  <2>5. CASE j = journal'
    BY <1>1, <2>2, <2>5
  <2>6. CASE \E jj \in CrashJournals : j.recs = jj.recs
    BY <2>6 DEF SyncedKept
  <2>7. QED
    BY <2>4, <2>5, <2>6
<1>6. CASE CommitTorn
  BY <1>1, <1>2, <1>6 DEF CommitTorn, CanCommit, CrashJournals, observers
<1>7. CASE PowerLoss
  BY <1>2, <1>7 DEF PowerLoss, CrashJournals, observers
<1>8. CASE UNCHANGED <<journal, journalAlt, synced>>
  BY <1>2, <1>8 DEF CrashJournals
<1>9. CASE \/ Open \/ OpenUnsynced \/ Close \/ DiscardStaged
           \/ TakeSnapshot \/ SnapshotNotWritten \/ SnapshotUncertain
  BY <1>8, <1>9 DEF Open, OpenUnsynced, Close, DiscardStaged, TakeSnapshot,
     SnapshotNotWritten, SnapshotUncertain, files, observers
<1>10. ASSUME NEW k \in Keys, NEW v \in Values \cup {Absent}, Stage(k, v)
       PROVE  SyncedKept'
  BY <1>8, <1>10 DEF Stage, files, observers
<1>11. ASSUME NEW n \in Retentions,
              Compact(n) \/ CompactNotPublished(n) \/ CompactUncertain(n)
       PROVE  SyncedKept'
  (* The journal is emptied when the only manifest names a snapshot of all *)
  (* that the handle shows.                                                *)
  <2>1. CASE /\ open /\ n = 0 /\ journal'.recs = <<>>
             /\ CrashDirs' = {CompactManifest(n)} /\ synced' \in {synced, current}
             /\ \A j \in journalAlt' : j \in CrashJournals /\ synced' = synced
    <3>1. CompactManifest(n).snapshot = current
      BY <2>1 DEF CompactManifest, ManifestOf, SnapshotAfter
    <3>2. \A j \in CrashJournals' : j.recs = <<>> \/ (j \in CrashJournals /\ synced' = synced)
      BY <2>1 DEF CrashJournals
    <3>3. \A j \in CrashJournals : j.recs # <<>> => synced <= LastRev(j.recs)
      BY DEF SyncedKept, CrashDirs
    <3>4. synced' <= current
      BY <1>1, <2>1
    <3>5. QED
      BY <2>1, <3>1, <3>2, <3>3, <3>4 DEF SyncedKept
  <2>2. CASE Compact(n)
    BY <1>8, <2>1, <2>2 DEF Compact, Replaces, CrashDirs
  <2>3. CASE CompactNotPublished(n)
    BY <1>8, <2>3 DEF CompactNotPublished, observers
  <2>4. CASE CompactUncertain(n)
    BY <1>8, <2>1, <2>4 DEF CompactUncertain, Replaces, CrashDirs, CrashJournals, observers
  <2>5. QED
    BY <1>11, <2>2, <2>3, <2>4
<1>12. QED
  BY <1>3, <1>4, <1>5, <1>6, <1>7, <1>9, <1>10, <1>11 DEF Next

(* The records of a step are those there were and those of a commit. *)
LEMMA NextRecords ==
  ASSUME Inv, Next
  PROVE  \A j \in CrashJournals' : \A i \in DOMAIN j.recs :
            \/ \E jj \in CrashJournals : \E ii \in DOMAIN jj.recs : j.recs[i] = jj.recs[ii]
            \/ /\ CommitUnsynced \/ CommitUnpublished \/ Commit
               /\ j.recs[i] = NewRecord
<1> DEFINE Old(j) == \E jj \in CrashJournals : j.recs = jj.recs
           Good == \A j \in CrashJournals' : Old(j) \/ j.recs = <<>>
<1>1. open => Kept = journal.recs
  BY OpenShowsHistory
<1>2. CASE CommitUnsynced \/ CommitUnpublished \/ Commit
  <2>1. /\ open /\ journal'.recs = Append(Kept, NewRecord)
        /\ journalAlt' \subseteq journalAlt \cup {journal}
                                   \cup {[recs |-> Kept, torn |-> t] : t \in BOOLEAN}
    BY <1>2 DEF CommitUnsynced, CommitUnpublished, Commit, CommitSynced, CanCommit
  <2>2. \A j \in journalAlt' : Old(j)
    BY <1>1, <2>1 DEF CrashJournals
  <2>3. journal.recs \in Seq(Record) /\ Kept = journal.recs /\ NewRecord \in Record
    BY <1>1, <2>1, CommitTypes DEF Inv, TypeInv, TypeOK, Journals, Revisions
  <2>4. \A i \in DOMAIN journal'.recs :
            (i \in DOMAIN journal.recs /\ journal'.recs[i] = journal.recs[i])
              \/ journal'.recs[i] = NewRecord
    BY <2>1, <2>3
  <2>5. QED
    BY <1>2, <2>2, <2>4 DEF CrashJournals
<1>3. CASE Good
  BY <1>3
<1>4. CASE CommitRolledBack \/ CommitTorn
  <2>1. /\ open /\ journal'.recs = Kept
        /\ journalAlt' \subseteq journalAlt \cup {journal}
                                   \cup {[recs |-> Kept, torn |-> t] : t \in BOOLEAN}
    BY <1>4 DEF CommitRolledBack, CommitTorn, CanCommit
  <2>2. QED
    BY <1>1, <1>3, <2>1 DEF CrashJournals
<1>5. CASE PowerLoss
  BY <1>3, <1>5 DEF PowerLoss, CrashJournals
<1>6. ASSUME NEW n \in Retentions,
             Compact(n) \/ CompactNotPublished(n) \/ CompactUncertain(n)
      PROVE  Good
  BY <1>6 DEF Compact, CompactNotPublished, CompactUncertain, CrashJournals
<1>7. CASE UNCHANGED <<journal, journalAlt>>
  BY <1>3, <1>7 DEF CrashJournals
<1>8. ASSUME NEW k \in Keys, NEW v \in Values \cup {Absent}, Stage(k, v)
      PROVE  UNCHANGED <<journal, journalAlt>>
  BY <1>8 DEF Stage, files
<1>9. CASE \/ Open \/ OpenUnsynced \/ Close \/ DiscardStaged
           \/ TakeSnapshot \/ SnapshotNotWritten \/ SnapshotUncertain
  BY <1>7, <1>9 DEF Open, OpenUnsynced, Close, DiscardStaged, TakeSnapshot,
     SnapshotNotWritten, SnapshotUncertain, files
<1>10. QED
  BY <1>2, <1>3, <1>4, <1>5, <1>6, <1>7, <1>8, <1>9 DEF Next

(* What callers were told stays, but for one version more: a commit's, or  *)
(* the one in doubt that an open found.                                    *)
LEMMA NextHistory ==
  ASSUME Inv, Inv', Next
  PROVE  /\ \/ hist' = hist
            \/ /\ open' /\ \E c \in Contents :
                      hist' = Append(hist, c) /\ (open \/ doubt = {c})
         /\ open \/ open' \/ doubt' = doubt
<1>1. CASE Open
  <2>1. open' /\ index' = Recovered(journal, dir) /\ index' \in Contents
    BY <1>1 DEF Open, Inv, TypeInv, TypeOK
  <2>2. RecoveredRevision(journal, dir) \in Nat /\ Len(hist) \in Nat
    BY <1>1, OpenTypes, CrashTypes DEF Open, Inv, TypeInv
  <2>3. Truthful(journal, dir)
    BY DEF Inv, DiskTruthful, CrashJournals, CrashDirs
  <2>4. CASE RecoveredRevision(journal, dir) > Len(hist)
    BY <1>1, <2>1, <2>2, <2>3, <2>4 DEF Open, Truthful
  <2>5. CASE ~(RecoveredRevision(journal, dir) > Len(hist))
    BY <1>1, <2>1, <2>5 DEF Open
  <2>6. QED
    BY <2>4, <2>5
<1>2. CASE Commit
  <2>1. Committed \in Contents /\ open
    BY <1>2, CommitTypes DEF Inv, TypeInv, Commit, CommitSynced, CanCommit
  <2>2. QED
    BY <1>2, <2>1 DEF Commit
<1>3. CASE CommitUnsynced \/ CommitUnpublished
  BY <1>3 DEF CommitUnsynced, CommitUnpublished, CommitSynced, CanCommit
<1>4. CASE \/ OpenUnsynced \/ Close \/ PowerLoss \/ DiscardStaged
           \/ CommitRolledBack \/ CommitTorn
           \/ TakeSnapshot \/ SnapshotNotWritten \/ SnapshotUncertain
  BY <1>4 DEF OpenUnsynced, Close, PowerLoss, DiscardStaged, CommitRolledBack,
     CommitTorn, TakeSnapshot, SnapshotNotWritten, SnapshotUncertain, observers
<1>5. ASSUME NEW k \in Keys, NEW v \in Values \cup {Absent}, Stage(k, v)
      PROVE  hist' = hist /\ doubt' = doubt
  BY <1>5 DEF Stage, observers
<1>6. ASSUME NEW n \in Retentions,
             Compact(n) \/ CompactNotPublished(n) \/ CompactUncertain(n)
      PROVE  hist' = hist /\ doubt' = doubt
  BY <1>6 DEF Compact, CompactNotPublished, CompactUncertain, observers
<1>7. QED
  BY <1>1, <1>2, <1>3, <1>4, <1>5, <1>6 DEF Next

(* No record is further than one ahead of what callers were told, and none *)
(* is ahead of an open handle.                                             *)
LEMMA RecordsBounded ==
  ASSUME Inv
  PROVE  /\ Len(hist) \in Nat
         /\ \A j \in CrashJournals : \A i \in DOMAIN j.recs :
               /\ j.recs[i].rev \in Nat /\ j.recs[i].prev \in Nat
               /\ j.recs[i].rev <= Len(hist) + 1
               /\ open => j.recs[i].rev <= Len(hist)
<1>1. Len(hist) \in Nat
  BY CrashTypes DEF Inv, TypeInv
<1>2. ASSUME NEW j \in CrashJournals, NEW i \in DOMAIN j.recs
      PROVE  /\ j.recs[i].rev \in Nat /\ j.recs[i].prev \in Nat
             /\ j.recs[i].rev <= Len(hist) + 1
             /\ open => j.recs[i].rev <= Len(hist)
  <2>1. j \in Journals /\ LastRev(j.recs) \in Nat
    BY CrashTypes DEF Inv, TypeInv
  <2>2. j.recs[i].rev \in Nat /\ j.recs[i].prev \in Nat
    BY <2>1, RecordTypes DEF Journals
  <2>3. j.recs[i].rev <= LastRev(j.recs)
    BY DEF Inv, JournalsBounded, NewestLast
  <2>4. LastRev(j.recs) <= Len(hist) + 1 /\ (open => LastRev(j.recs) <= Len(hist))
    BY <1>1, <2>1 DEF Inv, JournalsBounded, CrashJournals
  <2>5. QED
    BY <1>1, <2>1, <2>2, <2>3, <2>4
<1>3. QED
  BY <1>1, <1>2

(* A history that grows by one version keeps the ones before it. *)
LEMMA Grown ==
  ASSUME NEW h \in Seq(Contents), NEW c \in Contents
  PROVE  /\ Len(h) \in Nat /\ Len(Append(h, c)) = Len(h) + 1
         /\ Version(Append(h, c), Len(h) + 1) = c
         /\ \A r \in 0 .. Len(h) : Version(Append(h, c), r) = Version(h, r)
<1>1. /\ Len(h) \in Nat /\ Len(Append(h, c)) = Len(h) + 1
      /\ Append(h, c)[Len(h) + 1] = c
      /\ \A r \in 1 .. Len(h) : Append(h, c)[r] = h[r]
  OBVIOUS
<1>2. Len(h) + 1 # 0 /\ \A r \in 0 .. Len(h) : r = 0 \/ r \in 1 .. Len(h)
  BY <1>1
<1>3. QED
  BY <1>1, <1>2 DEF Version

LEMMA StepKeepsRecordsTrue ==
  ASSUME Inv, Inv', RecordsTrue, Next
  PROVE  RecordsTrue'
<1> SUFFICES ASSUME NEW j \in CrashJournals', NEW i \in DOMAIN j.recs, NEW rec,
                    rec = j.recs[i]
             PROVE  TrueRecord(rec, hist', doubt')
  BY DEF RecordsTrue
<1>1. hist \in Seq(Contents) /\ Len(hist) \in Nat /\ Len(hist') \in Nat
  BY RecordsBounded DEF Inv, TypeInv, TypeOK
<1>2. open' => rec.rev <= Len(hist')
  <2>1. j.recs \in Revisions
    BY DEF Inv, TypeInv, TypeOK, CrashJournals, Journals
  <2>2. rec.rev \in Nat /\ LastRev(j.recs) \in Nat
    BY <2>1, RecordTypes, LastRevType
  <2>3. rec.rev <= LastRev(j.recs)
    BY DEF Inv, JournalsBounded, NewestLast
  <2>4. open' => LastRev(j.recs) <= Len(hist')
    BY DEF Inv, JournalsBounded, CrashJournals
  <2>5. QED
    BY <1>1, <2>2, <2>3, <2>4
<1>3. ASSUME NEW jj \in CrashJournals, NEW ii \in DOMAIN jj.recs, rec = jj.recs[ii]
      PROVE  TrueRecord(rec, hist', doubt')
  <2>1. /\ TrueRecord(rec, hist, doubt) /\ rec.rev \in Nat /\ rec.prev \in Nat
        /\ rec.rev <= Len(hist) + 1 /\ (open => rec.rev <= Len(hist))
    BY <1>3, RecordsBounded DEF RecordsTrue
  <2>2. CASE hist' = hist
    <3>1. rec.rev = Len(hist) + 1 => doubt' = doubt
      BY <1>1, <1>2, <2>1, <2>2, NextHistory
    <3>2. QED
      BY <2>1, <2>2, <3>1 DEF TrueRecord
  <2>3. ASSUME NEW c \in Contents, hist' = Append(hist, c), open \/ doubt = {c}
        PROVE  TrueRecord(rec, hist', doubt')
    <3>1. /\ Len(hist') = Len(hist) + 1 /\ Version(hist', Len(hist) + 1) = c
          /\ \A r \in 0 .. Len(hist) : Version(hist', r) = Version(hist, r)
      BY <1>1, <2>3, Grown
    <3>2. /\ rec.rev = rec.prev + 1 /\ rec.prev \in 0 .. Len(hist)
          /\ rec.rev # Len(hist') + 1
      BY <1>1, <2>1, <3>1 DEF TrueRecord
    <3>3. Version(hist', rec.prev) = Version(hist, rec.prev)
      BY <3>1, <3>2
    <3>4. Version(hist', rec.rev) = Overlay(Version(hist, rec.prev), rec.batch)
      <4>1. CASE rec.rev \in 0 .. Len(hist)
        <5>1. Version(hist', rec.rev) = Version(hist, rec.rev)
          BY <3>1, <4>1
        <5>2. rec.rev <= Len(hist)
          BY <4>1
        <5>3. QED
          BY <2>1, <5>1, <5>2 DEF TrueRecord
      <4>2. CASE rec.rev = Len(hist) + 1
        <5>1. ~open
          BY <1>1, <2>1, <4>2
        <5>2. {c} = {Overlay(Version(hist, rec.prev), rec.batch)}
          BY <2>1, <2>3, <4>2, <5>1 DEF TrueRecord
        <5>3. QED
          BY <3>1, <4>2, <5>2
      <4>3. QED
        BY <1>1, <2>1, <4>1, <4>2
    <3>5. QED
      BY <3>2, <3>3, <3>4 DEF TrueRecord
  <2>4. QED
    BY <2>2, <2>3, NextHistory
<1>4. CASE (CommitUnsynced \/ CommitUnpublished \/ Commit) /\ rec = NewRecord
  <2>1. /\ rec.rev = Len(hist) + 1 /\ rec.prev = Len(hist) /\ rec.batch = staged
        /\ Committed = Overlay(Version(hist, Len(hist)), staged)
        /\ Committed \in Contents
    BY <1>4, OpenShowsHistory, CommitTypes DEF CommitUnsynced, CommitUnpublished,
       Commit, CommitSynced, CanCommit, NewRecord, Committed, Inv, TypeInv,
       ContentsAt, Version
  <2>2. CASE Commit
    <3>1. hist' = Append(hist, Committed)
      BY <2>2 DEF Commit
    <3>2. /\ Len(hist') = Len(hist) + 1 /\ Version(hist', Len(hist) + 1) = Committed
          /\ Version(hist', Len(hist)) = Version(hist, Len(hist))
      BY <1>1, <2>1, <3>1, Grown
    <3>3. QED
      BY <1>1, <2>1, <3>2 DEF TrueRecord
  <2>3. CASE CommitUnsynced \/ CommitUnpublished
    <3>1. hist' = hist /\ doubt' = {Committed}
      BY <2>3 DEF CommitUnsynced, CommitUnpublished
    <3>2. QED
      BY <1>1, <2>1, <3>1 DEF TrueRecord
  <2>4. QED
    BY <1>4, <2>2, <2>3
<1>5. QED
  BY <1>3, <1>4, NextRecords

LEMMA StepKeepsBoundaries ==
  ASSUME Inv, BoundariesPublished, Next
  PROVE  BoundariesPublished'
<1>1. /\ \A d \in CrashDirs : d.retention \in Nat /\ d.current \in Nat
      /\ current \in Nat /\ retention \in Nat
  BY CrashTypes DEF Inv, TypeInv, TypeOK
<1>2. dir \in CrashDirs /\ \A d \in CrashDirs : d.retention <= d.current
  BY DEF CrashDirs, BoundariesPublished
<1>3. open => /\ dir.current = current /\ dir.retention = retention
              /\ retention <= current /\ snapshot = dir.snapshot
  BY <1>2 DEF BoundariesPublished, Inv, HandleFollowsHistory, HandleShowsDisk
<1>4. CASE Open \/ OpenUnsynced
  <2>1. /\ Opens(journal, dir)
        /\ OpenManifest.current = RecoveredRevision(journal, dir)
        /\ OpenManifest.retention = dir.retention
    BY <1>4 DEF Open, OpenUnsynced, OpenManifest, ManifestOf
  <2>2. RecoveredRevision(journal, dir) \in Nat
    BY <2>1, OpenTypes DEF Inv, TypeInv
  <2>3. OpenManifest.retention <= OpenManifest.current
    BY <1>1, <1>2, <2>1, <2>2 DEF Opens
  <2>4. QED
    BY <1>2, <1>4, <2>1, <2>3 DEF Open, OpenUnsynced, Replaces, ReplacesUnsynced,
       CrashDirs, BoundariesPublished, handle
<1>5. CASE Commit \/ CommitUnpublished
  <2>1. open
    BY <1>5 DEF Commit, CommitUnpublished, CommitSynced, CanCommit
  <2>2. CommitManifest.current = current + 1 /\ CommitManifest.retention = retention
    BY DEF CommitManifest, ManifestOf
  <2>3. CommitManifest.retention <= CommitManifest.current
    BY <1>1, <1>3, <2>1, <2>2
  <2>4. QED
    BY <1>2, <1>5, <2>2, <2>3 DEF Commit, CommitUnpublished, CommitSynced, Replaces,
       ReplacesUnsynced, NotReplaced, Fails, CrashDirs, BoundariesPublished
<1>6. /\ SnapshotManifest.current = current /\ SnapshotManifest.retention = retention
      /\ SnapshotWritten.current = dir.current
      /\ SnapshotWritten.retention = dir.retention
  BY DEF SnapshotManifest, ManifestOf, SnapshotWritten, WithSnapshot
<1>7. CASE TakeSnapshot \/ SnapshotUncertain
  <2>1. open
    BY <1>7 DEF TakeSnapshot, SnapshotUncertain
  <2>2. QED
    BY <1>2, <1>3, <1>6, <1>7, <2>1 DEF TakeSnapshot, SnapshotUncertain, Fails, Replaces,
       ReplacesUnsynced, CrashDirs, BoundariesPublished
<1>8. ASSUME NEW n \in Retentions,
             Compact(n) \/ CompactNotPublished(n) \/ CompactUncertain(n)
      PROVE  BoundariesPublished'
  <2>1. open
    BY <1>8 DEF Compact, CompactNotPublished, CompactUncertain
  <2>2. CompactManifest(n).current = current /\ CompactManifest(n).retention = Boundary(n)
    BY DEF CompactManifest, ManifestOf
  <2>3. Boundary(n) <= current
    BY <1>1, <1>3, <2>1, BoundsAreNatural DEF Boundary
  <2>4. QED
    BY <1>2, <1>3, <1>6, <1>8, <2>1, <2>2, <2>3 DEF Compact, CompactNotPublished,
       CompactUncertain, Fails, Replaces, NotReplaced, CrashDirs, BoundariesPublished
<1>9. CASE PowerLoss
  BY <1>2, <1>9 DEF PowerLoss, CrashDirs, BoundariesPublished
<1>10. CASE UNCHANGED <<dir, dirAlt, current>> /\ (open' => open)
  BY <1>10 DEF CrashDirs, BoundariesPublished
<1>11. ASSUME NEW k \in Keys, NEW v \in Values \cup {Absent}, Stage(k, v)
       PROVE  BoundariesPublished'
  BY <1>10, <1>11 DEF Stage, files
<1>12. CASE \/ Close \/ DiscardStaged \/ SnapshotNotWritten
            \/ CommitRolledBack \/ CommitTorn \/ CommitUnsynced
  BY <1>10, <1>12 DEF Close, DiscardStaged, SnapshotNotWritten, CommitRolledBack,
     CommitTorn, CommitUnsynced, CanCommit, Fails, files
<1>13. QED
  BY <1>4, <1>5, <1>7, <1>8, <1>9, <1>11, <1>12 DEF Next

FullInv == Inv /\ SyncedKept /\ RecordsTrue /\ BoundariesPublished

LEMMA FullInvariant == Spec => []FullInv
<1>1. Init => FullInv
  <2> SUFFICES ASSUME Init PROVE FullInv
    OBVIOUS
  <2>1. /\ CrashJournals = {journal} /\ CrashDirs = {dir} /\ journal.recs = <<>>
        /\ synced = 0 /\ ~open
        /\ dir.snapshot = 0 /\ dir.retention = 0 /\ dir.current = 0
    BY DEF Init, CrashJournals, CrashDirs
  <2>2. Inv
    BY InvInit
  <2>3. SyncedKept /\ RecordsTrue /\ BoundariesPublished
    BY <2>1 DEF SyncedKept, RecordsTrue, BoundariesPublished
  <2>4. QED
    BY <2>2, <2>3 DEF FullInv
<1>2. ASSUME FullInv, [Next]_vars PROVE FullInv'
  <2>1. Inv'
    BY <1>2, InvStep DEF FullInv
  <2>2. CASE Next
    BY <1>2, <2>1, <2>2, StepKeepsSynced, StepKeepsRecordsTrue, StepKeepsBoundaries
    DEF FullInv
  <2>3. CASE UNCHANGED vars
    BY <1>2, <2>1, <2>3 DEF FullInv, SyncedKept, RecordsTrue, BoundariesPublished,
       CrashJournals, CrashDirs, vars, handle, files, observers
  <2>4. QED
    BY <1>2, <2>2, <2>3
<1>3. QED
  BY <1>1, <1>2, PTL DEF Spec

-----------------------------------------------------------------------------
(* Whatever a crash or a power loss leaves, store_open refuses it only     *)
(* where a journal was compacted at one revision and snapshotted at a      *)
(* later one, or where a record that no sync covered was lost after an     *)
(* earlier open had adopted it.                                            *)
THEOREM RefusalsAreExplained == Spec => []RefusalsExplained
<1>1. ASSUME FullInv PROVE RefusalsExplained
  <2> SUFFICES ASSUME NEW j \in CrashJournals, NEW d \in CrashDirs,
                      ~Rebased(j.recs, d.snapshot),
                      ~(synced < d.current /\ LastRev(j.recs) < d.current),
                      ~Gapped(j.recs, LastRev(j.recs))
               PROVE  Opens(j, d)
    BY DEF RefusalsExplained
  <2> USE <1>1 DEF FullInv
  <2>1. /\ d.snapshot \in Nat /\ d.current \in Nat /\ d.retention \in Nat
        /\ LastRev(j.recs) \in Nat /\ synced \in Nat /\ Len(hist) \in Nat
        /\ j.recs \in Revisions
    BY CrashTypes DEF Inv, TypeInv, TypeOK, CrashJournals, Journals
  <2>2. /\ d.snapshot <= d.current /\ d.retention <= d.current
        /\ d.snapshot # 0 => d.snapshot \in DOMAIN d.snaps
    BY <2>1 DEF Inv, DirsBounded, DirBounded, BoundariesPublished
  (* Without the exceptions the journal's records follow each other, the   *)
  (* first of them nothing or the snapshot.                                *)
  <2>3. Chained(j.recs, d.snapshot)
    <3>1. /\ Len(j.recs) \in Nat /\ DOMAIN j.recs = 1 .. Len(j.recs)
          /\ \A i \in 1 .. Len(j.recs) : j.recs[i].rev \in Nat /\ j.recs[i].prev \in Nat
      BY <2>1, RecordTypes
    <3>2. \A i \in 1 .. Len(j.recs) : j.recs[i].rev = j.recs[i].prev + 1
      BY <3>1 DEF RecordsTrue, TrueRecord
    <3>3. \A i \in 2 .. Len(j.recs) : j.recs[i].prev = j.recs[i - 1].rev
      BY <2>1, <3>1 DEF Gapped
    <3>4. j.recs # <<>> => j.recs[1].prev \in {0, d.snapshot}
      BY DEF Rebased
    <3> SUFFICES ASSUME NEW i \in 1 .. Len(j.recs)
                 PROVE  j.recs[i].prev = ExpectedPrevious(j.recs, i, d.snapshot)
      BY <3>1, <3>2 DEF Chained
    <3>5. CASE i > 1
      <4>1. i \in 2 .. Len(j.recs)
        BY <3>1, <3>5
      <4>2. QED
        BY <3>3, <3>5, <4>1 DEF ExpectedPrevious
    <3>6. CASE i = 1
      <4>1. j.recs # <<>> /\ j.recs[1].rev = j.recs[1].prev + 1
        BY <3>1, <3>2, <3>6
      <4>2. QED
        BY <2>1, <3>1, <3>4, <3>6, <4>1 DEF ExpectedPrevious
    <3>7. QED
      BY <3>1, <3>5, <3>6
  (* A journal that ends below the manifest is empty, and all is in the    *)
  (* snapshot.                                                             *)
  <2>4. \/ LastRev(j.recs) >= d.current
        \/ j.recs = <<>> /\ d.snapshot = d.current /\ d.snapshot # 0
    <3>1. synced <= IF j.recs = <<>> THEN d.snapshot ELSE LastRev(j.recs)
      BY DEF SyncedKept
    <3>2. QED
      BY <2>1, <2>2, <3>1
  <2>5. QED
    BY <2>1, <2>2, <2>3, <2>4 DEF Opens, ReplayAccepts, RecoveredRevision
<1>2. QED
  BY <1>1, FullInvariant, PTL

-----------------------------------------------------------------------------
(* What a historical read answers.  With no induction to be had, the       *)
(* lemmas about a run of records argue from the first that goes wrong.     *)

LEMMA Stepwise ==
  ASSUME NEW x \in Nat, NEW i \in Nat
  PROVE  (x + (i - 1)) + 1 = x + i
OBVIOUS

LEMMA Stepback ==
  ASSUME NEW x \in Nat, NEW i \in Nat, NEW y \in Nat, NEW z, z = x + i, z = y + 1
  PROVE  y = x + (i - 1)
OBVIOUS

(* In a journal without gaps the records are numbered in turn. *)
LEMMA Contiguous ==
  ASSUME NEW recs \in Revisions, recs # <<>>,
         \A i \in 1 .. Len(recs) : recs[i].rev = recs[i].prev + 1,
         \A i \in 2 .. Len(recs) : recs[i].prev = recs[i - 1].rev
  PROVE  \A i \in 1 .. Len(recs) : recs[i].rev = recs[1].prev + i
<1>1. /\ Len(recs) \in Nat /\ 1 \in 1 .. Len(recs)
      /\ \A i \in 1 .. Len(recs) : recs[i].rev \in Nat /\ recs[i].prev \in Nat
  BY RecordTypes DEF Revisions
<1>2. SUFFICES ASSUME NEW bad \in 1 .. Len(recs), recs[bad].rev # recs[1].prev + bad
               PROVE  FALSE
  OBVIOUS
<1>3. PICK m \in 1 .. Len(recs) :
        /\ recs[m].rev # recs[1].prev + m
        /\ \A y \in 1 .. Len(recs) : recs[y].rev # recs[1].prev + y => m <= y
  <2> DEFINE Bad == {i \in 1 .. Len(recs) : recs[i].rev # recs[1].prev + i}
  <2>1. Bad \subseteq Nat /\ bad \in Bad
    BY <1>1, <1>2
  <2>2. PICK m \in Bad : \A y \in Bad : m <= y
    <3> HIDE DEF Bad
    <3>1. QED
      BY <2>1, LeastOf
  <2>3. QED
    BY <2>2
<1>4. m # 1
  BY <1>1, <1>3
<1>5. m - 1 \in 1 .. Len(recs) /\ m \in 2 .. Len(recs) /\ ~(m <= m - 1)
  BY <1>1, <1>4
<1>6. recs[m - 1].rev = recs[1].prev + (m - 1)
  BY <1>3, <1>5
<1>7. recs[m].rev = recs[m - 1].rev + 1
  BY <1>5
<1>8. recs[1].prev \in Nat /\ m \in Nat
  BY <1>1
<1>9. recs[m].rev = recs[1].prev + m
  <2>1. recs[m].rev = (recs[1].prev + (m - 1)) + 1
    BY <1>6, <1>7, Zenon
  <2>2. (recs[1].prev + (m - 1)) + 1 = recs[1].prev + m
    BY <1>8, Stepwise, Zenon
  <2>3. QED
    BY <2>1, <2>2, Zenon
<1>10. QED
  BY <1>3, <1>9

(* Records that follow one another from a revision on, each of which takes  *)
(* a version of the history to the next.                                   *)
Chain(recs, base, h) ==
    /\ recs \in Revisions
    /\ base \in Nat
    /\ \A i \in 1 .. Len(recs) :
          /\ recs[i].rev = base + i
          /\ recs[i].prev = base + (i - 1)
          /\ Version(h, recs[i].rev) = Overlay(Version(h, recs[i].prev), recs[i].batch)

(* Over records that do not mention it a key keeps its value. *)
LEMMA Carried ==
  ASSUME NEW recs, NEW base, NEW h, NEW k \in Keys, Chain(recs, base, h),
         NEW a \in 0 .. Len(recs), NEW b \in a .. Len(recs),
         \A i \in a + 1 .. b : recs[i].batch[k] = Untouched,
         NEW x, x = base + a, NEW y, y = base + b
  PROVE  Version(h, y)[k] = Version(h, x)[k]
<1>1. Len(recs) \in Nat /\ a \in Nat /\ b \in Nat /\ a <= b /\ b <= Len(recs) /\ b \in a .. b
  BY RecordTypes DEF Chain
<1>2. SUFFICES ASSUME Version(h, base + b)[k] # Version(h, base + a)[k]
               PROVE  FALSE
  OBVIOUS
<1>3. PICK m \in a .. b :
        /\ Version(h, base + m)[k] # Version(h, base + a)[k]
        /\ \A z \in a .. b : Version(h, base + z)[k] # Version(h, base + a)[k] => m <= z
  <2> DEFINE Bad == {z \in a .. b : Version(h, base + z)[k] # Version(h, base + a)[k]}
  <2>1. Bad \subseteq Nat /\ b \in Bad
    BY <1>1, <1>2
  <2>2. PICK m \in Bad : \A z \in Bad : m <= z
    <3> HIDE DEF Bad
    <3>1. QED
      BY <2>1, LeastOf
  <2>3. QED
    BY <2>2
<1>4. m # a
  BY <1>3
<1>5. /\ m - 1 \in a .. b /\ ~(m <= m - 1)
      /\ m \in 1 .. Len(recs) /\ m \in a + 1 .. b
  BY <1>1, <1>4
<1>6. Version(h, base + (m - 1))[k] = Version(h, base + a)[k]
  BY <1>3, <1>5
<1>7. recs[m].rev = base + m /\ recs[m].prev = base + (m - 1)
  BY <1>5 DEF Chain
<1>8. Version(h, base + m) = Overlay(Version(h, base + (m - 1)), recs[m].batch)
  BY <1>5, <1>7 DEF Chain
<1>9. recs[m].batch[k] = Untouched
  BY <1>5
<1>10. Version(h, base + m)[k] = Version(h, base + (m - 1))[k]
  BY <1>8, <1>9 DEF Overlay
<1>11. QED
  BY <1>3, <1>6, <1>10

(* The last record up to a revision that mentions a key gave it the value  *)
(* it has at that revision.                                                *)
LEMMA GivenByLastMention ==
  ASSUME NEW recs, NEW base, NEW h, NEW k \in Keys, Chain(recs, base, h),
         NEW r \in Nat, r <= base + Len(recs),
         NEW m \in 1 .. Len(recs), recs[m].rev <= r, recs[m].batch[k] # Untouched,
         \A i \in 1 .. Len(recs) :
             recs[i].rev <= r /\ recs[i].batch[k] # Untouched => i <= m
  PROVE  Version(h, r)[k] = recs[m].batch[k]
<1>1. Len(recs) \in Nat /\ base \in Nat /\ m \in Nat /\ m <= Len(recs)
  BY RecordTypes DEF Chain
<1>2. recs[m].rev = base + m /\ recs[m].prev = base + (m - 1)
  BY DEF Chain
<1>3. PICK b \in Nat : r = base + b /\ m <= b /\ b <= Len(recs)
  <2>1. r - base \in Nat /\ r = base + (r - base) /\ m <= r - base /\ r - base <= Len(recs)
    BY <1>1, <1>2
  <2>2. QED
    BY <2>1
<1>4. ASSUME NEW i \in m + 1 .. b PROVE recs[i].batch[k] = Untouched
  <2>1. i \in 1 .. Len(recs) /\ ~(i <= m) /\ base + i <= r
    BY <1>1, <1>3
  <2>2. recs[i].rev = base + i
    BY <2>1 DEF Chain
  <2>3. QED
    BY <2>1, <2>2
<1>5. m \in 0 .. Len(recs) /\ b \in m .. Len(recs)
  BY <1>1, <1>3
<1>6. Version(h, r)[k] = Version(h, recs[m].rev)[k]
  BY <1>2, <1>3, <1>4, <1>5, Carried
<1>7. Version(h, recs[m].rev) = Overlay(Version(h, recs[m].prev), recs[m].batch)
  BY DEF Chain
<1>8. QED
  BY <1>6, <1>7 DEF Overlay

(* A key that no record up to a revision mentions has the value there that *)
(* it had before the first record.                                         *)
LEMMA NeverMentioned ==
  ASSUME NEW recs, NEW h, NEW k \in Keys, Chain(recs, 0, h),
         NEW r \in 0 .. Len(recs),
         \A i \in 1 .. Len(recs) : recs[i].rev <= r => recs[i].batch[k] = Untouched
  PROVE  Version(h, r)[k] = Version(h, 0)[k]
<1>1. Len(recs) \in Nat
  BY RecordTypes DEF Chain
<1>2. ASSUME NEW i \in 0 + 1 .. r PROVE recs[i].batch[k] = Untouched
  <2>1. i \in 1 .. Len(recs) /\ i <= r /\ 0 + i = i
    BY <1>1
  <2>2. recs[i].rev = 0 + i
    BY <2>1 DEF Chain
  <2>3. QED
    BY <2>1, <2>2
<1>3. 0 \in 0 .. Len(recs) /\ 0 = 0 + 0 /\ r = 0 + r
  BY <1>1
<1>4. QED
  BY <1>2, <1>3, Carried

(* The records of an open handle with no gap are consecutive, end at its   *)
(* revision and are all certain.                                           *)
LEMMA RecordsOfTheHandle ==
  ASSUME revisions \in Revisions, revisions # <<>>, current \in Nat, current = Len(hist),
         journal \in CrashJournals, revisions = journal.recs,
         ~Gapped(revisions, current), RecordsTrue
  PROVE  /\ Chain(revisions, revisions[1].prev, hist)
         /\ current = revisions[1].prev + Len(revisions)
<1>1. /\ Len(revisions) \in Nat /\ DOMAIN revisions = 1 .. Len(revisions)
      /\ 1 \in 1 .. Len(revisions) /\ Len(revisions) \in 1 .. Len(revisions)
      /\ \A i \in 1 .. Len(revisions) : revisions[i].rev \in Nat /\ revisions[i].prev \in Nat
  BY RecordTypes DEF Revisions
<1>2. \A i \in 1 .. Len(revisions) : TrueRecord(revisions[i], hist, doubt)
  BY <1>1 DEF RecordsTrue
<1>3. \A i \in 1 .. Len(revisions) : revisions[i].rev = revisions[i].prev + 1
  BY <1>2 DEF TrueRecord
<1>4. /\ \A i \in 2 .. Len(revisions) : revisions[i].prev = revisions[i - 1].rev
      /\ revisions[Len(revisions)].rev = current
  BY DEF Gapped, LastRev
<1>5. \A i \in 1 .. Len(revisions) : revisions[i].rev = revisions[1].prev + i
  BY <1>3, <1>4, Contiguous
<1>6. revisions[1].prev \in Nat
  BY <1>1
<1>7. current = revisions[1].prev + Len(revisions)
  BY <1>1, <1>4, <1>5
<1>8. ASSUME NEW i \in 1 .. Len(revisions)
      PROVE  /\ revisions[i].prev = revisions[1].prev + (i - 1)
             /\ Version(hist, revisions[i].rev)
                  = Overlay(Version(hist, revisions[i].prev), revisions[i].batch)
  <2>1. /\ revisions[i].rev = revisions[1].prev + i
        /\ revisions[i].rev = revisions[i].prev + 1
    BY <1>3, <1>5
  <2>2. /\ revisions[i].prev \in Nat /\ i <= Len(revisions) /\ i \in Nat
    BY <1>1
  <2>3. revisions[i].prev = revisions[1].prev + (i - 1)
    BY <1>6, <2>1, <2>2, Stepback
  <2>4. revisions[1].prev + i <= current
    BY <1>1, <1>6, <1>7, <2>2
  <2>5. QED
    BY <1>2, <2>1, <2>3, <2>4 DEF TrueRecord
<1>9. QED
  BY <1>5, <1>6, <1>7, <1>8 DEF Chain

(* A historical read of an open handle answers with the value that the key *)
(* had at that revision or with nothing, and only a journal that does not  *)
(* begin at the first revision can make it forget (store_get_at).          *)
THEOREM HistoryNotSubstituted == Spec => []NoSubstitution
<1>1. ASSUME FullInv PROVE NoSubstitution
  <2> SUFFICES ASSUME NEW r \in 1 .. current, NEW k \in Keys, open, r >= retention,
                      ~Gapped(revisions, current), ReadAt(r, k) # hist[r][k]
               PROVE  /\ ReadAt(r, k) = Absent
                      /\ revisions = <<>> \/ revisions[1].prev # 0
    BY DEF NoSubstitution
  <2>1. /\ current \in Nat /\ retention \in Nat /\ r \in Nat /\ r # 0 /\ r <= current
        /\ current = Len(hist) /\ revisions = journal.recs /\ journal \in CrashJournals
        /\ revisions \in Revisions
        /\ index = Version(hist, current)
    BY <1>1, OpenShowsHistory DEF FullInv, Inv, HandleFollowsHistory, HandleShowsDisk,
       CrashJournals, TypeInv, TypeOK, ContentsAt, Version
  <2>2. RecordsTrue
    BY <1>1 DEF FullInv
  <2>3. hist[r] = Version(hist, r)
    BY <2>1 DEF Version
  <2>4. ~(r > current) /\ ~(r < retention)
    BY <2>1
  <2>5. r # current
    BY <2>1, <2>3, <2>4 DEF ReadAt
  <2>6. CASE ~ \E i \in DOMAIN revisions :
                 revisions[i].rev <= r /\ revisions[i].batch[k] # Untouched
    <3>1. ReadAt(r, k) = Absent
      BY <2>4, <2>5, <2>6 DEF ReadAt
    <3>2. SUFFICES ASSUME revisions # <<>>, revisions[1].prev = 0 PROVE FALSE
      BY <3>1
    <3>3. Chain(revisions, 0, hist) /\ current = 0 + Len(revisions)
      BY <2>1, <2>2, <3>2, RecordsOfTheHandle
    <3>4. Len(revisions) \in Nat /\ DOMAIN revisions = 1 .. Len(revisions)
      BY <2>1, RecordTypes
    <3>5. r \in 0 .. Len(revisions)
      BY <2>1, <3>3, <3>4
    <3>6. \A i \in 1 .. Len(revisions) :
             revisions[i].rev <= r => revisions[i].batch[k] = Untouched
      BY <2>6, <3>4
    <3>7. Version(hist, r)[k] = Version(hist, 0)[k]
      BY <3>3, <3>5, <3>6, NeverMentioned
    <3>8. Version(hist, 0)[k] = Absent
      BY DEF Version, Nothing
    <3>9. QED
      BY <2>3, <3>1, <3>7, <3>8
  <2>7. ASSUME NEW x \in DOMAIN revisions,
               revisions[x].rev <= r, revisions[x].batch[k] # Untouched
        PROVE  FALSE
    <3>1. Len(revisions) \in Nat /\ DOMAIN revisions = 1 .. Len(revisions)
      BY <2>1, RecordTypes
    <3>2. revisions # <<>>
      BY <2>7, <3>1
    <3>3. PICK m \in 1 .. Len(revisions) :
            /\ revisions[m].rev <= r /\ revisions[m].batch[k] # Untouched
            /\ \A i \in 1 .. Len(revisions) :
                  revisions[i].rev <= r /\ revisions[i].batch[k] # Untouched => i <= m
            /\ ReadAt(r, k) = revisions[m].batch[k]
      <4> DEFINE ms == {i \in DOMAIN revisions :
                          revisions[i].rev <= r /\ revisions[i].batch[k] # Untouched}
      <4>1. ms \subseteq 1 .. Len(revisions) /\ ms # {}
        BY <2>7, <3>1
      <4>2. Max(ms) \in ms /\ \A y \in ms : y <= Max(ms)
        <5> HIDE DEF ms
        <5>1. QED
          BY <3>1, <4>1, MaxOfPositions
      <4>3. ReadAt(r, k) = revisions[Max(ms)].batch[k]
        BY <2>4, <2>5, <4>1 DEF ReadAt
      <4>4. PICK m \in ms : m = Max(ms)
        BY <4>2
      <4>5. QED
        BY <3>1, <4>2, <4>3, <4>4
    <3>4. /\ Chain(revisions, revisions[1].prev, hist)
          /\ r <= revisions[1].prev + Len(revisions)
      BY <2>1, <2>2, <3>2, RecordsOfTheHandle
    <3>5. Version(hist, r)[k] = revisions[m].batch[k]
      BY <2>1, <3>3, <3>4, GivenByLastMention
    <3>6. QED
      BY <2>3, <3>3, <3>5
  <2>8. QED
    BY <2>6, <2>7
<1>2. QED
  BY <1>1, FullInvariant, PTL
=============================================================================
