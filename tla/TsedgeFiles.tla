---------------------------- MODULE TsedgeFiles ----------------------------
(***************************************************************************)
(* The two append-only file formats of TSEdge, reduced to what recovery    *)
(* tells apart.                                                            *)
(*                                                                         *)
(* wal.log is a sequence of WAL records and a segment file a sequence of   *)
(* compressed blocks.  Either one is written with buffered stdio, so a     *)
(* crash or a failed write leaves a fragment behind.  An item (a record or *)
(* a block) is measured in cells: one for its fixed header and one for     *)
(* each point.  `got' is how many of them reached the file: 0 means only   *)
(* part of the header did, Size(item) means the item is whole.             *)
(***************************************************************************)
EXTENDS Naturals, Sequences, SequencesExt

\* A WAL record: the series name and the points.
WalRecord(s, pts) == [series |-> s, points |-> pts, got |-> 1 + Len(pts)]

\* A compressed block of a segment file.
Block(pts) == [points |-> pts, got |-> 1 + Len(pts)]

Size(item) == 1 + Len(item.points)

IsWhole(item) == item.got = Size(item)

\* What a buffered write of `items' may have put in a file when it stops: some
\* whole items, then perhaps a part of the next one.
PartialWrites(items) ==
  {SubSeq(items, 1, k) : k \in 0..Len(items)}
    \union UNION {{Append(SubSeq(items, 1, k - 1), [items[k] EXCEPT !.got = g]) :
                     g \in 0..Len(items[k].points)} : k \in 1..Len(items)}

-----------------------------------------------------------------------------

\* The length of a run of items, in cells.
Cells(file) ==
  LET sum[n \in 0..Len(file)] == IF n = 0 THEN 0 ELSE sum[n - 1] + file[n].got
  IN sum[Len(file)]

Fragments(file) == {i \in 1..Len(file) : ~IsWhole(file[i])}

FirstFragment(file) ==
  CHOOSE i \in Fragments(file) : \A j \in Fragments(file) : i <= j

\* The items before the first fragment: all that a sequential reader can use.
Intact(file) ==
  IF Fragments(file) = {} THEN file
                          ELSE SubSeq(file, 1, FirstFragment(file) - 1)

\* Cells the first fragment lacks, and cells that were written after it.
Missing(file) ==
  LET i == FirstFragment(file) IN Size(file[i]) - file[i].got

CellsAfter(file) == Cells(SubSeq(file, FirstFragment(file) + 1, Len(file)))

\* Faulty variant: an entry cut short by the end of the file is an error.
WalCorruptAtEnd(wal) == Fragments(wal) # {}

\* tsedge_wal_replay: a short prefix, or an entry longer than what is left of
\* the file, ends the replay without an error.  Bytes that do follow a fragment
\* are read as a part of it, and its size, magic or checksum gives it away.
\* A fragment without even a whole prefix counts as corrupt with anything behind
\* it, which is stricter than the code: bytes that complete the prefix may make a
\* length that is longer than the file, and end the replay without an error.
WalCorrupt(wal) ==
  /\ Fragments(wal) # {}
  /\ IF wal[FirstFragment(wal)].got = 0 THEN CellsAfter(wal) > 0
                                        ELSE CellsAfter(wal) >= Missing(wal)

\* tsedge_segment_scan_index: a header cut short is an error.  A payload cut
\* short is skipped with fseek, which lands beyond the end of the file (the scan
\* ends well) or inside a later block (where no block header is found).
SegmentCorrupt(blocks) ==
  /\ Fragments(blocks) # {}
  /\ \/ blocks[FirstFragment(blocks)].got = 0
     \/ CellsAfter(blocks) > Missing(blocks)

-----------------------------------------------------------------------------

PointsIn(file) == UNION {Range(file[i].points) : i \in 1..Len(file)}

\* The points of series s that replaying wal.log gives back.
LoggedPoints(wal, s) ==
  UNION {Range(wal[i].points) : i \in {j \in 1..Len(Intact(wal)) : wal[j].series = s}}

\* The points that the readable blocks of a segment file hold.
StoredPoints(blocks) == PointsIn(Intact(blocks))
=============================================================================
