--------------------------- MODULE TsedgeSegments ---------------------------
(***************************************************************************)
(* The segment files of a TSEdge database: a flush appends a block to the  *)
(* active segment or starts the next one, tsedge_delete_before and the     *)
(* disk quota unlink whole segments, and the block index of a series is    *)
(* rebuilt from the files that are left.                                   *)
(*                                                                         *)
(* A call runs alone; `pc' says where it is.  Every step changes at most   *)
(* one file.  The application hands each timestamp to a series once, so a  *)
(* point is known by its series and its timestamp.  The durability mode is *)
(* STRICT, and wal.log takes one unit for each point; TsedgeStore has its  *)
(* details.  The sizes of manifest.txt and metadata.txt do not change, and *)
(* a quota is what it leaves for the other files.                          *)
(***************************************************************************)
EXTENDS Integers, FiniteSets, FiniteSetsExt, Sequences, SequencesExt

CONSTANTS
  Registry,         \* the series, in the order of db->series
  Capacity,         \* TSEDGE_BLOCK_MAX_POINTS
  SegmentMaxBytes,  \* TSEDGE_SEGMENT_MAX_BYTES
  BlockSizes,       \* sizes that a compressed block can have
  NamedIds,         \* segment ids whose file name tsedge_segment_parse_filename accepts
  Times,            \* bound: timestamps of points
  MaxPoints,        \* bound: points ever handed to the database
  Cutoffs,          \* bound: arguments of tsedge_delete_before
  Quotas,           \* bound: arguments of tsedge_set_disk_quota
  MaxCrashes,       \* bound: crashes
  MaxFaults,        \* bound: file operations that fail
  Failing           \* bound: the labels of the steps that may fail

Series == Range(Registry)

ASSUME SegmentsAssumption ==
  /\ Registry \in Seq(Series) /\ Registry # <<>> /\ IsInjective(Registry)
  /\ Capacity \in Nat \ {0}
  /\ SegmentMaxBytes \in Nat
  /\ BlockSizes \subseteq Nat \ {0}
  /\ NamedIds \subseteq Nat \ {0}
  /\ Times \subseteq Int
  /\ MaxPoints \in Nat
  /\ Cutoffs \subseteq Int
  /\ Quotas \subseteq Nat
  /\ MaxCrashes \in Nat
  /\ MaxFaults \in Nat
  /\ Failing \subseteq {"flush", "truncate", "measure", "evict", "expire", "reindex", "refresh"}

VARIABLES
  (*************************************************************************)
  (* The database directory.                                               *)
  (*************************************************************************)
  files,     \* per series, its segment files: blocks and size by segment id
  wal,       \* per series, its points in wal.log
  (*************************************************************************)
  (* The tsedge_db object.                                                 *)
  (*************************************************************************)
  ids,       \* per series, segment_ids
  active,    \* per series, active_segment_id
  path,      \* per series, the id in the file name active_segment_path
  index,     \* per series, the entries of block_index
  buffer,    \* per series, the timestamps in its buffer
  quota,     \* disk_quota_bytes, 0 when there is none
  exceeded,  \* disk_quota_exceeded
  (*************************************************************************)
  (* The call in progress.                                                 *)
  (*************************************************************************)
  pc,        \* the next step of the call, "idle" or "closed"
  op,        \* the call
  target,    \* the series it works on
  arg,       \* a timestamp: of the point to append, or the cutoff
  cursor,    \* per series, the next point of wal.log during replay
  victims,   \* segments still to be unlinked
  size,      \* current_size of tsedge_db_enforce_disk_quota
  touched,   \* series whose index must be rebuilt
  failed,    \* whether an unlink of tsedge_series_delete_before failed
  (*************************************************************************)
  (* History.                                                              *)
  (*************************************************************************)
  used,      \* per series, the timestamps handed to it
  gone,      \* per series, the points that unlinking segments has removed
  crashes,
  faults

disk    == <<files, wal>>
segs    == <<ids, active, path, index>>
limit   == <<quota, exceeded>>
call    == <<op, target, arg, cursor>>
work    == <<victims, size, touched, failed>>
bounds  == <<crashes, faults>>
history == <<used, gone, bounds>>
vars    == <<disk, segs, buffer, limit, pc, call, work, history>>

Operations == {"none", "open", "append", "flush", "flush_all", "close", "delete_before", "enforce"}

Labels == {"closed", "idle", "replay", "place", "flush", "next", "truncate", "measure", "evict",
           "reindex", "resume", "expire", "refresh"}

NoFile == [blocks |-> <<>>, bytes |-> 0]

-----------------------------------------------------------------------------

Put(f, key, value) == [k \in DOMAIN f \union {key} |-> IF k = key THEN value ELSE f[k]]

File(s, id) == IF id \in DOMAIN files[s] THEN files[s][id] ELSE NoFile

PointsOf(file) == UNION {Range(file.blocks[i].points) : i \in DOMAIN file.blocks}

PointsIn(s, S) == UNION {PointsOf(files[s][id]) : id \in S}

\* database_size_bytes
DiskBytes ==
  LET SeriesBytes(s) == SumFunction([id \in DOMAIN files[s] |-> files[s][id].bytes])
  IN SumFunction([s \in Series |-> Len(wal[s]) + SeriesBytes(s)])

Position(s) == CHOOSE i \in DOMAIN Registry : Registry[i] = s

\* fill_index_entry, and what tsedge_segment_scan_index makes of a block header.
IndexEntry(id, block) == [segment |-> id, offset |-> block.offset, newest |-> Max(Range(block.points))]

\* tsedge_segment_discover_ids
Discovered(s) == DOMAIN files[s] \intersect NamedIds

\* The index entries of the files in S.
ScannedIndex(s, S) ==
  UNION {{IndexEntry(id, files[s][id].blocks[i]) : i \in DOMAIN files[s][id].blocks} : id \in S}

\* Faulty variant: the number of the files instead of the last id.
CountAsId(S) == IF S = {} THEN 1 ELSE Cardinality(S)

\* The active segment after a rebuild.
LastId(S) == IF S = {} THEN 1 ELSE Max(S)

-----------------------------------------------------------------------------

NoSegments == [s \in Series |-> [id \in {} |-> NoFile]]

Nothing == [s \in Series |-> <<>>]

Start == [s \in Series |-> 1]

Init ==
  /\ files = NoSegments /\ wal = Nothing
  /\ ids = [s \in Series |-> {}] /\ active = Start /\ path = Start
  /\ index = [s \in Series |-> {}] /\ buffer = Nothing
  /\ quota = 0 /\ exceeded = FALSE
  /\ pc = "idle" /\ op = "none" /\ target = Registry[1] /\ arg = 0 /\ cursor = Start
  /\ victims = {} /\ size = 0 /\ touched = {} /\ failed = FALSE
  /\ used = [s \in Series |-> {}] /\ gone = used /\ crashes = 0 /\ faults = 0

-----------------------------------------------------------------------------

Goto(label) == pc' = label

\* The locals of the call are gone.
Finish(label) ==
  /\ Goto(label)
  /\ op' = "none" /\ target' = Registry[1] /\ arg' = 0 /\ cursor' = Start
  /\ victims' = {} /\ size' = 0 /\ touched' = {} /\ failed' = FALSE

\* The tsedge_db object is gone.
Forget ==
  /\ Finish("closed")
  /\ ids' = [s \in Series |-> {}] /\ active' = Start /\ path' = Start
  /\ index' = [s \in Series |-> {}] /\ buffer' = Nothing
  /\ quota' = 0 /\ exceeded' = FALSE

\* A close frees the tsedge_db object whatever its result, an open when it fails.
Frees(r) == op = "close" \/ (op = "open" /\ r # "ok")

Return(r) ==
  IF Frees(r) THEN Forget
              ELSE Finish("idle") /\ UNCHANGED <<segs, buffer, limit>>

\* A call begins.
Begin(name, s, t, label) ==
  /\ pc = "idle"
  /\ op' = name /\ target' = s /\ arg' = t
  /\ Goto(label)
  /\ UNCHANGED <<disk, segs, buffer, limit, cursor, work, gone, bounds>>

-----------------------------------------------------------------------------
(* tsedge_open *)

\* load_existing_series: tsedge_series_rebuild_index for every directory.
Open ==
  /\ pc = "closed"
  /\ ids' = [s \in Series |-> Discovered(s)]
  /\ active' = [s \in Series |-> LastId(Discovered(s))]
  /\ path' = active'
  /\ index' = [s \in Series |-> ScannedIndex(s, Discovered(s))]
  /\ op' = "open"
  /\ Goto("replay")
  /\ UNCHANGED <<disk, buffer, limit, target, arg, cursor, work, history>>

\* Faulty variant: the room in the buffer is not looked at.
ReplayUnchecked(s) ==
  /\ pc = "replay" /\ cursor[s] <= Len(wal[s])
  /\ buffer' = [buffer EXCEPT ![s] = Append(@, wal[s][cursor[s]])]
  /\ cursor' = [cursor EXCEPT ![s] = @ + 1]
  /\ UNCHANGED <<disk, segs, limit, pc, op, target, arg, work, history>>

\* tsedge_series_add_recovered_point: a full buffer is flushed first.  The order
\* of the records of one series matters here, that of two series does not.
Replay(s) ==
  /\ pc = "replay" /\ cursor[s] <= Len(wal[s])
  /\ IF Len(buffer[s]) >= Capacity
       THEN Goto("flush") /\ target' = s /\ UNCHANGED <<buffer, cursor>>
       ELSE /\ buffer' = [buffer EXCEPT ![s] = Append(@, wal[s][cursor[s]])]
            /\ cursor' = [cursor EXCEPT ![s] = @ + 1]
            /\ UNCHANGED <<pc, target>>
  /\ UNCHANGED <<disk, segs, limit, op, arg, work, history>>

ReplayEnds ==
  /\ pc = "replay" /\ \A s \in Series : cursor[s] > Len(wal[s])
  /\ Return("ok")
  /\ UNCHANGED <<disk, history>>

-----------------------------------------------------------------------------
(* Which segments are removed *)

\* One quota_candidate, or one element of segment_bounds.
Segment(s, id) ==
  [series  |-> s,
   segment |-> id,
   newest  |-> Max({e.newest : e \in {x \in index[s] : x.segment = id}}),
   bytes   |-> File(s, id).bytes]

Segments(s) == {Segment(s, e.segment) : e \in index[s]}

\* Faulty variant: the active segment is a candidate too.
SealedOrActive(s) == IF Cardinality(ids[s]) <= 1 THEN {} ELSE {c \in Segments(s) : c.bytes > 0}

\* collect_series_candidates
Sealed(s) ==
  IF Cardinality(ids[s]) <= 1
    THEN {}
    ELSE {c \in Segments(s) : c.segment # active[s] /\ c.bytes > 0}

\* Faulty variant: the candidates are in the order of the series.
BySeries(a, b) ==
  \/ Position(a.series) < Position(b.series)
  \/ a.series = b.series /\ a.segment < b.segment

\* compare_candidates
Before(a, b) ==
  \/ a.newest < b.newest
  \/ a.newest = b.newest /\ Position(a.series) < Position(b.series)
  \/ a.newest = b.newest /\ a.series = b.series /\ a.segment < b.segment

\* Faulty variant: a segment whose newest point is the cutoff goes as well.
ExpiredOrEqual(s, cutoff) == {c \in Segments(s) : c.newest <= cutoff}

\* The segments that tsedge_series_delete_before unlinks.
Expired(s, cutoff) == {c \in Segments(s) : c.newest < cutoff}

-----------------------------------------------------------------------------
(* The calls of the application *)

\* tsedge_append of a point that was not handed to the series before.
StartAppend(s, t) ==
  /\ ~exceeded
  /\ t \notin used[s]
  /\ SumFunction([z \in Series |-> Cardinality(used[z])]) < MaxPoints
  /\ used' = [used EXCEPT ![s] = @ \union {t}]
  /\ Begin("append", s, t, IF Len(buffer[s]) >= Capacity THEN "flush" ELSE "place")

\* append_point_internal, after the check for a full buffer.
Place ==
  /\ pc = "place"
  /\ wal' = [wal EXCEPT ![target] = Append(@, arg)]
  /\ buffer' = [buffer EXCEPT ![target] = Append(@, arg)]
  /\ Finish("idle")
  /\ UNCHANGED <<files, segs, limit, history>>

\* tsedge_flush and tsedge_delete_before flush one series, if it has a buffer.
StartFlush(name, s, t) ==
  /\ Begin(name, s, t, IF buffer[s] = <<>> THEN "resume" ELSE "flush")
  /\ UNCHANGED used

\* tsedge_flush_all, tsedge_close and tsedge_enforce_disk_quota are about no series.
StartWhole(name) ==
  /\ Begin(name, Registry[1], 0, IF name = "enforce" THEN "measure" ELSE "next")
  /\ UNCHANGED used

SetDiskQuota(max_bytes) ==
  /\ pc = "idle"
  /\ quota' = max_bytes /\ exceeded' = FALSE
  /\ UNCHANGED <<disk, segs, buffer, pc, call, work, history>>

\* The call goes on after a flush or a cleanup that succeeded.
Resume ==
  /\ pc = "resume"
  /\ CASE op = "append" ->
            Goto("place") /\ UNCHANGED <<segs, buffer, limit, call, work>>
       [] op = "delete_before" ->
            /\ victims' = Expired(target, arg)
            /\ Goto("expire")
            /\ UNCHANGED <<segs, buffer, limit, call, size, touched, failed>>
       [] OTHER -> Return("ok")
  /\ UNCHANGED <<disk, history>>

-----------------------------------------------------------------------------
(* tsedge_series_flush and tsedge_db_flush_all *)

\* Faulty variant: the size of the new block is not counted.
RotatesLate(s, n) == File(s, path[s]).bytes > SegmentMaxBytes

\* tsedge_segment_rotate_if_needed
Rotates(s, n) ==
  /\ File(s, path[s]).bytes > 0
  /\ File(s, path[s]).bytes + n > SegmentMaxBytes

\* Faulty variant: segments are numbered by how many there are.
NextByCount(s, n) == IF Rotates(s, n) THEN Cardinality(ids[s]) + 1 ELSE active[s]

\* active_segment_id and active_segment_path for a block of n bytes.
NextActive(s, n) == IF Rotates(s, n) THEN active[s] + 1 ELSE active[s]

NextPath(s, n) == IF Rotates(s, n) THEN active[s] + 1 ELSE path[s]

Rotate(s, n) ==
  /\ active' = [active EXCEPT ![s] = NextActive(s, n)]
  /\ path' = [path EXCEPT ![s] = NextPath(s, n)]

\* tsedge_segment_append_block and the update of the index.
WriteBlock(n) ==
  /\ pc = "flush"
  /\ Rotate(target, n)
  /\ LET s     == target
         id    == NextPath(s, n)
         old   == File(s, id)
         block == [points |-> buffer[s], offset |-> old.bytes]
     IN /\ files' = [files EXCEPT ![s] =
              Put(@, id, [blocks |-> Append(old.blocks, block), bytes |-> old.bytes + n])]
        /\ ids' = [ids EXCEPT ![s] = @ \union {NextActive(s, n)}]
        /\ index' = [index EXCEPT ![s] = @ \union {IndexEntry(NextActive(s, n), block)}]
        /\ buffer' = [buffer EXCEPT ![s] = <<>>]
  /\ Goto(CASE op = "open" -> "replay"
            [] op \in {"flush_all", "close"} -> "next"
            [] OTHER -> "truncate")
  /\ UNCHANGED <<wal, limit, call, work, history>>

\* The loop of tsedge_db_flush_all: a flushed buffer is empty.
NextSeries ==
  /\ pc = "next"
  /\ LET full == {i \in DOMAIN Registry : buffer[Registry[i]] # <<>>} IN
       IF full = {} THEN Goto("truncate") /\ UNCHANGED target
                    ELSE Goto("flush") /\ target' = Registry[Min(full)]
  /\ UNCHANGED <<disk, segs, buffer, limit, op, arg, cursor, work, history>>

\* Faulty variant: wal.log is left as it is.
KeepWal ==
  /\ pc = "truncate"
  /\ Goto("measure")
  /\ UNCHANGED <<disk, segs, buffer, limit, call, work, history>>

\* tsedge_wal_truncate_to_buffers
TruncateWal ==
  /\ pc = "truncate"
  /\ wal' = buffer
  /\ Goto("measure")
  /\ UNCHANGED <<files, segs, buffer, limit, call, work, history>>

-----------------------------------------------------------------------------
(* tsedge_db_enforce_disk_quota *)

\* Measuring finds the limit kept, or collects what may be removed.
Measure ==
  /\ pc = "measure"
  /\ IF quota = 0 \/ DiskBytes <= quota
       THEN exceeded' = FALSE /\ Goto("resume") /\ UNCHANGED <<victims, size>>
       ELSE /\ victims' = UNION {Sealed(s) : s \in Series}
            /\ size' = DiskBytes
            /\ Goto("evict")
            /\ UNCHANGED exceeded
  /\ UNCHANGED <<disk, segs, buffer, quota, call, touched, failed, history>>

\* unlink of one segment file; a file that is not there is no error.
Unlink(victim) ==
  LET s    == victim.series
      rest == DOMAIN files[s] \ {victim.segment}
  IN /\ files' = [files EXCEPT ![s] = Restrict(@, rest)]
     /\ gone' = [gone EXCEPT ![s] =
          @ \union (PointsOf(File(s, victim.segment)) \ (PointsIn(s, rest) \union Range(buffer[s])))]

\* Faulty variant: the size of the removed file is not taken off.
EvictKeepsSize ==
  /\ pc = "evict" /\ size > quota
  /\ \E first \in victims :
       /\ \A other \in victims \ {first} : Before(first, other)
       /\ Unlink(first)
       /\ touched' = touched \union {first.series}
       /\ victims' = victims \ {first}
  /\ UNCHANGED <<wal, segs, buffer, limit, pc, call, size, failed, used, bounds>>

\* Faulty variant: the series is not marked for a rebuild.
EvictUntouched ==
  /\ pc = "evict" /\ size > quota
  /\ \E first \in victims :
       /\ \A other \in victims \ {first} : Before(first, other)
       /\ Unlink(first)
       /\ size' = size - first.bytes
       /\ victims' = victims \ {first}
  /\ UNCHANGED <<wal, segs, buffer, limit, pc, call, touched, failed, used, bounds>>

\* One iteration of the loop over the sorted candidates.
Evict ==
  /\ pc = "evict" /\ size > quota
  /\ \E first \in victims :
       /\ \A other \in victims \ {first} : Before(first, other)
       /\ Unlink(first)
       /\ touched' = touched \union {first.series}
       /\ size' = IF size > first.bytes THEN size - first.bytes ELSE 0
       /\ victims' = victims \ {first}
  /\ UNCHANGED <<wal, segs, buffer, limit, pc, call, failed, used, bounds>>

EvictEnds ==
  /\ pc = "evict" /\ (victims = {} \/ size <= quota)
  /\ victims' = {}
  /\ Goto("reindex")
  /\ UNCHANGED <<disk, segs, buffer, limit, call, size, touched, failed, history>>

\* After rebuild_touched_series.
Judge ==
  /\ pc = "reindex" /\ touched = {}
  /\ IF size <= quota
       THEN /\ exceeded' = FALSE /\ size' = 0
            /\ Goto("resume")
            /\ UNCHANGED <<segs, buffer, quota, call, victims, touched, failed>>
       ELSE IF Frees("quota")
              THEN Forget
              ELSE /\ exceeded' = TRUE /\ Finish("idle")
                   /\ UNCHANGED <<segs, buffer, quota>>
  /\ UNCHANGED <<disk, history>>

-----------------------------------------------------------------------------
(* tsedge_series_delete_before, after its flush *)

\* The loop goes through the segments as the index has them; a failure ends it, so
\* any of them may be the last.
Expire ==
  /\ pc = "expire"
  /\ \E victim \in victims :
       /\ Unlink(victim)
       /\ victims' = victims \ {victim}
  /\ touched' = {target}
  /\ UNCHANGED <<wal, segs, buffer, limit, pc, call, size, failed, used, bounds>>

ExpireEnds ==
  /\ pc = "expire" /\ victims = {}
  /\ Goto("refresh")
  /\ UNCHANGED <<disk, segs, buffer, limit, call, work, history>>

Refreshed ==
  /\ pc = "refresh" /\ touched = {}
  /\ Return(IF failed THEN "io" ELSE "ok")
  /\ UNCHANGED <<disk, history>>

-----------------------------------------------------------------------------
(* tsedge_series_rebuild_index *)

\* The series that are rebuilt come in registry order.
NextTouched == Registry[Min({Position(s) : s \in touched})]

Rebuild ==
  /\ pc \in {"reindex", "refresh"} /\ touched # {}
  /\ LET s == NextTouched IN
       /\ ids' = [ids EXCEPT ![s] = Discovered(s)]
       /\ active' = [active EXCEPT ![s] = LastId(Discovered(s))]
       /\ path' = [path EXCEPT ![s] = active'[s]]
       /\ index' = [index EXCEPT ![s] = ScannedIndex(s, Discovered(s))]
       /\ touched' = touched \ {s}
  /\ UNCHANGED <<disk, buffer, limit, pc, call, victims, size, failed, history>>

-----------------------------------------------------------------------------
(* What the environment does *)

MayFail == pc \in Failing /\ faults < MaxFaults /\ faults' = faults + 1

\* The block does not reach its file, which fopen(..., "ab") may have created; the
\* rotation stays.
WriteBlockFails(n) ==
  /\ pc = "flush" /\ MayFail
  /\ LET id == NextPath(target, n) IN
       files' \in {files, [files EXCEPT ![target] = Put(@, id, File(target, id))]}
  /\ IF Frees("io")
       THEN Forget
       ELSE Finish("idle") /\ Rotate(target, n) /\ UNCHANGED <<ids, index, buffer, limit>>
  /\ UNCHANGED <<wal, used, gone, crashes>>

\* wal.log cannot be rewritten, a file size cannot be read, or the quota cannot
\* unlink a segment: the error goes up at once.
CallFails ==
  /\ \/ pc = "truncate"
     \/ pc = "measure" /\ quota # 0
     \/ pc = "evict" /\ victims # {} /\ size > quota
  /\ MayFail
  /\ Return("io")
  /\ UNCHANGED <<disk, used, gone, crashes>>

\* Retention cannot unlink a segment: it rebuilds the index and then returns.
ExpireFails ==
  /\ pc = "expire" /\ victims # {} /\ MayFail
  /\ failed' = TRUE /\ victims' = {} /\ touched' = {target}
  /\ UNCHANGED <<disk, segs, buffer, limit, pc, call, size, used, gone, crashes>>

\* The directory cannot be read, or the file `bad' cannot be scanned: what was
\* done of the rebuild stays, and the path is the old one.
RebuildFails ==
  /\ pc \in {"reindex", "refresh"} /\ touched # {} /\ MayFail
  /\ IF Frees("io")
       THEN Forget
       ELSE LET s == NextTouched IN
         /\ Finish("idle")
         /\ \/ /\ ids' = [ids EXCEPT ![s] = {}]
               /\ index' = [index EXCEPT ![s] = {}]
               /\ UNCHANGED active
            \/ \E bad \in Discovered(s) :
                 /\ ids' = [ids EXCEPT ![s] = Discovered(s)]
                 /\ active' = [active EXCEPT ![s] = LastId(Discovered(s))]
                 /\ index' = [index EXCEPT ![s] =
                                 ScannedIndex(s, {id \in Discovered(s) : id < bad})]
         /\ UNCHANGED <<path, buffer, limit>>
  /\ UNCHANGED <<disk, used, gone, crashes>>

\* The process dies.
Crash ==
  /\ pc # "closed"
  /\ crashes < MaxCrashes
  /\ crashes' = crashes + 1
  /\ Forget
  /\ UNCHANGED <<disk, used, gone, faults>>

-----------------------------------------------------------------------------

StartCall ==
  \/ \E s \in Series, t \in Times : StartAppend(s, t)
  \/ \E s \in Series : StartFlush("flush", s, 0)
  \/ \E s \in Series, t \in Cutoffs : StartFlush("delete_before", s, t)
  \/ \E name \in {"flush_all", "close", "enforce"} : StartWhole(name)
  \/ \E max_bytes \in Quotas : SetDiskQuota(max_bytes)

Continue ==
  \/ \E s \in Series : Replay(s)
  \/ ReplayEnds \/ Place \/ Resume
  \/ \E n \in BlockSizes : WriteBlock(n)
  \/ NextSeries \/ TruncateWal
  \/ Measure \/ Evict \/ EvictEnds \/ Judge
  \/ Expire \/ ExpireEnds \/ Refreshed \/ Rebuild

Environment ==
  \/ \E n \in BlockSizes : WriteBlockFails(n)
  \/ CallFails \/ ExpireFails \/ RebuildFails \/ Crash

Next == Open \/ StartCall \/ Continue \/ Environment

Spec == Init /\ [][Next]_vars

-----------------------------------------------------------------------------
(* Properties *)

\* The shape of the state.
TypeOK ==
  /\ \A s \in Series : \A id \in DOMAIN files[s] :
       /\ id \in Nat \ {0}
       /\ files[s][id].bytes \in Nat
       /\ files[s][id].blocks \in Seq([points : Seq(Int), offset : Nat])
  /\ wal \in [Series -> Seq(Int)]
  /\ ids \in [Series -> SUBSET (Nat \ {0})]
  /\ active \in [Series -> Nat \ {0}]
  /\ path \in [Series -> Nat \ {0}]
  /\ \A s \in Series : index[s] \subseteq [segment : Nat, offset : Nat, newest : Int]
  /\ buffer \in [Series -> Seq(Int)]
  /\ \A s \in Series : Len(buffer[s]) <= Capacity
  /\ quota \in Nat
  /\ exceeded \in BOOLEAN
  /\ pc \in Labels
  /\ op \in Operations
  /\ target \in Series
  /\ arg \in Int
  /\ cursor \in [Series -> Nat \ {0}]
  /\ victims \subseteq [series : Series, segment : Nat, newest : Int, bytes : Nat]
  /\ size \in Nat
  /\ touched \subseteq Series
  /\ failed \in BOOLEAN
  /\ used \in [Series -> SUBSET Int]
  /\ gone \in [Series -> SUBSET Int]
  /\ crashes \in 0..MaxCrashes
  /\ faults \in 0..MaxFaults

\* The block index is the one that scanning all segment files gives, the next
\* block goes to the file that has the active id, and no file has a greater one.
InStep(s) ==
  /\ index[s] = ScannedIndex(s, DOMAIN files[s])
  /\ path[s] = active[s]
  /\ \A id \in DOMAIN files[s] : id <= active[s]

\* When no file operation failed, what flushes, rotations, cleanups and reopening
\* have made of the volatile index agrees with the files.
IndexMatchesDisk == pc = "idle" /\ faults = 0 => \A s \in Series : InStep(s)

\* After a crash or a failure tsedge_open brings index and files together again.
OpenRepairs == pc = "replay" => \A s \in Series : InStep(s)

\* Flushes append to the index in the order of segment id and offset, the order
\* in which a rebuild fills it and a query reads the blocks.
BlocksInOrder ==
  [][faults' = 0 /\ pc = "flush" =>
       \A s \in Series : \A e \in index'[s] \ index[s], d \in index[s] :
         \/ d.segment < e.segment
         \/ d.segment = e.segment /\ d.offset < e.offset]_vars

\* Only a segment of a single block can be larger than TSEDGE_SEGMENT_MAX_BYTES.
SegmentBound ==
  faults = 0 => \A s \in Series : \A id \in DOMAIN files[s] :
    Len(files[s][id].blocks) > 1 => files[s][id].bytes <= SegmentMaxBytes

\* The quota removes a segment file only while the series has a newer one, so
\* neither its last file nor the active one goes.
NewestFileKept ==
  [][pc = "evict" /\ faults = 0 =>
       \A s \in Series : \A id \in DOMAIN files[s] \ DOMAIN files'[s] :
         \E newer \in DOMAIN files'[s] : newer > id]_vars

\* The quota leaves a series that has segment files with at least one.
LastSegmentKept ==
  [][pc = "evict" => \A s \in Series : DOMAIN files[s] # {} => DOMAIN files'[s] # {}]_vars

\* The newest point of a file, by what is on disk.
NewestOnDisk(s, id) == Max(PointsOf(files[s][id]))

\* The quota removes a segment only while the database is above the limit, and
\* no sealed segment of any series that stays is older than it.
EvictsOldest ==
  [][pc = "evict" /\ files' # files =>
       /\ DiskBytes > quota
       /\ faults = 0 =>
            \A s, z \in Series :
              \A id \in DOMAIN files[s] \ DOMAIN files'[s], other \in DOMAIN files'[z] :
                other # Max(DOMAIN files[z]) => NewestOnDisk(s, id) <= NewestOnDisk(z, other)]_vars

\* A cleanup that succeeds has brought the files of the database under the limit;
\* one that reports TSEDGE_ERR_QUOTA_EXCEEDED leaves them above it and no series
\* with a second segment file.
QuotaVerdict ==
  [][(pc \in {"measure", "reindex"} /\ bounds' = bounds) =>
       /\ pc' = "resume" => quota = 0 \/ DiskBytes <= quota
       /\ pc' \in {"idle", "closed"} => DiskBytes > quota
       /\ pc' \in {"idle", "closed"} /\ faults = 0 =>
            \A s \in Series : Cardinality(DOMAIN files[s]) <= 1]_vars

\* tsedge_delete_before unlinks the segments of its series whose points are all
\* older, and only those, also when points came out of order and were in the
\* buffer before.
RetentionExact ==
  [][pc = "expire" /\ faults = 0 =>
       /\ \A s \in Series : \A id \in DOMAIN files[s] \ DOMAIN files'[s] :
            s = target /\ \A t \in PointsOf(files[s][id]) : t < arg
       /\ pc' = "refresh" =>
            \A id \in DOMAIN files[target] : \E t \in PointsOf(files[target][id]) : t >= arg]_vars

\* wal.log brings no point back that a cleanup or tsedge_delete_before removed.
GoneNotReplayed == faults = 0 => \A s \in Series : gone[s] \intersect Range(wal[s]) = {}

\* The same without regard to failures, between two calls.
GoneStaysGone == pc = "idle" => \A s \in Series : gone[s] \intersect Range(wal[s]) = {}
=============================================================================
