# A TLA+ model of TSEdge

TSEdge is an embedded time-series store in C: a library that an application links, with
one database directory on disk, no server and no threads. This directory holds a model of
it in TLA+, the TLC configurations that check small instances of the model, and proofs
that the TLA+ proof system checks for instances of any size.

## The system

| Component | State | Operations | Modelled in |
|---|---|---|---|
| Database object, `src/core/db.c`, `src/api/tsedge.c` | the list of series, the durability mode, the WAL buffer, handles, quota flag | open, close, create, append, flush, delete, ... | `TsedgeStore`, `TsedgeSegments`, `TsedgeCatalog`, `TsedgeQuery` |
| Series buffer, `src/core/series.c` | `buffer`, at most `TSEDGE_BLOCK_MAX_POINTS` points | append, batch append, flush, recovered point | `TsedgeStore` |
| WAL, `src/storage/wal.c` | `wal.log`, `db->wal_buffer` | append, flush, truncate to buffers, replay | `TsedgeFiles`, `TsedgeStore` |
| Series deletion, `src/core/series_delete.c` | a directory of files | flush all, unlink, rmdir, unregister | `TsedgeStore`, `TsedgeCatalog` |
| Block and segment files, `src/storage/segment_*.c`, `block.c` | append-only files of compressed blocks | append, scan, read, aggregate | `TsedgeFiles`, `TsedgeStore`, `TsedgeQuery` |
| Segment rotation and block index, `src/core/series_index.c`, `src/storage/segment_rotation.c` | segment ids, the in-memory index | rotate, rebuild | `TsedgeSegments` |
| Retention and disk quota, `series_retention.c`, `db_quota.c` | segment files, `disk_quota_exceeded` | delete before a time, enforce | `TsedgeSegments` |
| Queries, `series_query.c`, `series_stats.c`, `series_list.c` | none of their own | range, aggregate, windows, statistics | `TsedgeQuery` |
| Codecs, `src/compression` | none | encode, decode | `TsedgeNumbers`, `TsedgeCodec` |
| Handles and the manifest, `db.c` | generation, cached index; `manifest.txt`, `metadata.txt` | get, resolve; rewrite | `TsedgeCatalog` |
| Verification, `verify.c` | none | report on a directory | `TsedgeCatalog` |
| CSV export, Python binding | none | clients of the range read | `TsedgeQuery`, in part |
| Examples, benchmarks, demos | none | clients of the API | not modelled |

How they interact. The application makes one call at a time and every call runs to its
end inside the library. An append goes through the WAL buffer (shared by all series) and,
in STRICT, `wal.log`, and then into the buffer of its series. A full buffer becomes a block
of the active segment file of the series; after that `wal.log` is emptied and rewritten from
the buffers of *all* series, because it is one file for the database. Open reads the
directories and the block headers and replays `wal.log` into the buffers.

What is hard. There are no threads, so there are no data races. What there is instead:

- the process can die between any two file operations, and `wal.log`, the segment files
  and the directory are updated by separate ones;
- any file operation can fail, and the call gives up in the middle with what it has done
  so far in memory and on disk;
- stdio writes can be cut short, so a file can end in a part of a record or block;
- one WAL buffer and one `wal.log` serve all series, so a call about one series changes
  what is true of another;
- long sequences of legal calls (delete, create again, reopen) meet old records;
- a range read calls the application back in the middle of its loops, and the application
  may append to the series being read;
- queries decide by an index in memory, read a header or a payload from a file, and the
  three can disagree.

What makes each component correct:

- WAL and buffers: a point reaches the WAL before the buffer; `wal.log` is truncated only
  when what it holds is in blocks or buffers; what a call promised is there after a restart;
- flush and replay: every accepted point is seen once and in order; a crash can duplicate
  but never reorder or invent; replay accepts what a crash leaves;
- deletion: a deleted series stays deleted;
- segments, retention, quota: only what was chosen is removed, the index agrees with the
  disk, the newest data stays, ids are not reused for live files;
- queries: every path (header only, decoded, buffered) gives what a scan of all points gives;
- handles: a handle reaches the series it was made for, or none;
- codecs: decode after encode is the identity;
- manifest and verification: the manifest lists the series there are; what verification
  accepts can be opened, and without losing anything but what no look at the files can tell
  (a record that a rewrite of `wal.log` cut short left out, a block cut short that later
  bytes fill exactly, hidden names); it accepts what no crash has hit.

## Modules

`TsedgeFiles` has the file formats as recovery sees them. A record of `wal.log` or a block
is a unit of *cells*, one for its header and one for each point; a write that is cut short
leaves an item with fewer cells than its size. `Intact` is the part before the first such
fragment, which is all that a sequential reader uses, `WalCorrupt` and `SegmentCorrupt` say
when the reader reports an error. A reader of the real file sees no item boundaries after
a fragment: it takes the following bytes as the rest of the fragment. `WalCorrupt` is about
that. If enough bytes follow to complete the fragment its checksum fails, if not the
fragment is once more the end of the file. A fragment without even a whole prefix counts as
corrupt as soon as anything follows it. That is a strict simplification: the code may take
bytes that complete the prefix for a length beyond the end of the file and end the replay
without an error.

`TsedgeStore` is the write path. Its variables are the directory (`dirs`, `wal`, `blocks`),
the `tsedge_db` object (`durability`, `registry`, `buffer`, `walbuf`), the call in progress
(`pc`, `op`, `target`, `rest`, `cursor`) and a history (`fate`, `crashes`, `faults`).

| Action | Code |
|---|---|
| `Open`, `ReplayRecord`, `ReplayPoints`, `ReplayEnds`, `OpenFails` | `tsedge_db_open_internal`, `tsedge_wal_replay`, `tsedge_series_add_recovered_point` |
| `CreateSeries`, `CreateFails` | `tsedge_db_create_series_internal`, `tsedge_series_init` |
| `StartAppend`, `Chunk`, `Log`, `Place`, `AppendDone` | `tsedge_append`, `tsedge_append_batch`, `tsedge_series_append_batch`, `wal_append_bytes` |
| `WalFlush` | `tsedge_wal_flush`, from its four callers: a full WAL buffer, STRICT, a series flush, a change of mode |
| `SetDurability` | `tsedge_set_durability` |
| `StartFlush`, `FlushSeries` | `tsedge_flush`, `tsedge_series_flush` |
| `StartFlushAll`, `NextSeries` | `tsedge_flush_all`, `tsedge_close`, `tsedge_delete_series`: the loop of `tsedge_db_flush_all` |
| `AppendBlock` | `tsedge_segment_append_block` and the reset of the buffer |
| `TruncateWal`, `RewriteWal`, `RewriteEnds` | `tsedge_wal_truncate_to_buffers`, one step for each buffer written back |
| `UnlinkSegment`, `RemoveDirectory` | `remove_directory_recursive`, `tsedge_db_delete_series` |
| `PartialWrite`, `Fault`, `Crash` | a write cut short, a failing file operation, the end of the process |

One step has at most one effect on the files, so that a crash or a failure can come between
any two effects. A single append is a batch of one: `append_point_internal` and the loop
body of `tsedge_series_append_batch` do the same things in the same order. The first of the
two checks for a full buffer in `append_point_internal` decides; the second, in
`add_point_to_buffer`, then finds room.

The n-th point handed to a series is the number n. `fate` records what was said about each
point: *pending* while its call runs, *accepted* when the call returned without promising
durability (or returned an error after the point was placed), *durable* when a STRICT
append, `tsedge_flush` or `tsedge_flush_all` returned `TSEDGE_OK` for it, *rejected* when
the call gave up before the point was in the buffer, *lost* when the process ended and the
point was not on disk, *deleted* when `tsedge_delete_series` removed it.

Abstractions. A block holds the buffer in one piece and a series has one segment file:
rotation moves later blocks to a file with a higher id and the readers go through the files
in the order of their ids, so for recovery the segments of a series are one sequence.
Values and timestamps do not influence the write path. `TSEDGE_WAL_MAX_BATCH_POINTS` equals
the largest buffer, so a chunk is one record. The quota is off (0, its initial value).
Memory allocation succeeds. `metadata.txt` and `manifest.txt` are never read back by the
library itself; that they may fail to be written is in `CreateFails`, `RemoveDirectory` and
`Fault`. A finished `fclose` counts as on disk, so a crash is the death of the process, not
a power loss. Bit rot is not modelled.

`TsedgeSegments` is what becomes of blocks. Its variables are the directory (`files`, the
segment files of each series with their blocks and size, and `wal`), the part of the
`tsedge_db` object that is about segments (`ids`, `active`, `path`, `index`) with `buffer`,
`quota` and `exceeded`, the call in progress (`pc`, `op`, `target`, `arg`, `cursor`, and
the locals `victims`, `size`, `touched`, `failed` of the cleanups) and a history (`used`,
`gone`, `crashes`, `faults`).

| Action | Code |
|---|---|
| `Open`, `Replay`, `ReplayEnds` | `load_existing_series`, `tsedge_wal_replay` with a flush of a buffer that is full |
| `StartAppend`, `Place` | `tsedge_append` |
| `StartFlush`, `StartWhole`, `Resume`, `NextSeries` | `tsedge_flush`, `tsedge_flush_all`, `tsedge_close`, `tsedge_delete_before`, `tsedge_enforce_disk_quota` |
| `WriteBlock` | `tsedge_series_flush`: rotation, the block, its index entry |
| `TruncateWal` | `tsedge_wal_truncate_to_buffers` |
| `Measure`, `Evict`, `EvictEnds`, `Judge` | `tsedge_db_enforce_disk_quota` |
| `Expire`, `ExpireEnds`, `Refreshed` | `tsedge_series_delete_before` after its flush |
| `Rebuild` | `tsedge_series_rebuild_index` |
| `WriteBlockFails`, `CallFails`, `ExpireFails`, `RebuildFails`, `Crash` | a failing file operation, each with what it leaves behind; the end of the process |

`active` and `path` are two variables because the code sets them in two places: a rebuild
that fails leaves the new id with the old path. An index entry has the newest timestamp of
its block; the oldest and the counts are for queries. The index and the victims are sets:
retention takes the segments in index order but treats them alike, so the model lets any of
them be next (a failure can then leave any part of them); the quota sorts its candidates,
which is `Before`. `BlocksInOrder` is about the order that the set leaves out.

Abstractions of `TsedgeSegments`. The durability mode is STRICT, so the WAL buffer is empty
between calls, and the records of a series are one unit of size each. A block's size is any
of `BlockSizes`. Truncation of `wal.log` and a block are whole or do not happen: what comes
of the parts is in `TsedgeStore`. The series are fixed, `tsedge_delete_series` is in
`TsedgeStore` and `TsedgeCatalog`. An open that fails leaves the database closed and the directory as it was,
which is no step here. A torn block and reads are in `TsedgeQuery`. `NamedIds` are the ids whose file name a scan recognises (six
digits); the runs let it hold all ids they reach.

`TsedgeContract` is the abstract store: what an application may rely on, with no logs, blocks
or buffers. A database is a set of points for each series; some of the contents are `stable`,
a crash leaves those and perhaps some points of the call it interrupts; a call returns with
promises for stable points only; opening and closing change nothing; deletion is final.
During a call the stable part may shrink (`Expose`), which is the window of finding 1; the
contract allows it because the code does it, and says that it is closed when the call
returns. `TsedgeStoreContract` has the refinement mapping. `contents` are the blocks and
buffers while the database is open, and what the next open will find while it is closed
(`OnDisk`); `stable` is the part of them that is on disk; `promised` are the points with the
fate *durable*, `gone` the deleted ones, `inflight` the points of the running append that
are not placed yet. The mapping holds as long as no file operation fails: findings 2 and 3
need a failure or a second crash in a torn file, and break it.

`TsedgeCodec` is the compression, byte by byte. A word has `WordBytes` bytes of `ByteBits`
bits, 8 of 8 in the code; all arithmetic on timestamps wraps around, as it does in the
build, where the C standard leaves a signed overflow open. A value is its bits. It follows
the two passes of the encoders, the first of which computes the size to allocate. Shifts and
masks are divisions and remainders by powers of two, and the exclusive or is computed from
the bits of the bytes, so that the prover can follow. The arithmetic of digits that this
rests on, `TwoTo`, `Split` and `Join`, is in `TsedgeNumbers`.

`TsedgeQuery` reads one series back. Its variables are the segment files with their blocks
(header and two compressed streams), the index, the buffer and the range read in progress,
and `torn`, what the streams of a block that a crash cut short decode to. That is an error
until later blocks are appended to the same file. Their bytes may then complete the streams
(`Completed`), and as a block has no checksum the decoders can make points of them that
nobody appended. `Garbage` bounds what these are; `NumbersIn` gives them the number 0, as
points of no append.

| Action or operator | Code |
|---|---|
| `AppendPoint`, `Flush`, `WriteBlock` | `tsedge_append`, `tsedge_flush`, from the application or from its callback; the block goes behind whatever the active file has |
| `StartRead`, `ReadBlock`, `DeliverDecoded`, `BlocksDone`, `ReadBuffer`, `BufferDone`, `EndRead` | `tsedge_read_range`, `tsedge_series_read_range`, `tsedge_segment_read_range_indexed`, `decode_block` |
| `CallbackContinues`, `CallbackStops` | what a callback returns: an application's, `csv_cb`, the one of the Python binding |
| `CrashInBlock`, `DeletionFails` | a block cut short that the next open lists, files unlinked that the index still lists |
| `Aggregate`, `AggregateBlocks`, `AggregateBlock`, `AggregateStored`, `AggregateDecoded` | `aggregate_series_state`, `tsedge_segment_aggregate`, `aggregate_partial_block` |
| `AggregateWindowed`, `WindowCount`, `FillWindows`, `WindowBlocks`, `WindowBlock`, `WindowStored`, `WindowDecoded` | `tsedge_series_aggregate_windowed`, `validate_window_range`, `decode_block_to_windows` |
| `Stats` | `tsedge_get_series_stats`, and the totals of `tsedge_list_series` |

The aggregates and statistics call nothing back, so they are operators, evaluated in every
state. The choice of the active segment is left open except that ids grow, rotation being
the subject of `TsedgeSegments`. A read remembers what it could have read when it began
(`due`), which is what `OkMeansEverything` compares its result with.

`TsedgeCatalog` has the series as directories, as entries of `db->series` and as the target
of handles, with the steps in which `metadata.txt` and `manifest.txt` are written, and
`Verified`, what `tsedge_verify` says of the files at any moment.

| Action or operator | Code |
|---|---|
| `Open`, `Replay`, `OpenFails`, `ReplayFails` | `load_existing_series`, `tsedge_wal_replay`, which creates the series of a record that has none |
| `EmptyManifest`, `WriteManifest` | `tsedge_db_rewrite_manifest`, at the end of open, create and delete |
| `MakeDirectory`, `EmptyMetadata`, `Register` | `tsedge_create_series` |
| `GetHandle`, `Resolve`, `AppendByHandle`, `AppendByName` | `tsedge_db_get_series_handle`, `tsedge_db_resolve_series_handle`, the append calls |
| `Flush`, `Rewritten` | `tsedge_flush` and the flush of a full buffer: `tsedge_series_flush`, `tsedge_wal_truncate_to_buffers` |
| `FlushAll`, `UnlinkMetadata`, `UnlinkSegment`, `RemoveDirectory` | `tsedge_flush_all`, `tsedge_close`, `tsedge_delete_series` |
| `BlockStops`, `RewriteStops`, `CutShort` | a flush that ends in a block or in the rewrite of `wal.log`, because the process dies or a write fails |
| `CrashInAppend`, `Crash`, `Fault` | the process dies inside a write or between two operations, a file operation fails |
| `VerifySegment`, `VerifySeries`, `VerifyWal`, `Verified` | `verify.c`, `tsedge_wal_verify_file` |

Every directory that is made gets a *birth* number and a point carries the birth of the
series it was meant for: that is how the properties tell a series from a later one of the
same name or at the same index. `owed` counts the points of a series that could be read
when the database was last open, and `exposed` are the series whose records a rewrite of
`wal.log` that was cut short has left out. The write path is put together: an append is
durable at once; a flush, of one series with the rewrite of `wal.log` for the others or of
all series, is one step, and two more are what it leaves when it is cut in a block or in the
rewrite. An append to a full buffer is a `Flush` and an append. Its own steps are in
`TsedgeStore`, and so are buffers that fill up in the replay and writes to `wal.log` that
fail in an append.

`MCStore` instantiates `TsedgeStore` for TLC and defines the symmetry of the series names.
No series is distinguished by the specification, and symmetry is used in safety runs only.
`MCSegments` instantiates `TsedgeSegments`, where the order of the series matters,
`MCCatalog` `TsedgeCatalog`, where a name is hidden or not, and `MCQuery` gives `TsedgeQuery`
its points, ranges and windows.

## Runs

Bounds: `Capacity` 1 or 2 points in a buffer. With 1, a batch of `MaxBatch = 2` is split and
an append flushes the full buffer while other series have records in `wal.log`
(`store_faults`); with 2, a buffer is written back in part and a crash can lose the newer of
two points (`store_crash`); `BufferLimit` of 4 and `BalancedLimit` of 2 cells, one record of
two points and less than one, so both thresholds are crossed and a record can be larger
than the threshold; 2 or 3 points per series, enough for a block, a buffer and a point on
its way; two series when one call must affect another. `Selected` are the modes the
application changes to; a database opens in STRICT. One crash or failure reaches every
place where one can happen; `store_faults` combines one of each in either order.

| Run | Instance | Shows |
|---|---|---|
| `store_crash` | 2 series, FAST and STRICT, 1 crash | `WalBeforeBuffer`, `LossIsSuffix`, `LossOnlyInRewrite`, `ExactlyOnceInOrder`, `ImplementsContract` |
| `store_faults` | 2 series, STRICT, 1 failure and 1 crash | `KeepsAcknowledged`, `DeletedStaysDeleted`, `CopiesBounded` |
| `store_live` | 1 series, all modes, 1 failure and 1 crash, writes cut short, fairness | `CallsReturn`, `TornTailAccepted`, `WalBufferBounded`, `DeletedStaysDeleted`, `CopiesBounded`, `TypeOK` |
| `catalog` | 2 names, one hidden, 3 births, 2 points, 1 crash, 1 failure | `HandleReachesItsSeries`, `OneHandlePerSeries`, `PointsStayHome`, `CleanVerifies`, `ManifestCurrent`, `VerifiedRecovers`, `TypeOK` |
| `query` | 4 points of 3 kinds, 1 garbage point, 2 segments, 1 damage | `LosslessBlocks`, `DamagedStreamsRejected`, `ReadOnceInOrder`, `OkMeansEverything`, `AggregateMatchesPoints`, `WindowsMatchPoints`, `StatsMatchPoints`, `TypeOK` |
| `rewrite_loss` | 2 series, STRICT, 1 crash | violation of `PromiseKept` |
| `torn_tail` | 1 series, STRICT, 2 crashes, writes cut short | violation of `WholeRecordsReplayed` |
| `rejected_append` | 1 series, STRICT, 1 failure, 1 crash | violation of `RejectedStaysOut` |
| `segments` | 2 series, no failures | `IndexMatchesDisk`, `BlocksInOrder`, `NewestFileKept`, `EvictsOldest`, `QuotaVerdict`, `RetentionExact` |
| `segments_faults` | 1 series, 1 failure and 1 crash | `OpenRepairs`, `SegmentBound`, `GoneNotReplayed`, `TypeOK` |
| `quota_last_segment` | 1 series, a block that is not written | violation of `LastSegmentKept` |
| `retention_replay` | 1 series, a truncation that fails | violation of `GoneStaysGone` |

In the runs of `TsedgeSegments` a buffer takes one point, blocks have the size 1 or 2 and a
segment 2: a segment gets one block or two, and the size is met exactly or passed. Three or
four points give three segments, one active and two that a cleanup can choose from; the
quota of 3 is met by removing one of them, by removing all that may go, or not at all; the
timestamps come in any order, and the cutoff 3 equals one of them. `MaxFaults` and
`MaxCrashes` are 1; `Failing` names the steps that may fail, one step alone in the runs
that show a violation.

In `catalog` three births of two names give a deletion and a re-creation while another
series stands behind the deleted one in `db->series`; two points are one in each series, so
that the rewrite of a flush has a record to lose; one crash and one failure, in either
order, let a file that one has cut short be appended to before the other.

In `query` words have five bytes of three bits, and `MaxInt` is 16383. The timestamps are
the smallest integer, 0 and `MaxInt - 8`, so that differences wrap around, come in any order
and repeat; the values differ in the two lowest bytes or in all, and one is a NaN. A buffer
takes three points, so that a delta of deltas is stored, and a fourth flushes it. Aggregates
and windows end at both ends of the integers and at a point. A window has the size 0, 1365,
1366 or 4096: at most 12 windows are allowed, the second size makes 13 of `MaxInt` and the
third 12, and the last of the windows from 0 to `MaxInt` would pass `MaxInt`. The range that
is read leaves out points of every block that has others. One garbage point, in that range
and with the timestamp of an appended one, is enough to tell it from them.

Deadlock is checked in every run: a closed database can be opened or refuse to open, an
idle one can be closed.

Fairness. `FairSpec` is weak fairness of `Continue`, the steps of a call once it has
started, and of `Break`, the end of a call whose write was cut short: it fails or its
process dies. A call is sequential code that nothing waits for, so it goes on as long as
the process runs. No new call is fair, and no crash or failure of a call that goes well.

What the checks found. Five statements of the documentation are not what the code does:

1. *Lost points in the WAL rewrite* (`rewrite_loss`). `tsedge_wal_truncate_to_buffers`
   opens `wal.log` with `"wb"` and then writes the buffers back. A crash (or a full disk)
   in between loses the buffered points of all series, also those that STRICT had promised
   to keep. `LossOnlyInRewrite` shows that with working file operations this is the only
   way a promise is broken.
2. *A torn tail stays in the file* (`torn_tail`). Replay ignores an incomplete record at
   the end of `wal.log`, as documented, but later records are appended behind it and are
   taken for the rest of it by the next replay. `TornTailAccepted` shows that one crash is
   harmless. A segment file with a short last block has the same problem, see below.
3. *A rejected append comes back* (`rejected_append`). A STRICT append puts its record in
   the WAL buffer, fails to write it and reports the error; the record stays in the buffer
   and reaches `wal.log` with the next flush.
4. *The quota removes the last segment* (`quota_last_segment`). A flush rotates, then fails
   to write its block, and the active id names no file. The cleanup spares the segment with
   the active id and removes all others. `NewestFileKept` shows that without failures the
   newest file always stays.
5. *Retention is undone by the replay* (`retention_replay`). A truncation fails after its
   block was written, so the buffer is empty and `wal.log` is not. `tsedge_delete_before`
   relies on its flush to rewrite `wal.log`, which a flush of an empty buffer does not do.
   `GoneNotReplayed` shows that without failures, crashes included, nothing comes back, and
   `RetentionExact` that what retention removes is right as long as nothing fails.

One more statement of a document is not what the code does, and has neither a run nor a
property: `docs/storage_format.md:156` says that `tsedge_flush` flushes the WAL buffer before
finishing, and it returns at once when the buffer of its series is empty. `TsedgeStore` has
that step (`FlushSeries`). The properties do not speak of it because they ask of a call what
its mode promises, and FAST and BALANCED promise nothing for the points of other series.

Things the models showed that are no statement of a document, and have no run:

- A rebuild of the index that fails half-way leaves an index without some blocks; if the
  next flush appends to such a segment, `tsedge_delete_before` takes its newest point to be
  that of the last block and can remove newer ones. `OpenRepairs` shows that an open
  rebuilds the index.
- A flush from the callback of a *buffered* point moves the rest of the buffer to a block
  that the read does not come back to: it ends with `TSEDGE_OK` and without those points.
  `OkMeansEverything` excludes just that, and shows that appends, flushes by a full buffer
  and flushes from the callback of a stored point are harmless.
- After a `tsedge_delete_series` that failed half-way the series still lists blocks of files
  that are gone. A later flush starts such a file anew, and its first block is then listed
  twice: it is read twice, or a stale offset makes the read fail.
- A block whose payload was cut short by a crash is accepted by the next open.
  `tsedge_read_range` then fails with `TSEDGE_ERR_IO`, while an aggregate or a window that
  covers the block takes its statistics from the header, besides the points that the replay
  brought back from `wal.log`.
- The next block is appended behind such a block, in the same file, and its bytes complete
  the payload. Nothing but the decoders checks a payload, so that a read, which failed
  before, may succeed and hand out points that nobody appended between those that were.
  `ReadOnceInOrder` shows that this is all that comes of it as long as the database stays
  open; a later open finds no block header behind the payload and fails, unless the bytes
  fill it exactly.
- `tsedge_verify` accepts a file whose block was cut short and then filled exactly, and an
  empty `wal.log` that a crash in its rewrite has left: the points that were in them are
  gone, and nothing in the files says so. `VerifiedRecovers` shows that, with the names it
  skips, these are the only points that what it accepts can lack.
- A failed write of the WAL buffer keeps the buffer, also when whole records of it reached
  `wal.log`, and the next flush writes all of it again. `wal.log` then has a record twice, and
  every crash before its truncation adds two copies of a point to what queries see; hence
  the factor `1 + retries` in `CopiesBounded`.
- An open that `wal.log` makes fail has replayed the intact records before that and may have
  written blocks with them. Each further attempt writes them again, without bound. That is
  no part of `CopiesBounded`, which is about databases that are open, and a database that
  refuses to open for its `wal.log` never is again.
- A segment file that does not exist is skipped by range reads and aggregates, and an error
  for windowed aggregates.
- With a NaN among the values, minimum and maximum depend on whether a header or the points
  were used; count and sum do not.
- When writing `manifest.txt` failed, a second `tsedge_create_series` returns `TSEDGE_OK`
  without writing it. A directory that a crash left without `metadata.txt` is a series for
  `tsedge_open`, is never repaired, and `tsedge_verify` reports the database as corrupt from
  then on. `tsedge_verify` also rejects the torn end of `wal.log` that an open accepts, and
  does not look at series whose names start with a dot.

Some properties depend on what they exclude. `LossIsSuffix` is checked without failing
operations: after a failed rewrite of `wal.log` new records follow the gap that it left.
`KeepsAcknowledged` is checked and proved for writes that are not cut short, see item 2.
`WalBeforeBuffer` leaves out the time of the rewrite, which is item 1. `TornTailAccepted` is
about one crash and no failure, item 2. `ManifestCurrent` is about databases no write of
the manifest has failed in, `CleanVerifies` about those that no crash and no failure has
hit in the middle of a call. `VerifiedRecovers` leaves the loss in a rewrite (`exposed`),
item 1, out of the points it counts, as well as files with a block cut short and hidden
names. `ReadOnceInOrder` allows points that nobody appended where a block was cut short and
completed, and leaves out files that were unlinked behind the index. The aggregate properties
leave out ranges that meet a damaged block (`Damaged`), whose answers are listed above.

## Proofs

| Module | What it proves | Of |
|---|---|---|
| `TsedgeSequences_proof` | lemmas: induction, concatenation, what `FlattenSeq`, `SumFunction`, `Min` and `Max` give, numbers as rows of digits (`TsedgeNumbers`) | any sequence, any function, digits of any width |
| `TsedgeFiles_proof` | lemmas: `Intact` is a prefix, its items are whole and the next one is not (`IntactIsPrefix`), what appending a record adds to the points and the cells of a log | any file |
| `TsedgeStore_proof` | `TypeOK`, `DeletedStaysDeleted`, `WalBufferBounded`, `TornTailAccepted` | every behaviour, torn writes and failures included |
| | `KeepsAcknowledged` | failures, whole writes |
| `TsedgeOrder_proof` | `WalBeforeBuffer`, `LossOnlyInRewrite`, `LossIsSuffix`, `ExactlyOnceInOrder`, `ImplementsContract` | crashes only |
| | `CopiesBounded` | every behaviour, torn writes and failures included |
| `TsedgeContract_proof` | `Promises` | the abstract store |
| `TsedgeSegments_proof` | all safety properties of the two runs | see below |
| `TsedgeCatalog_proof` | all safety properties of the run | every behaviour |
| `TsedgeQuery_proof` | the round trips of both codecs, streams that were cut | any width, any sequence |
| | `TypeOK`, `LosslessBlocks`, `DamagedStreamsRejected` | every behaviour |
| | `ReadOnceInOrder`, `OkMeansEverything`, `StatsMatchPoints`, `AggregateMatchesPoints`, `WindowsMatchPoints` | every behaviour, with the exceptions they name |

Every theorem is about all values of the constants that the assumptions of its module admit:
any finite set of series or names, any capacity and limits, any number of points, births,
crashes and (where it does not say otherwise) failures. Each invariant below was checked by
TLC on the runs' instances before it was proved.

### The write path

- `TypeCorrect`: that no buffer ever exceeds its capacity is the part with content. `TypeOK`
  is not inductive, because the steps of a call rely on how it started; `CallOK` adds which
  calls have which labels. `PathInv` adds how far the loop of a flush of all series has come
  and that the buffers before its cursor are empty.
- `DeletedStay`: `GoneInv` says that a point that is anywhere (`Anywhere`: files, WAL buffer,
  buffers, the rest of the batch) was not deleted. It needs `PathInv`: a deletion reaches
  `UnlinkSegment` only after its flush has emptied every buffer, and the truncation after it
  every log.
- `WalBufferStaysBounded`: `BoundInv` adds that at the label `log` the WAL buffer is empty or
  has room for the record that comes next, which is why `wal_append_bytes` flushes first.
- `OneCrashIsAccepted`: `TornInv` says that before the first crash or failure `wal.log` has a
  fragment only while the write that was cut short is still running, and that from the crash
  to the end of the next open a fragment is the last item of the file.
- `TruncationKeepsAcknowledged`, for `TornWrites = FALSE`: the step that could go wrong is
  `TruncateWal`. `KeepInv` says why it does not: between calls every acknowledged point that
  is in `wal.log` or the WAL buffer is also in a block or buffer (`Covered`); during an
  append the points that are logged and not yet placed are pending (`RestPending`,
  `PendingHeld`), hence not acknowledged; during open, when the buffers have just been
  forgotten and `Covered` is false, the replayed records are held and those not yet replayed
  are still in `wal.log` (`ReplayHeld`), and nothing truncates it before the replay ends.
  `Unbroken` says that no file has a fragment.

The theorems of `TsedgeOrder_proof` but the last, `CopiesStayBounded`, assume `NoFaults`, that is `TornWrites = FALSE` and
`MaxFaults = 0`, as the run `store_crash` has it. They do not hold otherwise: findings 2 and
3 are the counterexamples.

- `BuffersAreLogged` and `DurableLostOnlyInRewrite` come from `LiveInv`: every point that is
  anywhere is live (pending, accepted or durable), and every live point is where the next
  step looks for it, in a block, a buffer or the rest of the batch while the database is
  open, in `wal.log` or a block when it is closed. Outside the rewrite what a buffer has is
  logged (`BufLogged`); inside it, the series before the cursor are written back
  (`Rewritten`); while a chunk is placed its record is in the log (`ChunkLogged`); durable
  points are on disk except inside the rewrite (`DurableOnDisk`).
- `OnlyNewestAreLost` needs the order as well. `OrderInv`: the points of a series ascend in
  its buffer and in every log, the WAL buffer has only points newer than those in the files
  (`WbNewest`), the rest of a batch only points newer than everything (`RestNewer`), and in
  the rewrite the registry lists a series once, so that no series is written back twice.
- `SeenExactlyOnce`: until the first crash (`FirstRun`) every open finds `wal.log` empty,
  because `tsedge_close` leaves it so; what a query sees, blocks and then the buffer, ascends
  then, and by `LiveWhere` nothing is missing. After a crash a point can be in both.
- `KeepsContract`: `Spec => ImplementsContract`. `Views` gives the state of the contract in
  terms of the model: the contents are what the open database holds or what the files of a
  closed one have, which are the same before and after an open because replay brings back
  what `LiveInv` says is in `wal.log`. Then there is one lemma for each action of the
  contract, from what changes of blocks, buffers and fates: placing a point is its `Admit`,
  writing the WAL buffer, a block or a buffer back to disk its `Save`, emptying `wal.log` its
  `Expose`, the end of a call its `Return` or `Close`, the removal of a directory its
  `Delete`, the steps of open before the last one and those within a call stutters. Without the
  invariants the mapping is wrong in both directions: `stable` would grow at a rewrite that
  wrote back too much, and a crash would lose points that the contract calls stable.
- `CopiesStayBounded` holds in every behaviour. `CountInv` says how many copies of a point a
  series can have: `w` writes of the WAL buffer have stopped half-way after whole records,
  so `wal.log` and the WAL buffer hold a point `r = 1 + w` times at most, and one crash or
  other failure adds `r` copies at most to the `m` that blocks and buffer may hold, which
  gives `m = (1 + w) * (1 + crashes + faults - w)`. At each label the invariant says which places
  share these `m`: while the database runs, blocks and buffer (`Running`); during a replay,
  also the points not yet placed and the records not yet replayed (`Replaying`); after a
  crash, the blocks and `wal.log` (`Closed`); in a call whose write was cut short, one of the
  two bounds has been broken already by the failure that is about to be counted (`Stopped`).
  A flush only moves a point from a buffer to
  a block; the points of an append are nowhere before it (`FreshCounts`, by `GoneInv`);
  a rewrite of `wal.log` starts from an empty one and writes each buffer once, because the
  registry lists a series once (`RewriteCounts`, `Distinct`).

### Segments, retention and quota

- `TypeCorrect`: `ShapeInv`, whatever fails. It has the types of the locals of a cleanup as
  well and which call runs at which label (`CallInv`), which bounds the buffer in a replay.
- `SegmentsInOrder`: `SegInv` says that `Good` holds as long as no file operation has
  failed; crashes and reopenings are no failures in this sense, and they are covered in any
  number and at every step. After a failure the properties really do break (three of the
  findings). The parts of `Good` and why each is needed:
  - `FilesInv`: every file has a block, no block is empty, offsets are inside the file, and
    the size is what rotation allows. A segment therefore has a newest point, and a block
    appended gets a larger offset than all before it.
  - `ObjectInv`: the index is what a scan of the files gives, and no id is larger than the
    active one. It leaves out the series in `touched`: between an unlink and the rebuild
    the index names files that are gone, and nothing may be decided from it then.
    `TouchedInv` says that only a cleanup makes such series and that it repairs them.
  - `VictimsInv`: `evict` and `expire` unlink from a set picked at an earlier step. For the
    quota it has no active segment; for retention it is exact with respect to the files at
    every step of the loop, although it was computed from the index before the loop.
- From it follow `IndexInStep`, `SegmentsBounded`, `NewestSegmentKept` (what may go is not
  active, and the active segment is on the disk whenever the series has any file),
  `BlocksAppended` and `RetentionIsExact`.
- `OpeningRepairs`: `OpenInv`, the index agrees with the files through the whole open, also
  when it flushes a full buffer. It assumes nothing about earlier failures: the first step of
  an open scans everything.
- `OldestIsEvicted` and `VerdictIsRight`: `CleanupInv` says that the size a cleanup counts
  down is the size on disk (`Counted`, a sum over series and segments; unlinking a file takes
  its term out) and that its candidates are files that exist with the sizes it noted;
  `VerdictInv`, without failures, that the candidates are *all* files that are not active,
  with their newest points, so that none is left over when the loop ends above the limit.
- `RemovedNotReplayed`: `FreshInv` says that a point being appended was never used before;
  `LogInv`, without failures, that `wal.log` fits in the buffers, has no point that is gone
  (`LogKept`), and is equal to the buffers except in a flush and in a replay (`InSync`). A
  cleanup starts with a flush, so at its first unlink `wal.log` is empty.

`NamedIds = Nat \ {0}`, which the theorems about files and index assume, says that a scan
reads every segment id back from its file name. The code prints ids with at least six digits
and reads back exactly six, so the theorems speak of databases that have not reached segment
1000000 in a series; the runs say the same with the finite set of all ids they reach.
`TypeCorrect` and `RemovedNotReplayed` do not need it.

### Series and handles

- `HandlesReach` and `OneHandle`. The invariant `CatalogInv` has the types (`TypeInv`), which
  series a running call is about (`CallInv`), that births grow and belong to one directory
  (`OwnerInv`), that the entries of `db->series` have different names, generations and
  births, generations being numbers the counter has passed (`SeriesInv`), and that a handle
  and an entry have the same generation exactly if they have the same birth, and then the
  same name (`HandlesInv`). The last is what makes the test of the generation at a cached
  index enough, although the code does not compare names there. It would fail if
  generations were reused, as indexes are.
- The other theorems need `KeptInv`, which adds where the points are: only in series that
  have a directory (`DataInv`, `PlaceInv`), each with the birth of the directory it is under
  (`HomeInv`, which gives `StayHome`); that fragments, empty segment files and missing or
  empty `metadata.txt` and `manifest.txt` come from a call that was interrupted or is still
  running (`CleanInv`, which gives `CleanIsVerified`);
  that without a failure `manifest.txt` lists the series outside the calls that rewrite it
  (`ListInv`, which gives `ManifestIsCurrent`); and that what the application is owed is in
  the files, or in a buffer (`OwedInv`, which gives `AcceptedRecovers`). `OwedInv` has three
  parts, as a flush moves points from `wal.log` to a block and can stop in either: in an open
  database a file without a fragment and the buffer make up what is owed; the buffer is in
  `wal.log` unless the series is `exposed`; and in a closed one both files make it up under
  both conditions. `CountInv` bounds births and with them
  the indices that handles cache.

### Codecs and blocks

The codecs are proved for every width of bytes and words that the assumption admits, 8 of 8
among them, and for every sequence; TLC runs them with five bytes of three bits. The
assumption asks besides that a marker and the two byte counts of a value fit in a byte, and
that `Corrupt`, the error, is none of the results.

- Bytes, groups of seven bits and bits are all rows of digits: `Split` takes a number apart
  and `Join` puts it together, which are inverse to each other (`JoinSplit`, `SplitJoin`).
  The exclusive or is the sum of bits without a carry, and doing it twice undoes it
  (`XorTwice`).
- `VarintShape`: the varint of a number ends at its first byte without the continuation bit
  and its groups make the number, so that a reader finds the end and the number wherever the
  varint stands in a stream. `Zigzag` and the wrap-around sums (`Int64Sum`) undo the rest.
- `TimestampsLossless` and `ValuesLossless`: the stream is the head and one piece for each
  further element, and every piece has its place in it (`Pieces`, `Streams`). By induction
  over the elements the decoder is at the place of the next piece and has put out the
  elements before it. The lengths of the pieces add up to what the first pass counts.
- `TimestampsCut` and `ValuesCut`: on two streams of which one is a prefix of the other the
  decoder of the shorter one is in the same state as that of the longer one, or has failed;
  as each must end at its own end, one at most succeeds.
- `CompressionLossless` and `DamageRejected` are these four results in every state. The
  invariant is that a block is what the writer made of points that were appended, up to the
  mark that its payload is whole (`BlockOk`). Points are appended later, but the ones with
  the block's numbers stay the same (`BlockKept`).
- `TypeCorrect`: needs that offsets are numbers and the bounds in a header are timestamps of
  its points.

### Reads, statistics and aggregates

A read goes by the index alone: an entry has a segment and an offset, and nothing in it says
that a block starts there. `ReadsOnceInOrder`, `OkIsEverything`, `StatsAreRight`,
`AggregatesAreRight` and `WindowsAreRight` rest on what index, files and buffer have to do
with each other.

- A block takes at least one byte, so that later blocks start later and one offset belongs to
  one block (`OffsetUnique`); what is appended to a file moves nothing (`OffsetSame`). An
  entry that is `Placed` therefore leads to its block, and goes on doing so.
- `WriteInv` is what the steps that write keep: every block has an entry (`AllListed`), its
  numbers and those of the buffer ascend; as long as no file was unlinked behind the index
  every entry has a block, the entries of whole blocks stand in the order of the appends, and
  the buffer is behind them all (`OrderInv`); without a damage all blocks are whole. A crash
  in a block leaves an entry of a block that is not whole, whose points are in the buffer
  again: without the condition on whole blocks the order would not be inductive.
- `ReadInv` says of the read in progress what a look at its result cannot: what was due is
  delivered, decoded and waiting, or still ahead of the place of its loop (`DueOk`), and
  these three follow each other in the order of the appends (`AheadOk`). A callback can
  append, and flush, while the loop runs over the entries or over the buffer. `StillRight`
  is what the read needs of such a step: what is no longer ahead is no longer due, and what
  comes to be ahead is new. A flush in the loop over the entries puts its entry where the
  loop still comes to; one in the loop over the buffer takes the rest of the buffer out of
  its reach, and is the exception that `OkMeansEverything` names (`ReadAfterFlush`).
- A point that is due is not passed over with its block, as the bounds of an entry hold the
  timestamps of its block (`HeaderBounds`); a block that is not whole, or has no file, ends
  the read with an error, or gives points without a number once it was completed
  (`ForeignItems`). These are due to nobody and leave the order of the others alone: `ReadInv`
  is about the items with a number, and says of the rest (`Right`) that they came from a block
  cut short. A callback that flushes can complete the block while the read is running
  (`TornKept`, `ForeignRight`).
- `StatsAreRight`: the lengths of the blocks add up to the counts in the entries, and the
  least and the greatest bound are the bounds of all timestamps because every bound is itself
  a timestamp (`SameBounds`).
- `AggregatesAreRight`: `Tells(acc, numbers)` says that an accumulator has the count, the
  sum and the extremes that a loop over these points gives; a NaN in a sum stays, and makes
  the extremes depend on where it stood, which is why the property leaves them open then. It
  is kept by one more point, and by the statistics of a block that are added as one value
  (`TellsBoth`). By induction over the entries the loop has told of the points of the range
  that the entries so far list (`BlocksTell`). A header stands for its block because its
  bounds hold all timestamps of it. An entry that misses the range is passed over, and must
  lead to no point in it: it may be the wrong entry for the block that is at its offset, left
  by a deletion that failed and then overtaken by a new file of the same name. `AllListed`
  says that this block has an entry of its own, and if that one met the range the block would
  be listed twice, and the range damaged (`MissedBlock`).
- `WindowsAreRight`: `TheWindow` says that a timestamp inside the range lies between the ends
  of the window with its index and of no other, and one outside of the range in none; it is
  about quotients and needs that the range is at most `MaxInt` long, which the count has
  checked. Two bounds in one window have every timestamp between them in that window
  (`SameWindowHolds`), so that a header may be booked as a whole. `Windowed` is `Tells` for
  every window, and kept in the same way; a window is given out if its count is not 0.
  `CountIs` and `SpanIs` compare the number and the ends of the windows, computed in
  `int64_t`, with those of the property, computed in the integers.

### The abstract store

`PromisesHold`: between calls promised points are stable and nothing deleted is among the
contents. `Promises` alone is not inductive: the invariant adds that the stable points are
among the contents, that nothing runs while the database is closed, and that what a call
still has to bring is not gone.

### Induction over data

The theorem libraries state induction for operators, which the provers cannot instantiate.
The proofs state it for sets of numbers instead: a set of natural numbers that has 0 and is
closed under successor is `Nat`, which follows from the well-ordering of `Nat`. With it are
proved that the recursive definitions (`FlattenSeq`, `Cells`, `SumFunction`) have the
solution they describe and what they give for an appended, removed or changed element.

### Only model-checked

Liveness (`CallsReturn`), which needs fairness: that every call returns is shown by the run
`store_live` for its instance alone. The properties of the runs that expect a violation are
refuted there and have no theorem. Every other property of a run has one.

## Plan

Done: the write path and recovery, segments with retention and quota, the abstract store and
its refinement, handles, manifest and verification, the codecs and the queries; proofs of all
safety properties of the first four, of the codecs and of the queries. Left:

1. `tsedge_delete_series` in `TsedgeSegments`, with its refusal to make a full database
   smaller.

## Not modelled

- Power loss. `fclose` counts as on disk; `TSEDGE_WAL_FSYNC` forces `wal.log` and nothing else.
- Out of memory. Each allocation failure ends its call like a failing file operation; the one
  place with an effect of its own, between a block and its index entry, acts on the disk like
  a failing truncation.
- Floating point: a sum is taken as exact, so that adding block sums and adding points agree.
- Segment ids from 1000000 on, which no scan of a directory reads back, and the wrap of the
  32-bit id.
- `tsedge_delete_series` with a quota: it fails with `TSEDGE_ERR_QUOTA_EXCEEDED` when its flush
  leaves the database above the limit.
- Callbacks that create or delete a series. Both may move the array that the running read
  points into; what happens then is undefined.
- Bit rot, v2 records of `wal.log`, files that do not come from the library.
- Examples, benchmarks, demos and the methods of the Python binding that forward one call:
  clients of the API without state that the engine depends on.
