---------------------------- MODULE TsedgeQuery ----------------------------
(***************************************************************************)
(* Reading one series back: range reads with their callback, aggregates,   *)
(* windowed aggregates and statistics, over the segment files, the block   *)
(* index and the buffer.                                                   *)
(*                                                                         *)
(* A block is stored as the writer leaves it: a header with its own        *)
(* statistics, and two compressed streams.  Each query picks the blocks by *)
(* the index entries in memory, reads the header at the entry's offset in  *)
(* the file and then trusts the header or decodes the streams.             *)
(*                                                                         *)
(* The n-th point appended is known by its number n; blocks and buffer     *)
(* remember the numbers, so that a point read twice can be told from two   *)
(* equal points.  Number 0 is for what no append wrote: the points that the *)
(* block a crash cut short decodes to once later blocks have completed it.  *)
(***************************************************************************)
EXTENDS TsedgeCodec

CONSTANTS
  Points,       \* bound: the points the application appends, as <<timestamp, value>>
  NaN,          \* what a NaN is as a number
  NaNBits,      \* the value that is a NaN
  Capacity,     \* TSEDGE_BLOCK_MAX_POINTS
  HeaderSize,   \* TSEDGE_BLOCK_HEADER_SIZE, in bytes
  MaxWindows,   \* TSEDGE_MAX_WINDOW_AGGREGATES
  MaxPoints,    \* bound: points ever appended
  Garbage,      \* bound: the points that a block completed by other bytes decodes to
  MaxSegments,  \* bound: segment files
  Damages,      \* bound: what goes wrong, once in a behaviour at most
  ReadRanges,   \* bound: the ranges that are read with a callback
  Bounds,       \* bound: the ends of the ranges that are aggregated
  WindowSizes   \* bound: the window sizes

ASSUME QueryAssumption ==
  /\ Points \subseteq (MinInt..MaxInt) \X (0..Modulus - 1)
  /\ Garbage \subseteq (MinInt..MaxInt) \X (0..Modulus - 1)
  /\ Capacity \in Nat \ {0}
  /\ HeaderSize \in Nat \ {0}
  /\ MaxWindows \in Nat \ {0}
  /\ MaxSegments \in Nat \ {0}
  /\ Bounds \subseteq MinInt..MaxInt
  /\ ReadRanges \subseteq (MinInt..MaxInt) \X (MinInt..MaxInt)
  /\ WindowSizes \subseteq 0..MaxInt
  /\ NaN \notin Int

VARIABLES
  history,  \* the points appended so far
  files,    \* per segment id, the blocks of its file; <<>> when there is no file
  index,    \* series->block_index
  active,   \* series->active_segment_id
  buffer,   \* series->buffer, as numbers of points
  read,     \* the range read in progress
  damage,   \* what has gone wrong: "none", "torn" or "unlinked"
  torn      \* what the streams of the block that was cut short decode to

store == <<history, files, index, active, buffer, damage, torn>>
vars  == <<store, read>>

Segments == 1..MaxSegments

NoRead == [phase |-> "none"]

Init ==
  /\ history = <<>>
  /\ files = [id \in Segments |-> <<>>]
  /\ index = <<>>
  /\ active = 1
  /\ buffer = <<>>
  /\ read = NoRead
  /\ damage = "none"
  /\ torn = Corrupt

Timestamp(n) == history[n][1]
Value(n) == history[n][2]

-----------------------------------------------------------------------------
(* Values as numbers: every comparison with a NaN is false *)

Number(value) == IF value = NaNBits THEN NaN ELSE Signed(value)

Less(a, b) == a # NaN /\ b # NaN /\ a < b

Plus(a, b) == IF a = NaN \/ b = NaN THEN NaN ELSE a + b

\* An accumulator, and the one that has seen nothing.
Zero == [count |-> 0, min |-> 0, max |-> 0, sum |-> 0]

\* One more value, or the statistics of one more block.
Combine(acc, more) ==
  LET base == IF acc.count = 0 THEN [acc EXCEPT !.min = more.min, !.max = more.max] ELSE acc
  IN [count |-> acc.count + more.count,
      min   |-> IF Less(more.min, base.min) THEN more.min ELSE base.min,
      max   |-> IF Less(base.max, more.max) THEN more.max ELSE base.max,
      sum   |-> Plus(acc.sum, more.sum)]

Single(value) ==
  [count |-> 1, min |-> Number(value), max |-> Number(value), sum |-> Number(value)]

-----------------------------------------------------------------------------
(* Blocks *)

Statistics(pts) ==
  LET upTo[n \in 0..Len(pts)] ==
        IF n = 0 THEN Zero ELSE Combine(upTo[n - 1], Single(pts[n][2]))
  IN upTo[Len(pts)]

\* Faulty variant: the timestamp bounds are those of the first and the last point.
HeaderSorted(pts) ==
  [min |-> pts[1][1], max |-> pts[Len(pts)][1], count |-> Len(pts), stats |-> Statistics(pts)]

\* make_header: the bounds of the timestamps and the statistics of the values.
Header(pts) ==
  LET times == {pts[i][1] : i \in DOMAIN pts}
  IN [min |-> Min(times), max |-> Max(times), count |-> Len(pts), stats |-> Statistics(pts)]

\* tsedge_segment_append_block: what it writes for the points with these numbers.
BlockOf(numbers) ==
  LET pts == [i \in DOMAIN numbers |-> history[numbers[i]]]
  IN [header     |-> Header(pts),
      timestamps |-> CompressTimestamps([i \in DOMAIN pts |-> pts[i][1]]),
      values     |-> CompressValues([i \in DOMAIN pts |-> pts[i][2]]),
      whole      |-> TRUE,
      numbers    |-> numbers]

BlockSize(block) == HeaderSize + Len(block.timestamps) + Len(block.values)

\* Where block k of a segment file starts.
Offset(file, k) == SumFunction([j \in 1..k - 1 |-> BlockSize(file[j])])

\* Faulty variant: every block is taken to start at the start of its file.
EntryAtStart(id, offset, header) ==
  [segment |-> id, offset |-> 0, min |-> header.min, max |-> header.max,
   count |-> header.count]

\* fill_index_entry
Entry(id, offset, header) ==
  [segment |-> id, offset |-> offset, min |-> header.min, max |-> header.max,
   count |-> header.count]

\* Where in its file the block of an index entry is.
Found(entry) ==
  LET file == files[entry.segment] IN {k \in DOMAIN file : Offset(file, k) = entry.offset}

HasBlock(entry) == Found(entry) # {}

\* The block that tsedge_block_read_header finds for an index entry.
BlockAt(entry) == files[entry.segment][CHOOSE k \in Found(entry) : TRUE]

NoFile(entry) == files[entry.segment] = <<>>

Pairs(times, values) ==
  IF times = Corrupt \/ values = Corrupt THEN Corrupt
  ELSE [i \in DOMAIN times |-> <<times[i], values[i]>>]

\* tsedge_block_read_payload and the two decoders.
Decode(block) ==
  IF ~block.whole THEN torn
  ELSE Pairs(DecompressTimestamps(block.timestamps, block.header.count),
             DecompressValues(block.values, block.header.count))

\* The numbers of the points that a block decodes to.
NumbersIn(block) ==
  IF block.whole THEN block.numbers ELSE [i \in DOMAIN Decode(block) |-> 0]

Intersects(entry, from, to) == entry.max >= from /\ entry.min <= to

Covered(header, from, to) == header.min >= from /\ header.max <= to

-----------------------------------------------------------------------------
(* The writer, as far as reading needs it *)

\* The bytes that the block of a file that was cut short lacks are those of the
\* block written behind it (fopen with "ab").  They may still be too few, or no
\* stream of that many points; nothing else tells them from its own bytes.
Completed(file) ==
  UNION {[1..file[k].header.count -> Garbage] : k \in {j \in DOMAIN file : ~file[j].whole}}

\* tsedge_series_flush: the block goes behind the last one of the active file,
\* or into a new file when tsedge_segment_rotate_if_needed says so.
WriteBlock(numbers, whole) ==
  /\ active' \in {id \in Segments : id = active \/ (id = active + 1 /\ files[active] # <<>>)}
  /\ torn' \in {torn} \union IF torn = Corrupt THEN Completed(files[active']) ELSE {}
  /\ files' = [files EXCEPT ![active'] = Append(@, [BlockOf(numbers) EXCEPT !.whole = whole])]
  /\ LET file == files'[active']
     IN index' = Append(index, Entry(active', Offset(file, Len(file)), Last(file).header))

\* A callback of an application may call the library again.
MayCall == read.phase = "none" \/ (read.phase = "callback" /\ read.client = "app")

\* A flush from a callback of the loop over the buffer: what is behind the point
\* just delivered moves to a block that this read does not come back to.
ReadAfterFlush ==
  IF read.phase = "callback" /\ read.loop = "buffer"
    THEN [read EXCEPT !.due = {n \in @ : n <= Last(read.delivered).number}]
    ELSE read

\* Faulty variant: the buffer is taken as full one point too late.
BufferFullLate == Len(buffer) > Capacity

BufferFull == Len(buffer) >= Capacity

\* tsedge_append: a full buffer is flushed first.
AppendPoint(point) ==
  /\ MayCall
  /\ Len(history) < MaxPoints
  /\ history' = Append(history, point)
  /\ IF BufferFull
       THEN /\ WriteBlock(buffer, TRUE)
            /\ buffer' = <<Len(history) + 1>>
            /\ read' = ReadAfterFlush
       ELSE /\ buffer' = Append(buffer, Len(history) + 1)
            /\ UNCHANGED <<files, index, active, torn, read>>
  /\ UNCHANGED damage

Flush ==
  /\ MayCall
  /\ buffer # <<>>
  /\ WriteBlock(buffer, TRUE)
  /\ buffer' = <<>>
  /\ read' = ReadAfterFlush
  /\ UNCHANGED <<history, damage>>

\* A crash inside the payload of a block: the next open takes the block into the
\* index (its header is whole), and wal.log brings the points back to the buffer.
CrashInBlock ==
  /\ read.phase = "none"
  /\ buffer # <<>>
  /\ damage = "none" /\ damage' = "torn" /\ damage' \in Damages
  /\ WriteBlock(buffer, FALSE)
  /\ UNCHANGED <<history, buffer, read>>

\* Files are unlinked and the call fails before it comes to the index:
\* tsedge_delete_series, after its flush, or a quota cleanup.
DeletionFails ==
  /\ read.phase = "none"
  /\ buffer = <<>>
  /\ damage = "none" /\ damage' = "unlinked" /\ damage' \in Damages
  /\ \E ids \in SUBSET {id \in Segments : files[id] # <<>>} \ {{}} :
       files' = [id \in Segments |-> IF id \in ids THEN <<>> ELSE files[id]]
  /\ UNCHANGED <<history, index, active, buffer, torn, read>>

-----------------------------------------------------------------------------
(* tsedge_read_range *)

\* The points a query can find: those of whole blocks of files that exist, in the
\* order of the index, and the buffer.
Readable ==
  LET numbersOf(entry) ==
        IF HasBlock(entry) /\ BlockAt(entry).whole THEN BlockAt(entry).numbers ELSE <<>>
  IN FlattenSeq([i \in DOMAIN index |-> numbersOf(index[i])]) \o buffer

\* The places of the timestamps that are in the range.
Hits(times, from, to) ==
  LET upTo[n \in 0..Len(times)] ==
        IF n = 0 THEN <<>>
        ELSE IF times[n] >= from /\ times[n] <= to THEN Append(upTo[n - 1], n)
        ELSE upTo[n - 1]
  IN upTo[Len(times)]

InRange(numbers, from, to) ==
  LET hits == Hits([i \in DOMAIN numbers |-> Timestamp(numbers[i])], from, to)
  IN [k \in DOMAIN hits |-> numbers[hits[k]]]

\* An application's callback, or one that collects: csv_cb, and the callback of
\* the Python binding.
Clients == {"app", "collect"}

StartRead(client, from, to) ==
  /\ read.phase = "none"
  /\ read' = [phase |-> "loop", loop |-> "blocks", client |-> client, from |-> from, to |-> to,
              next |-> 1, pending |-> <<>>, delivered |-> <<>>, stopped |-> FALSE,
              result |-> "ok", due |-> Range(InRange(Readable, from, to))]
  /\ UNCHANGED store

\* The points of a decoded block that are in the range.
Matching(numbers, decoded) ==
  LET hits == Hits([i \in DOMAIN decoded |-> decoded[i][1]], read.from, read.to)
  IN [k \in DOMAIN hits |-> [number |-> numbers[hits[k]], point |-> decoded[hits[k]]]]

ReadFails == [read EXCEPT !.phase = "done", !.result = "error"]

ReadDecoded(numbers, decoded) ==
  IF decoded = Corrupt THEN ReadFails
  ELSE [read EXCEPT !.next = @ + 1, !.pending = Matching(numbers, decoded)]

ReadStored(entry) ==
  IF HasBlock(entry) THEN ReadDecoded(NumbersIn(BlockAt(entry)), Decode(BlockAt(entry)))
  ELSE ReadFails

InLoop(loop) == read.phase = "loop" /\ read.loop = loop

\* The next index entry: skipped when its bounds miss the range or its file does
\* not exist, an error when there is no block at its offset or its payload ends
\* early, and decoded as a whole otherwise.
ReadBlock ==
  /\ InLoop("blocks") /\ read.pending = <<>> /\ read.next <= Len(index)
  /\ LET entry == index[read.next] IN
       IF ~Intersects(entry, read.from, read.to) \/ NoFile(entry)
         THEN read' = [read EXCEPT !.next = @ + 1]
         ELSE read' = ReadStored(entry)
  /\ UNCHANGED store

Deliver(point) ==
  read' = [read EXCEPT !.phase = "callback", !.next = IF read.loop = "buffer" THEN @ + 1 ELSE @,
                       !.pending = IF @ = <<>> THEN @ ELSE Tail(@),
                       !.delivered = Append(@, point)]

DeliverDecoded ==
  /\ InLoop("blocks") /\ read.pending # <<>>
  /\ Deliver(Head(read.pending))
  /\ UNCHANGED store

BlocksDone ==
  /\ InLoop("blocks") /\ read.pending = <<>> /\ read.next > Len(index)
  /\ read' = [read EXCEPT !.loop = "buffer", !.next = 1]
  /\ UNCHANGED store

\* The loop over the buffer looks at buffer_count anew for every point.
ReadBuffer ==
  /\ InLoop("buffer") /\ read.next <= Len(buffer)
  /\ LET n == buffer[read.next] IN
       IF Timestamp(n) >= read.from /\ Timestamp(n) <= read.to
         THEN Deliver([number |-> n, point |-> history[n]])
         ELSE read' = [read EXCEPT !.next = @ + 1]
  /\ UNCHANGED store

BufferDone ==
  /\ InLoop("buffer") /\ read.next > Len(buffer)
  /\ read' = [read EXCEPT !.phase = "done"]
  /\ UNCHANGED store

CallbackContinues ==
  /\ read.phase = "callback"
  /\ read' = [read EXCEPT !.phase = "loop"]
  /\ UNCHANGED store

\* Faulty variant: the error of the callback is forgotten.
CallbackStopsQuietly ==
  /\ read.phase = "callback"
  /\ read' = [read EXCEPT !.phase = "done", !.stopped = TRUE]
  /\ UNCHANGED store

\* The callback returns non-zero, and tsedge_read_range returns TSEDGE_OK.  A
\* client that collects does so after an error only (fprintf fails, or an
\* exception), keeps the error aside and reports it in place of TSEDGE_OK.
CallbackStops ==
  /\ read.phase = "callback"
  /\ read' = [read EXCEPT !.phase = "done", !.stopped = TRUE,
                          !.result = IF read.client = "collect" THEN "error" ELSE @]
  /\ UNCHANGED store

EndRead ==
  /\ read.phase = "done"
  /\ read' = NoRead
  /\ UNCHANGED store

-----------------------------------------------------------------------------
(* tsedge_aggregate: aggregate_series_state and tsedge_segment_aggregate *)

\* The points of a block or of the buffer that are in the range.
AddRange(acc, pts, from, to) ==
  LET upTo[n \in 0..Len(pts)] ==
        IF n = 0 THEN acc
        ELSE IF pts[n][1] >= from /\ pts[n][1] <= to THEN Combine(upTo[n - 1], Single(pts[n][2]))
        ELSE upTo[n - 1]
  IN upTo[Len(pts)]

\* Faulty variant: a block is taken as covered when its bounds meet the range.
AggregateStoredIntersecting(state, entry, from, to) ==
  IF ~HasBlock(entry) THEN [state EXCEPT !.rc = "error"]
  ELSE [state EXCEPT !.acc = Combine(@, BlockAt(entry).header.stats)]

AggregateDecoded(state, pts, from, to) ==
  IF pts = Corrupt THEN [state EXCEPT !.rc = "error"]
  ELSE [state EXCEPT !.acc = AddRange(@, pts, from, to)]

\* The header's statistics when the header is covered by the range, whatever
\* follows it in the file; the decoded points otherwise.
AggregateStored(state, entry, from, to) ==
  IF ~HasBlock(entry) THEN [state EXCEPT !.rc = "error"]
  ELSE IF Covered(BlockAt(entry).header, from, to)
    THEN [state EXCEPT !.acc = Combine(@, BlockAt(entry).header.stats)]
  ELSE AggregateDecoded(state, Decode(BlockAt(entry)), from, to)

\* One index entry.
AggregateBlock(state, entry, from, to) ==
  IF state.rc # "ok" \/ ~Intersects(entry, from, to) \/ NoFile(entry) THEN state
  ELSE AggregateStored(state, entry, from, to)

BufferedPoints == [i \in DOMAIN buffer |-> history[buffer[i]]]

AggregateBuffered(state, from, to) ==
  IF state.rc # "ok" THEN state ELSE [state EXCEPT !.acc = AddRange(@, BufferedPoints, from, to)]

\* The loop over the index.
AggregateBlocks(from, to) ==
  LET upTo[n \in 0..Len(index)] ==
        IF n = 0 THEN [rc |-> "ok", acc |-> Zero]
        ELSE AggregateBlock(upTo[n - 1], index[n], from, to)
  IN upTo[Len(index)]

\* What the min, max, sum and average of tsedge_aggregate are computed from; with
\* a count of 0 they are TSEDGE_ERR_NOT_FOUND.
Aggregate(from, to) == AggregateBuffered(AggregateBlocks(from, to), from, to)

-----------------------------------------------------------------------------
(* tsedge_aggregate_windowed *)

\* validate_window_range: the number of windows; the caller's arguments are
\* rejected when end - start does not fit in an int64_t.
WindowCount(start, end, size) ==
  LET range == Int64(end - start)
      count == range \div size + (IF range % size = 0 THEN 0 ELSE 1)
  IN IF \/ size <= 0 \/ start > end
        \/ start < 0 /\ end > MaxInt + start
        \/ start < end /\ count > MaxWindows
       THEN -1
       ELSE count

\* window_index_for_timestamp
WindowIndex(time, start, size) == 1 + Int64(time - start) \div size

\* Faulty variant: a block inside the range is booked on the window of its minimum.
SameWindowByMinimum(entry, start, end, size) == entry.min >= start /\ entry.max < end

\* Whether the header is enough: the whole block falls into one window.
SameWindow(entry, start, end, size) ==
  /\ entry.min >= start /\ entry.max < end
  /\ WindowIndex(entry.min, start, size) = WindowIndex(entry.max, start, size)

\* A point of a block or of the buffer, if it is in [start, end).
AddToWindow(windows, point, start, end, size) ==
  IF point[1] >= start /\ point[1] < end
    THEN [windows EXCEPT ![WindowIndex(point[1], start, size)] = Combine(@, Single(point[2]))]
    ELSE windows

AddAll(windows, pts, start, end, size) ==
  LET upTo[n \in 0..Len(pts)] ==
        IF n = 0 THEN windows ELSE AddToWindow(upTo[n - 1], pts[n], start, end, size)
  IN upTo[Len(pts)]

WindowDecoded(state, pts, start, end, size) ==
  IF pts = Corrupt THEN [state EXCEPT !.rc = "error"]
  ELSE [state EXCEPT !.windows = AddAll(@, pts, start, end, size)]

WindowStored(state, entry, start, end, size) ==
  IF ~HasBlock(entry) THEN [state EXCEPT !.rc = "error"]
  ELSE IF SameWindow(entry, start, end, size)
    THEN [state EXCEPT !.windows[WindowIndex(entry.min, start, size)] =
            Combine(@, BlockAt(entry).header.stats)]
  ELSE WindowDecoded(state, Decode(BlockAt(entry)), start, end, size)

\* One index entry; a file that does not exist is an error here.
WindowBlock(state, entry, start, end, size) ==
  IF state.rc # "ok" \/ entry.max < start \/ entry.min >= end THEN state
  ELSE WindowStored(state, entry, start, end, size)

\* The ends of window k; the last window is cut at `end'.
WindowSpan(k, start, end, size) ==
  LET first == Int64(start + Int64((k - 1) * size))
      remaining == Int64(end - first)
  IN <<first, IF remaining < size THEN end ELSE Int64(first + size)>>

\* The windows that are not empty, with their ends.
Output(windows, start, end, size) ==
  [rc |-> "ok",
   windows |-> {[span |-> WindowSpan(k, start, end, size), acc |-> windows[k]] :
                  k \in {j \in DOMAIN windows : windows[j].count > 0}}]

WindowBuffered(state, start, end, size) ==
  IF state.rc # "ok" THEN [rc |-> "error", windows |-> {}]
  ELSE Output(AddAll(state.windows, BufferedPoints, start, end, size), start, end, size)

\* The loop over the index.
WindowBlocks(count, start, end, size) ==
  LET upTo[n \in 0..Len(index)] ==
        IF n = 0 THEN [rc |-> "ok", windows |-> [k \in 1..count |-> Zero]]
        ELSE WindowBlock(upTo[n - 1], index[n], start, end, size)
  IN upTo[Len(index)]

\* A count of 0 is an empty range, for which no block is looked at.
FillWindows(count, start, end, size) ==
  CASE count = -1 -> [rc |-> "invalid", windows |-> {}]
    [] count = 0 -> [rc |-> "ok", windows |-> {}]
    [] OTHER -> WindowBuffered(WindowBlocks(count, start, end, size), start, end, size)

AggregateWindowed(start, end, size) ==
  FillWindows(WindowCount(start, end, size), start, end, size)

-----------------------------------------------------------------------------
(* tsedge_get_series_stats, and the totals of tsedge_list_series *)

\* Taken from the index and the buffer, no file is opened.
Stats ==
  LET times == (UNION {{index[i].min, index[i].max} : i \in DOMAIN index})
                 \union {Timestamp(buffer[i]) : i \in DOMAIN buffer}
  IN [points |-> Len(buffer) + SumFunction([i \in DOMAIN index |-> index[i].count]),
      blocks |-> Len(index),
      range  |-> IF times = {} THEN <<>> ELSE <<Min(times), Max(times)>>]

-----------------------------------------------------------------------------

Next ==
  \/ \E point \in Points : AppendPoint(point)
  \/ Flush
  \/ CrashInBlock
  \/ DeletionFails
  \/ \E client \in Clients, range \in ReadRanges : StartRead(client, range[1], range[2])
  \/ ReadBlock \/ DeliverDecoded \/ BlocksDone \/ ReadBuffer \/ BufferDone
  \/ CallbackContinues \/ CallbackStops \/ EndRead

Spec == Init /\ [][Next]_vars

-----------------------------------------------------------------------------
(* Properties *)

\* The shape of the state; the index has the block count of its headers.
TypeOK ==
  /\ history \in Seq(Points)
  /\ DOMAIN files = Segments
  /\ active \in Segments
  /\ index \in Seq([segment : Segments, offset : Nat, min : MinInt..MaxInt,
                    max : MinInt..MaxInt, count : 1..Capacity])
  /\ buffer \in Seq(DOMAIN history) /\ Len(buffer) <= Capacity
  /\ read.phase \in {"none", "loop", "callback", "done"}
  /\ damage \in Damages \union {"none"}
  /\ torn \in {Corrupt} \union Seq(Garbage)

Blocks == UNION {Range(files[id]) : id \in Segments}

WholeBlocks == {block \in Blocks : block.whole}

\* Compression loses nothing, for every order and distance of the timestamps and
\* every bit pattern, and the second pass of each encoder writes the bytes that
\* the first one allocated.
LosslessBlocks ==
  read.phase = "none" => \A block \in WholeBlocks :
    LET pts == [i \in DOMAIN block.numbers |-> history[block.numbers[i]]]
    IN /\ Decode(block) = pts
       /\ Len(block.timestamps) = TimestampSize([i \in DOMAIN pts |-> pts[i][1]])
       /\ Len(block.values) = ValueSize([i \in DOMAIN pts |-> pts[i][2]])

\* A stream that is cut anywhere or has a byte too many is TSEDGE_ERR_CORRUPT, it
\* never decodes to other points.
DamagedStreamsRejected ==
  read.phase = "none" => \A block \in WholeBlocks :
    LET count == block.header.count
    IN /\ \A k \in 0..Len(block.timestamps) - 1 :
            DecompressTimestamps(SubSeq(block.timestamps, 1, k), count) = Corrupt
       /\ \A k \in 0..Len(block.values) - 1 :
            DecompressValues(SubSeq(block.values, 1, k), count) = Corrupt
       /\ DecompressTimestamps(Append(block.timestamps, 0), count) = Corrupt
       /\ DecompressValues(Append(block.values, 0), count) = Corrupt

\* A range read hands out each point once, in the order of the appends and with
\* the timestamp and value that were appended, also when its callback appends and
\* flushes, and nothing else as long as no block that a crash cut short has been
\* completed by the bytes of later ones: such a block can give points that nobody
\* appended, between those that were.  After a deletion that failed half-way the
\* index can name one block twice, and only then.
ReadOnceInOrder ==
  read.phase # "none" /\ damage # "unlinked" =>
    /\ \A i, j \in DOMAIN read.delivered :
         i < j /\ read.delivered[j].number # 0 => read.delivered[i].number < read.delivered[j].number
    /\ \A i \in DOMAIN read.delivered :
         \/ read.delivered[i].number = 0 /\ torn # Corrupt
         \/ read.delivered[i].point = history[read.delivered[i].number]

\* TSEDGE_OK from a read, an export or the Python binding means that every point
\* of the range that could be read when the call began was handed out.  The
\* exceptions: the application stopped the read itself, or flushed from the
\* callback of a buffered point.
OkMeansEverything ==
  read.phase = "done" /\ read.result = "ok" /\ ~(read.client = "app" /\ read.stopped) =>
    read.due \subseteq {read.delivered[i].number : i \in DOMAIN read.delivered}

\* What a query result says of the points with these numbers.  A NaN makes the
\* sum a NaN; minimum and maximum then depend on where it stands.
Describes(acc, numbers) ==
  LET values == [i \in DOMAIN numbers |-> Number(Value(numbers[i]))]
  IN /\ acc.count = Len(numbers)
     /\ NaN \in Range(values) => acc.sum = NaN
     /\ NaN \notin Range(values) =>
          /\ acc.sum = SumFunction(values)
          /\ numbers # <<>> => acc.min = Min(Range(values)) /\ acc.max = Max(Range(values))

\* The range meets a block that is listed twice, is cut short or has no file.
Damaged(from, to) ==
  \E i \in DOMAIN index :
    /\ Intersects(index[i], from, to)
    /\ \/ ~HasBlock(index[i]) \/ ~BlockAt(index[i]).whole
       \/ \E j \in DOMAIN index \ {i} :
            index[j].segment = index[i].segment /\ index[j].offset = index[i].offset

\* An aggregate computed from headers is the one computed from the points, for
\* covered, partly covered and overlapping blocks in any order of timestamps.
AggregateMatchesPoints ==
  read.phase = "none" =>
    LET points == Readable
    IN \A from, to \in Bounds :
         from <= to /\ ~Damaged(from, to) =>
           \E got \in {Aggregate(from, to)} :
             got.rc = "ok" /\ Describes(got.acc, InRange(points, from, to))

\* Windowed aggregation divides [start, end) into windows of the given size, of
\* which the last may be shorter, and describes the points of each; no sum or
\* difference of int64_t values on the way wraps around.  It rejects exactly the
\* arguments with a distance above INT64_MAX or too many windows.
WindowsMatchPoints ==
  read.phase = "none" =>
    LET points == Readable
    IN \A start, end \in Bounds, size \in WindowSizes :
         LET count == (end - start + size - 1) \div size
             first(k) == start + k * size
             last(k) == Min({first(k) + size, end})
             inWindow(k) == InRange(points, first(k), last(k) - 1)
             valid == size > 0 /\ 0 <= end - start /\ end - start <= MaxInt /\ count <= MaxWindows
         IN \E got \in {AggregateWindowed(start, end, size)} :
              /\ valid <=> got.rc # "invalid"
              /\ valid /\ start < end /\ ~Damaged(start, end - 1) =>
                   /\ got.rc = "ok"
                   /\ {w.span : w \in got.windows} =
                        {<<first(k), last(k)>> : k \in {i \in 0..count - 1 : inWindow(i) # <<>>}}
                   /\ \A w \in got.windows :
                        Describes(w.acc, InRange(points, w.span[1], w.span[2] - 1))

\* The statistics, which come from the index and the buffer alone, count the
\* points a full read finds and give their smallest and largest timestamp.
StatsMatchPoints ==
  read.phase = "none" /\ damage = "none" =>
    LET points == Readable
        stats == Stats
        times == {Timestamp(n) : n \in Range(points)}
    IN /\ stats.points = Len(points)
       /\ stats.range = IF times = {} THEN <<>> ELSE <<Min(times), Max(times)>>
=============================================================================
