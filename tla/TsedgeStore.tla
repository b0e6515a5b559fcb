---------------------------- MODULE TsedgeStore ----------------------------
(***************************************************************************)
(* The write path of TSEdge: tsedge_append and tsedge_append_batch go      *)
(* through the WAL buffer and wal.log into the buffer of a series, a full  *)
(* or flushed buffer becomes a block of the segment file, wal.log is then  *)
(* rewritten from the buffers that remain, and tsedge_open replays it.     *)
(*                                                                         *)
(* The library is single-threaded: one API call runs at a time, and `pc'   *)
(* says where it is.  Every step has at most one effect on the files, so a *)
(* crash can come between any two of them, and any of them can fail.       *)
(*                                                                         *)
(* The n-th point handed to series s is the number n: a point is known by  *)
(* its series and its number, and numbers grow in the order of the calls.  *)
(***************************************************************************)
EXTENDS TsedgeFiles, FiniteSets

CONSTANTS
  Series,         \* names of series
  NoSeries,       \* the target of a call that is about no series
  Selected,       \* bound: the durability modes the application asks for
  Capacity,       \* TSEDGE_BLOCK_MAX_POINTS, the capacity of a buffer
  BalancedLimit,  \* TSEDGE_WAL_BALANCED_FLUSH_BYTES, in cells
  BufferLimit,    \* TSEDGE_WAL_BUFFER_BYTES, in cells
  MaxBatch,       \* bound: points in one tsedge_append_batch call
  MaxPoints,      \* bound: points ever handed to one series
  MaxCrashes,     \* bound: crashes
  MaxFaults,      \* bound: file operations that fail
  TornWrites      \* whether a crash or a failure can leave part of a write

ASSUME StoreAssumption ==
  /\ IsFiniteSet(Series)
  /\ NoSeries \notin Series
  /\ Selected \subseteq {"FAST", "BALANCED", "STRICT"}
  /\ Capacity \in Nat \ {0}
  /\ BalancedLimit \in Nat
  /\ BufferLimit \in Nat
  /\ MaxBatch \in Nat
  /\ MaxPoints \in Nat
  /\ MaxCrashes \in Nat
  /\ MaxFaults \in Nat
  /\ TornWrites \in BOOLEAN

VARIABLES
  (*************************************************************************)
  (* The database directory.                                               *)
  (*************************************************************************)
  dirs,        \* series that have a directory
  wal,         \* the records of wal.log
  blocks,      \* per series, the blocks of its segment file
  (*************************************************************************)
  (* The tsedge_db object.                                                 *)
  (*************************************************************************)
  durability,  \* db->durability
  registry,    \* db->series: the names, in order
  buffer,      \* per series, series->buffer
  walbuf,      \* db->wal_buffer, as records
  (*************************************************************************)
  (* The call in progress.                                                 *)
  (*************************************************************************)
  pc,          \* the next step of the call, "idle" or "closed"
  op,          \* the call; tsedge_set_durability is named by the mode asked for
  target,      \* the series it works on
  rest,        \* points not yet in the buffer
  cursor,      \* loop index into the registry, or into wal.log during replay
  (*************************************************************************)
  (* History: what became of every point, and how often things went wrong. *)
  (*************************************************************************)
  fate,
  crashes,
  faults

disk   == <<dirs, wal, blocks>>
memory == <<durability, registry, buffer, walbuf>>
call   == <<op, target, rest, cursor>>
bounds == <<crashes, faults>>
vars   == <<disk, memory, pc, call, fate, bounds>>

Modes == {"FAST", "BALANCED", "STRICT"}

Operations == Modes \union {"none", "open", "append", "flush", "flush_all", "close", "delete"}

(***************************************************************************)
(* pending: in the call in progress.  accepted: in memory, the call did    *)
(* not promise durability.  durable: the call that returned TSEDGE_OK is   *)
(* documented to make the point survive a crash.  rejected: the call       *)
(* returned an error before the point entered the buffer.  lost: neither   *)
(* promised nor on disk when the process ended.                            *)
(***************************************************************************)
Fates == {"pending", "accepted", "durable", "rejected", "lost", "deleting", "deleted"}

\* Where a step of the call makes a file operation, which may fail.
FileSteps == {"replay", "spill", "sync", "seal", "switch", "block", "truncate", "rewrite",
              "unlink", "rmdir"}

Labels == FileSteps \union {"closed", "idle", "chunk", "log", "place", "flush", "next", "broken"}

Empty == [s \in Series |-> <<>>]

Init ==
  /\ dirs = {} /\ wal = <<>> /\ blocks = Empty
  /\ durability = "STRICT" /\ registry = <<>> /\ buffer = Empty /\ walbuf = <<>>
  /\ pc = "closed" /\ op = "none" /\ target = NoSeries /\ rest = <<>> /\ cursor = 1
  /\ fate = Empty /\ crashes = 0 /\ faults = 0

-----------------------------------------------------------------------------

\* The points of series s that are on disk where the next open looks for them.
OnDisk(s) == LoggedPoints(wal, s) \union StoredPoints(blocks[s])

WalLimit == IF durability = "BALANCED" THEN BalancedLimit ELSE BufferLimit

\* Faulty variant: the chunk is not cut to the room in the buffer.
ChunkUncut == Len(rest)

\* How many of the remaining points fit in the buffer of the series.
ChunkLength ==
  LET available == Capacity - Len(buffer[target])
  IN IF Len(rest) > available THEN available ELSE Len(rest)

NextRecord == WalRecord(target, SubSeq(rest, 1, ChunkLength))

BufferFull == Len(buffer[target]) >= Capacity

\* The series that a flush in progress writes out.
Flushed == IF op \in {"append", "flush", "open"} THEN target ELSE registry[cursor]

\* A call returns r to the caller.
FateAtReturn(r, s, n) ==
  LET promised == \/ op = "append" /\ durability = "STRICT" /\ fate[s][n] = "pending"
                  \/ op = "flush" /\ s = target /\ fate[s][n] = "accepted"
                  \/ op = "flush_all" /\ fate[s][n] = "accepted"
  IN CASE r = "ok" /\ promised -> "durable"
       [] r = "ok" /\ op = "delete" /\ fate[s][n] = "deleting" -> "deleted"
       [] fate[s][n] = "pending" /\ n \in Range(rest) -> "rejected"
       [] fate[s][n] = "pending" /\ n \notin Range(rest) /\ ~(r = "ok" /\ promised) -> "accepted"
       [] OTHER -> fate[s][n]

Return(r) ==
  /\ pc' = "idle" /\ op' = "none" /\ target' = NoSeries /\ rest' = <<>> /\ cursor' = 1
  /\ fate' = [s \in Series |-> [n \in 1..Len(fate[s]) |-> FateAtReturn(r, s, n)]]

\* The tsedge_db object is gone: tsedge_db_free_memory, or the end of the process.
FateAtEnd(s, n) ==
  CASE fate[s][n] \in {"pending", "accepted", "durable"} /\ n \notin OnDisk(s) -> "lost"
    [] fate[s][n] = "pending" /\ n \in OnDisk(s) -> "accepted"
    [] OTHER -> fate[s][n]

Forget ==
  /\ pc' = "closed" /\ op' = "none" /\ target' = NoSeries /\ rest' = <<>> /\ cursor' = 1
  /\ durability' = "STRICT" /\ registry' = <<>> /\ buffer' = Empty /\ walbuf' = <<>>
  /\ fate' = [s \in Series |-> [n \in 1..Len(fate[s]) |-> FateAtEnd(s, n)]]
  /\ UNCHANGED disk

Call(name, s) == pc = "idle" /\ op' = name /\ target' = s

Goto(label) == pc' = label

-----------------------------------------------------------------------------
(* tsedge_open *)

\* load_existing_series: readdir gives the directories in some order.
Open ==
  /\ pc = "closed"
  /\ \A s \in dirs : ~SegmentCorrupt(blocks[s])
  /\ registry' \in {order \in [1..Cardinality(dirs) -> dirs] : Range(order) = dirs}
  /\ Goto("replay") /\ op' = "open"
  /\ UNCHANGED <<disk, durability, buffer, walbuf, target, rest, cursor, fate, bounds>>

\* A segment file that cannot be scanned: tsedge_open fails before the replay.
OpenFails ==
  /\ pc = "closed"
  /\ \E s \in dirs : SegmentCorrupt(blocks[s])
  /\ UNCHANGED vars

\* tsedge_wal_replay: the next intact record, after replay_point_for_name has
\* made sure that its series exists.
ReplayRecord ==
  /\ pc = "replay" /\ rest = <<>>
  /\ cursor <= Len(Intact(wal))
  /\ LET s == wal[cursor].series IN
       /\ target' = s
       /\ dirs' = dirs \union {s}
       /\ registry' = IF s \in Range(registry) THEN registry ELSE Append(registry, s)
  /\ rest' = wal[cursor].points
  /\ cursor' = cursor + 1
  /\ UNCHANGED <<wal, blocks, durability, buffer, walbuf, pc, op, fate, bounds>>

\* tsedge_series_add_recovered_point: a full buffer is flushed, without an
\* update of the WAL.
ReplayPoints ==
  /\ pc = "replay" /\ rest # <<>>
  /\ IF BufferFull
       THEN Goto("seal") /\ UNCHANGED <<buffer, rest>>
       ELSE /\ buffer' = [buffer EXCEPT ![target] = @ \o SubSeq(rest, 1, ChunkLength)]
            /\ rest' = SubSeq(rest, ChunkLength + 1, Len(rest))
            /\ UNCHANGED pc
  /\ UNCHANGED <<disk, durability, registry, walbuf, op, target, cursor, fate, bounds>>

ReplayEnds ==
  /\ pc = "replay" /\ rest = <<>>
  /\ cursor > Len(Intact(wal))
  /\ IF WalCorrupt(wal) THEN Forget ELSE Return("ok") /\ UNCHANGED <<disk, memory>>
  /\ UNCHANGED bounds

-----------------------------------------------------------------------------
(* tsedge_create_series *)

CreateSeries(s) ==
  /\ pc = "idle"
  /\ s \notin Range(registry)
  /\ dirs' = dirs \union {s}
  /\ registry' = Append(registry, s)
  /\ UNCHANGED <<wal, blocks, durability, buffer, walbuf, pc, call, fate, bounds>>

\* The directory is made, and then metadata.txt or manifest.txt cannot be written.
CreateFails(s) ==
  /\ pc = "idle"
  /\ s \notin Range(registry)
  /\ faults < MaxFaults
  /\ faults' = faults + 1
  /\ dirs' = dirs \union {s}
  /\ registry' \in {registry, Append(registry, s)}
  /\ UNCHANGED <<wal, blocks, durability, buffer, walbuf, pc, call, fate, crashes>>

-----------------------------------------------------------------------------
(* tsedge_append and tsedge_append_batch *)

\* One point or a batch of n points, in call order.
StartAppend(s, n) ==
  /\ Call("append", s)
  /\ s \in Range(registry)
  /\ Len(fate[s]) + n <= MaxPoints
  /\ rest' = [i \in 1..n |-> Len(fate[s]) + i]
  /\ fate' = [fate EXCEPT ![s] = @ \o [i \in 1..n |-> "pending"]]
  /\ Goto("chunk")
  /\ UNCHANGED <<disk, memory, cursor, bounds>>

\* Faulty variant: a full WAL buffer is not flushed before the next record.
ChunkNeverSpills ==
  /\ pc = "chunk"
  /\ rest # <<>>
  /\ Goto(IF BufferFull THEN "seal" ELSE "log")
  /\ UNCHANGED <<disk, memory, call, fate, bounds>>

\* The loop head of tsedge_series_append_batch, and the check at the start of
\* wal_append_bytes that flushes a WAL buffer the record does not fit in.
Chunk ==
  /\ pc = "chunk"
  /\ rest # <<>>
  /\ Goto(CASE BufferFull -> "seal"
            [] ~BufferFull /\ walbuf # <<>> /\ Cells(walbuf) + Size(NextRecord) > WalLimit -> "spill"
            [] OTHER -> "log")
  /\ UNCHANGED <<disk, memory, call, fate, bounds>>

\* Faulty variant: the record is copied to the start of the WAL buffer.
LogOverwrites ==
  /\ pc = "log"
  /\ walbuf' = <<NextRecord>>
  /\ Goto(IF durability = "STRICT" THEN "sync" ELSE "place")
  /\ UNCHANGED <<disk, durability, registry, buffer, call, fate, bounds>>

\* Faulty variant: STRICT does not flush the WAL buffer.
LogNeverSyncs ==
  /\ pc = "log"
  /\ walbuf' = Append(walbuf, NextRecord)
  /\ Goto("place")
  /\ UNCHANGED <<disk, durability, registry, buffer, call, fate, bounds>>

\* The rest of wal_append_bytes; STRICT goes on to flush the WAL buffer.
Log ==
  /\ pc = "log"
  /\ walbuf' = Append(walbuf, NextRecord)
  /\ Goto(IF durability = "STRICT" THEN "sync" ELSE "place")
  /\ UNCHANGED <<disk, durability, registry, buffer, call, fate, bounds>>

\* The chunk enters the buffer once the WAL has it.
Place ==
  /\ pc = "place"
  /\ buffer' = [buffer EXCEPT ![target] = @ \o SubSeq(rest, 1, ChunkLength)]
  /\ rest' = SubSeq(rest, ChunkLength + 1, Len(rest))
  /\ Goto("chunk")
  /\ UNCHANGED <<disk, durability, registry, walbuf, op, target, cursor, fate, bounds>>

AppendDone ==
  /\ pc = "chunk" /\ rest = <<>>
  /\ Return("ok")
  /\ UNCHANGED <<disk, memory, bounds>>

-----------------------------------------------------------------------------
(* tsedge_wal_flush, from each place that calls it *)

AfterWalFlush == [spill |-> "log", sync |-> "place", seal |-> "block"]

WalFlush ==
  /\ pc \in DOMAIN AfterWalFlush \union {"switch"}
  /\ wal' = wal \o walbuf
  /\ walbuf' = <<>>
  /\ IF pc = "switch"
       THEN Return("ok") /\ durability' = op
       ELSE /\ Goto(AfterWalFlush[pc])
            /\ UNCHANGED <<durability, call, fate>>
  /\ UNCHANGED <<dirs, blocks, registry, buffer, bounds>>

SetDurability(mode) ==
  /\ pc = "idle" /\ op' = mode
  /\ Goto("switch")
  /\ UNCHANGED <<disk, memory, target, rest, cursor, fate, bounds>>

-----------------------------------------------------------------------------
(* tsedge_series_flush and tsedge_db_flush_all *)

\* tsedge_flush of one series.
StartFlush(s) ==
  /\ Call("flush", s)
  /\ s \in Range(registry)
  /\ Goto("flush")
  /\ UNCHANGED <<disk, memory, rest, cursor, fate, bounds>>

\* tsedge_series_flush returns at once when the buffer is empty.
FlushSeries ==
  /\ pc = "flush"
  /\ IF buffer[target] = <<>> THEN Return("ok")
                             ELSE Goto("seal") /\ UNCHANGED <<call, fate>>
  /\ UNCHANGED <<disk, memory, bounds>>

\* Faulty variant: a series is deleted without the flush that truncates the WAL.
DeleteWithoutFlush(name, s) ==
  /\ Call(name, s)
  /\ IF name = "delete" THEN s \in Range(registry) ELSE s = NoSeries
  /\ Goto(IF name = "delete" THEN "unlink" ELSE "next")
  /\ UNCHANGED <<disk, memory, rest, cursor, fate, bounds>>

\* tsedge_flush_all, tsedge_close, and tsedge_delete_series of series s.
StartFlushAll(name, s) ==
  /\ Call(name, s)
  /\ IF name = "delete" THEN s \in Range(registry) ELSE s = NoSeries
  /\ Goto("next")
  /\ UNCHANGED <<disk, memory, rest, cursor, fate, bounds>>

\* Faulty variant: the loop does not go on after an empty buffer.
NextSeriesStays ==
  /\ pc = "next"
  /\ CASE cursor > Len(registry) -> Goto("truncate")
       [] cursor <= Len(registry) /\ buffer[registry[cursor]] # <<>> -> Goto("seal")
       [] OTHER -> UNCHANGED pc
  /\ UNCHANGED <<disk, memory, call, fate, bounds>>

\* The loop of tsedge_db_flush_all.
NextSeries ==
  /\ pc = "next"
  /\ CASE cursor > Len(registry) -> Goto("truncate") /\ UNCHANGED cursor
       [] cursor <= Len(registry) /\ buffer[registry[cursor]] # <<>> ->
            Goto("seal") /\ UNCHANGED cursor
       [] OTHER -> cursor' = cursor + 1 /\ UNCHANGED pc
  /\ UNCHANGED <<disk, memory, op, target, rest, fate, bounds>>

\* Faulty variant: the buffer is not emptied after its block is written.
AppendBlockKeepsBuffer ==
  /\ pc = "block"
  /\ blocks' = [blocks EXCEPT ![Flushed] = Append(@, Block(buffer[Flushed]))]
  /\ Goto(CASE op \in {"append", "flush"} -> "truncate"
            [] op = "open" -> "replay"
            [] OTHER -> "next")
  /\ cursor' = IF op \in {"append", "flush", "open"} THEN cursor ELSE cursor + 1
  /\ UNCHANGED <<dirs, wal, memory, op, target, rest, fate, bounds>>

\* Faulty variant: a failed write of the block goes unnoticed.
AppendBlockUnchecked ==
  /\ pc = "block"
  /\ buffer' = [buffer EXCEPT ![Flushed] = <<>>]
  /\ Goto(CASE op \in {"append", "flush"} -> "truncate"
            [] op = "open" -> "replay"
            [] OTHER -> "next")
  /\ UNCHANGED <<disk, durability, registry, walbuf, call, fate, bounds>>

\* tsedge_segment_append_block, and what tsedge_series_flush does after it:
\* only tsedge_append and tsedge_flush update the WAL series by series.
AppendBlock ==
  /\ pc = "block"
  /\ blocks' = [blocks EXCEPT ![Flushed] = Append(@, Block(buffer[Flushed]))]
  /\ buffer' = [buffer EXCEPT ![Flushed] = <<>>]
  /\ Goto(CASE op \in {"append", "flush"} -> "truncate"
            [] op = "open" -> "replay"
            [] OTHER -> "next")
  /\ UNCHANGED <<dirs, wal, durability, registry, walbuf, call, fate, bounds>>

-----------------------------------------------------------------------------
(* tsedge_wal_truncate_to_buffers *)

\* The WAL buffer is dropped and fopen(wal_path, "wb") empties the file.
TruncateWal ==
  /\ pc = "truncate"
  /\ walbuf' = <<>>
  /\ wal' = <<>>
  /\ cursor' = 1
  /\ Goto("rewrite")
  /\ UNCHANGED <<dirs, blocks, durability, registry, buffer, op, target, rest, fate, bounds>>

\* Faulty variant: wal.log is emptied and the buffers are not written back.
RewriteNothing ==
  /\ pc = "rewrite" /\ cursor <= Len(registry)
  /\ cursor' = cursor + 1
  /\ UNCHANGED <<disk, memory, pc, op, target, rest, fate, bounds>>

\* One record for every buffer that is not empty, in registry order.
RewriteWal ==
  /\ pc = "rewrite" /\ cursor <= Len(registry)
  /\ LET s == registry[cursor] IN
       wal' = IF buffer[s] = <<>> THEN wal ELSE Append(wal, WalRecord(s, buffer[s]))
  /\ cursor' = cursor + 1
  /\ UNCHANGED <<dirs, blocks, memory, pc, op, target, rest, fate, bounds>>

RewriteEnds ==
  /\ pc = "rewrite" /\ cursor > Len(registry)
  /\ CASE op \in {"flush", "flush_all"} -> Return("ok") /\ UNCHANGED <<disk, memory>>
       [] op = "close" -> Forget
       [] OTHER ->
            /\ Goto(IF op = "append" THEN "chunk" ELSE "unlink")
            /\ cursor' = 1
            /\ UNCHANGED <<disk, memory, op, target, rest, fate>>
  /\ UNCHANGED bounds

-----------------------------------------------------------------------------
(* tsedge_db_delete_series, after its tsedge_db_flush_all *)

\* remove_directory_recursive: the segment file.
UnlinkSegment ==
  /\ pc = "unlink"
  /\ blocks' = [blocks EXCEPT ![target] = <<>>]
  /\ fate' = [fate EXCEPT ![target] = [n \in 1..Len(@) |-> "deleting"]]
  /\ Goto("rmdir")
  /\ UNCHANGED <<dirs, wal, memory, call, bounds>>

\* The directory, and the entry of db->series; manifest.txt comes last and may
\* not be written.
RemoveDirectory ==
  /\ pc = "rmdir"
  /\ dirs' = dirs \ {target}
  /\ \E i \in 1..Len(registry) : registry[i] = target /\ registry' = RemoveAt(registry, i)
  /\ \/ Return("ok") /\ UNCHANGED faults
     \/ faults < MaxFaults /\ faults' = faults + 1 /\ Return("error")
  /\ UNCHANGED <<wal, blocks, durability, buffer, walbuf, crashes>>

-----------------------------------------------------------------------------
(* What the environment does *)

\* A write stops half-way.  Nothing else runs before the call gives up or the
\* process ends.
PartialWrite ==
  /\ TornWrites
  /\ crashes < MaxCrashes \/ faults < MaxFaults
  /\ \/ /\ pc \in DOMAIN AfterWalFlush \union {"switch"} /\ walbuf # <<>>
        /\ \E part \in PartialWrites(walbuf) : wal' = wal \o part
        /\ UNCHANGED blocks
     \/ /\ pc = "block"
        /\ \E part \in PartialWrites(<<Block(buffer[Flushed])>>) :
             blocks' = [blocks EXCEPT ![Flushed] = @ \o part]
        /\ UNCHANGED wal
     \/ /\ pc = "rewrite" /\ cursor <= Len(registry) /\ buffer[registry[cursor]] # <<>>
        /\ \E part \in PartialWrites(<<WalRecord(registry[cursor], buffer[registry[cursor]])>>) :
             wal' = wal \o part
        /\ UNCHANGED blocks
  /\ Goto("broken")
  /\ UNCHANGED <<dirs, memory, call, fate, bounds>>

\* A file operation fails and its error goes up to the caller; tsedge_wal_flush
\* makes none for an empty WAL buffer.  A failing truncation has already dropped
\* the WAL buffer; a failing close or open frees the tsedge_db object all the same.
Fault ==
  /\ pc \in FileSteps \union {"broken"}
  /\ pc \in DOMAIN AfterWalFlush \union {"switch"} => walbuf # <<>>
  /\ faults < MaxFaults
  /\ faults' = faults + 1
  /\ IF op \in {"open", "close"}
       THEN Forget
       ELSE /\ Return("error")
            /\ walbuf' = IF pc = "truncate" THEN <<>> ELSE walbuf
            /\ UNCHANGED <<disk, durability, registry, buffer>>
  /\ UNCHANGED crashes

\* The process dies.
Crash ==
  /\ pc # "closed"
  /\ crashes < MaxCrashes
  /\ crashes' = crashes + 1
  /\ Forget
  /\ UNCHANGED faults

-----------------------------------------------------------------------------

StartCall ==
  \/ \E s \in Series : CreateSeries(s)
  \/ \E s \in Series, n \in 1..MaxBatch : StartAppend(s, n)
  \/ \E mode \in Selected : SetDurability(mode)
  \/ \E s \in Series : StartFlush(s)
  \/ \E name \in {"flush_all", "close", "delete"}, s \in Series \union {NoSeries} : StartFlushAll(name, s)

Continue ==
  \/ ReplayRecord \/ ReplayPoints \/ ReplayEnds
  \/ Chunk \/ Log \/ Place \/ AppendDone
  \/ WalFlush \/ FlushSeries \/ NextSeries \/ AppendBlock
  \/ TruncateWal \/ RewriteWal \/ RewriteEnds
  \/ UnlinkSegment \/ RemoveDirectory

Environment ==
  \/ \E s \in Series : CreateFails(s)
  \/ PartialWrite \/ Fault \/ Crash

Next == Open \/ OpenFails \/ StartCall \/ Continue \/ Environment

Spec == Init /\ [][Next]_vars

\* The running call goes on by itself, and a write that stopped half-way makes it
\* fail if the process does not die.
Break == pc = "broken" /\ (Fault \/ Crash)

FairSpec == Spec /\ WF_vars(Continue) /\ WF_vars(Break)

-----------------------------------------------------------------------------
(* Properties *)

\* The shape of the state; a buffer never holds more than its capacity, the size
\* of the array that tsedge_series_init allocates.
TypeOK ==
  /\ dirs \in SUBSET Series
  /\ wal \in Seq([series : Series, points : Seq(Nat), got : Nat])
  /\ blocks \in [Series -> Seq([points : Seq(Nat), got : Nat])]
  /\ durability \in Modes
  /\ registry \in Seq(Series)
  /\ buffer \in [Series -> Seq(Nat)]
  /\ \A s \in Series : Len(buffer[s]) <= Capacity
  /\ walbuf \in Seq([series : Series, points : Seq(Nat), got : Nat])
  /\ pc \in Labels
  /\ op \in Operations
  /\ target \in Series \union {NoSeries}
  /\ rest \in Seq(Nat)
  /\ cursor \in Nat \ {0}
  /\ fate \in [Series -> Seq(Fates)]
  /\ crashes \in 0..MaxCrashes
  /\ faults \in 0..MaxFaults

PointsOf(s, fates) == {n \in 1..Len(fate[s]) : fate[s][n] \in fates}

Acknowledged(s) == PointsOf(s, {"accepted", "durable"})

\* What a query of the open database returns for s, in storage order.
Visible(s) ==
  FlattenSeq([i \in 1..Len(blocks[s]) |->
                IF IsWhole(blocks[s][i]) THEN blocks[s][i].points ELSE <<>>]) \o buffer[s]

BufferedRecords(s) ==
  UNION {Range(walbuf[i].points) : i \in {j \in 1..Len(walbuf) : walbuf[j].series = s}}

\* Write-ahead: every point in a buffer is in wal.log or still in the WAL buffer,
\* so a later WAL flush or a replay can find it.  The exception is the time
\* between the fopen(..., "wb") of tsedge_wal_truncate_to_buffers and the end of
\* its loop.
WalBeforeBuffer ==
  pc # "rewrite" =>
    \A s \in Series : Range(buffer[s]) \subseteq LoggedPoints(wal, s) \union BufferedRecords(s)

\* No step takes an acknowledged point off the disk while no buffer holds it,
\* except tsedge_delete_series: the WAL may be truncated only because what its
\* records hold is in blocks or in buffers by then.
KeepsAcknowledged ==
  [][\A s \in Series : \A n \in Acknowledged(s) \intersect OnDisk(s) :
       \/ n \in OnDisk(s)' \union Range(buffer'[s])
       \/ fate'[s][n] = "deleting"]_vars

\* A crash loses the newest points of a series only: a point on disk has every
\* earlier point that was acknowledged (and not lost before) on disk with it,
\* whatever the durability mode and wherever wal.log is in its rewrite.
LossIsSuffix ==
  \A s \in Series : \A m, n \in PointsOf(s, {"pending", "accepted", "durable"}) :
    m < n /\ n \in OnDisk(s) => m \in OnDisk(s)

\* tsedge_append in STRICT mode, tsedge_flush and tsedge_flush_all returned
\* TSEDGE_OK for a durable point: the end of the process does not lose it.
PromiseKept ==
  [][\A s \in Series : \A n \in PointsOf(s, {"durable"}) : fate'[s][n] # "lost"]_vars

\* When every file operation succeeds, a durable point is lost in one way only:
\* the process dies while wal.log is rewritten, and the point is in a buffer.
LossOnlyInRewrite ==
  [][\A s \in Series : \A n \in PointsOf(s, {"durable"}) :
       fate'[s][n] = "lost" => pc = "rewrite" /\ n \in Range(buffer[s])]_vars

\* Once tsedge_delete_series has returned TSEDGE_OK, no restart and no series
\* created again under the name brings its points back.
DeletedStaysDeleted ==
  \A s \in Series : PointsOf(s, {"deleted"}) \intersect
      (OnDisk(s) \union BufferedRecords(s) \union Range(Visible(s))) = {}

\* Until the first crash or failure a query sees every acknowledged point once, in
\* the order of the calls, across flushes, closes and opens.
ExactlyOnceInOrder ==
  pc = "idle" /\ crashes = 0 /\ faults = 0 =>
    \A s \in Range(registry) :
      /\ Range(Visible(s)) = Acknowledged(s)
      /\ \A i, j \in 1..Len(Visible(s)) : i < j => Visible(s)[i] < Visible(s)[j]

\* A block can reach the disk and its records stay in wal.log; replay then brings
\* its points a second time.  A crash or a failure adds one copy at most of each
\* record that wal.log holds.  A WAL flush that stops after whole records were
\* written is repeated as a whole later, which puts them into wal.log once more.
CopiesBounded ==
  pc = "idle" =>
    \E retries \in 0..(IF TornWrites THEN faults ELSE 0) :
      \A s \in Series : \A n \in Range(Visible(s)) :
        Cardinality({i \in 1..Len(Visible(s)) : Visible(s)[i] = n})
          <= (1 + retries) * (1 + crashes + faults - retries)

\* FAST and BALANCED keep at most a threshold's worth of records in memory, or
\* a single record that is larger, also right after the mode changes.
WalBufferBounded == Len(walbuf) > 1 => Cells(walbuf) <= WalLimit

\* Every call returns: the loops over chunks, series and WAL records end.
CallsReturn == (pc \notin {"idle", "closed"}) ~> (pc \in {"idle", "closed"})

\* A database that crashed once, with all its fragments, is not refused for its
\* wal.log: the fragment is the end of the file.
TornTailAccepted == pc = "closed" /\ crashes <= 1 /\ faults = 0 => ~WalCorrupt(wal)

\* Every whole record of wal.log is replayed by the next open.
WholeRecordsReplayed ==
  pc = "closed" => \A i \in 1..Len(wal) : IsWhole(wal[i]) => i <= Len(Intact(wal))

\* A point whose append was rejected does not show up in a query.
RejectedStaysOut ==
  pc = "idle" => \A s \in Series : PointsOf(s, {"rejected"}) \intersect Range(Visible(s)) = {}
=============================================================================
