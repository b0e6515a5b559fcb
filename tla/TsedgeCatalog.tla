--------------------------- MODULE TsedgeCatalog ---------------------------
(***************************************************************************)
(* The series of a TSEdge database as a set of directories, as the array   *)
(* db->series of an open database, and as handles the application keeps;   *)
(* manifest.txt and metadata.txt; and what tsedge_verify says of the files *)
(* that calls, crashes and failures leave.                                 *)
(*                                                                         *)
(* The write path is that of TsedgeStore with its steps put together: an   *)
(* append is durable at once (STRICT), and a flush of one series or of all *)
(* is one step, which a crash or a failed write can cut in a block or in   *)
(* the rewrite of wal.log.  A buffer that fills up is flushed by its       *)
(* append: that is a flush of one series before the append.  Buffers that  *)
(* fill up in the replay, and writes to wal.log that fail in an append,    *)
(* are left to TsedgeStore.                                                *)
(*                                                                         *)
(* A name can be deleted and created again.  Each time the directory is    *)
(* made anew the series gets the next birth number, which the code does    *)
(* not have; a point is known by the birth of the series it was meant for. *)
(***************************************************************************)
EXTENDS TsedgeFiles, FiniteSets

CONSTANTS
  Names,       \* names of series
  Hidden,      \* those that start with a dot
  NoName,      \* the target of a call that is about no series
  MaxBirths,   \* bound: directories ever made
  MaxAppends,  \* bound: points ever appended
  MaxCrashes,  \* bound: crashes
  MaxFaults    \* bound: file operations that fail

ASSUME CatalogAssumption ==
  /\ IsFiniteSet(Names)
  /\ Hidden \subseteq Names
  /\ NoName \notin Names
  /\ {MaxBirths, MaxAppends, MaxCrashes, MaxFaults} \subseteq Nat

VARIABLES
  (*************************************************************************)
  (* The database directory.                                               *)
  (*************************************************************************)
  manifest,        \* manifest.txt: its state, and the names it lists
  metadata,        \* per name, the state of metadata.txt; "nodir": no directory
  hasSegment,      \* names whose directory has a segment file
  blocks,          \* per name, the blocks of that file
  wal,             \* the records of wal.log
  (*************************************************************************)
  (* The tsedge_db object.                                                 *)
  (*************************************************************************)
  series,          \* db->series
  nextGeneration,  \* db->next_series_generation
  handles,         \* db->handles
  buffer,          \* per name, the buffer of the series
  (*************************************************************************)
  (* The call in progress, and the history.                                *)
  (*************************************************************************)
  pc, op, target,
  owner,           \* per name, the birth of its directory, 0 when there is none
  births, appends, crashes, faults,
  interrupted,     \* a crash or a failure hit a call
  owed,            \* per name, the points that a reader found when the database was last open
  exposed          \* names that a rewrite of wal.log cut short has left without their record

disk    == <<manifest, metadata, hasSegment, blocks, wal>>
memory  == <<series, nextGeneration, handles, buffer>>
call    == <<pc, op, target>>
origin  == <<owner, births>>
history == <<appends, crashes, faults, interrupted, owed, exposed>>
vars    == <<disk, memory, call, origin, history>>

Empty == [s \in Names |-> <<>>]

NoManifest == [state |-> "none", names |-> {}]

Init ==
  /\ manifest = NoManifest /\ metadata = [s \in Names |-> "nodir"]
  /\ hasSegment = {} /\ blocks = Empty /\ wal = <<>>
  /\ series = <<>> /\ nextGeneration = 0 /\ handles = <<>> /\ buffer = Empty
  /\ pc = "closed" /\ op = "none" /\ target = NoName
  /\ owner = [s \in Names |-> 0] /\ births = 0
  /\ appends = 0 /\ crashes = 0 /\ faults = 0 /\ interrupted = FALSE
  /\ owed = [s \in Names |-> 0] /\ exposed = {}

-----------------------------------------------------------------------------

Registered == {series[i].name : i \in DOMAIN series}

\* tsedge_db_find_series
Position(s) == CHOOSE i \in DOMAIN series : series[i].name = s

Directories == {s \in Names : metadata[s] # "nodir"}

Return == pc' = "idle" /\ op' = "none" /\ target' = NoName

\* tsedge_db_free_memory, or the end of the process.
Forget ==
  /\ pc' = "closed" /\ op' = "none" /\ target' = NoName
  /\ series' = <<>> /\ nextGeneration' = 0 /\ handles' = <<>> /\ buffer' = Empty

-----------------------------------------------------------------------------
(* tsedge_open *)

\* load_existing_series: readdir gives the directories in some order.
Open ==
  /\ pc = "closed"
  /\ \A s \in Directories : ~SegmentCorrupt(blocks[s])
  /\ \E order \in [1..Cardinality(Directories) -> Directories] :
       /\ Range(order) = Directories /\ IsInjective(order)
       /\ series' = [i \in DOMAIN order |->
                       [name |-> order[i], generation |-> i, birth |-> owner[order[i]]]]
       /\ nextGeneration' = Len(order)
  /\ pc' = "replay" /\ op' = "open"
  /\ UNCHANGED <<disk, handles, buffer, target, origin, history>>

\* A segment file of some series cannot be scanned.
OpenFails ==
  /\ pc = "closed"
  /\ \E s \in Directories : SegmentCorrupt(blocks[s])
  /\ UNCHANGED vars

\* The points of the intact records of series s, and those of the blocks of its
\* file that a scan finds.
Logged(s) ==
  FlattenSeq([i \in DOMAIN Intact(wal) |->
                IF wal[i].series = s THEN wal[i].points ELSE <<>>])

Stored(s) == FlattenSeq([i \in DOMAIN Intact(blocks[s]) |-> blocks[s][i].points])

\* Names of intact records that have no directory.
Unknown ==
  {s \in Names \ Registered : \E i \in DOMAIN Intact(wal) : wal[i].series = s}

\* replay_point_for_name creates the series of a record that has none, and puts
\* the points of every intact record into the buffer of its series.
Replay ==
  /\ pc = "replay" /\ ~WalCorrupt(wal)
  /\ IF Unknown # {}
       THEN \E s \in Unknown :
              /\ births' = births + 1
              /\ owner' = [owner EXCEPT ![s] = births + 1]
              /\ metadata' = [metadata EXCEPT ![s] = "whole"]
              /\ series' = Append(series, [name |-> s, generation |-> nextGeneration + 1,
                                           birth |-> births + 1])
              /\ nextGeneration' = nextGeneration + 1
              /\ UNCHANGED <<buffer, pc, owed, exposed>>
       ELSE /\ buffer' = [s \in Names |-> Logged(s)]
            /\ owed' = [s \in Names |-> Len(Logged(s)) + Len(Stored(s))]
            /\ exposed' = {}
            /\ pc' = "manifest"
            /\ UNCHANGED <<origin, metadata, series, nextGeneration>>
  /\ UNCHANGED <<manifest, hasSegment, blocks, wal, handles, op, target,
                 appends, crashes, faults, interrupted>>

ReplayFails ==
  /\ pc = "replay" /\ WalCorrupt(wal)
  /\ Forget
  /\ UNCHANGED <<disk, origin, history>>

-----------------------------------------------------------------------------
(* tsedge_db_rewrite_manifest, the last part of open, create and delete *)

\* fopen(..., "w") empties the file.
EmptyManifest ==
  /\ pc = "manifest"
  /\ manifest' = [state |-> "empty", names |-> {}]
  /\ pc' = "listing"
  /\ UNCHANGED <<metadata, hasSegment, blocks, wal, memory, op, target, origin, history>>

\* fclose writes it.
WriteManifest ==
  /\ pc = "listing"
  /\ manifest' = [state |-> "whole", names |-> Registered]
  /\ Return
  /\ UNCHANGED <<metadata, hasSegment, blocks, wal, memory, origin, history>>

-----------------------------------------------------------------------------
(* tsedge_create_series; it returns at once when the series is registered *)

\* tsedge_mkdir_if_needed: the directory of a creation that failed is taken over.
MakeDirectory(s) ==
  /\ pc = "idle"
  /\ s \notin Registered
  /\ births < MaxBirths
  /\ IF metadata[s] = "nodir"
       THEN /\ births' = births + 1
            /\ owner' = [owner EXCEPT ![s] = births + 1]
            /\ metadata' = [metadata EXCEPT ![s] = "none"]
       ELSE UNCHANGED <<origin, metadata>>
  /\ pc' = "metadata" /\ op' = "create" /\ target' = s
  /\ UNCHANGED <<manifest, hasSegment, blocks, wal, memory, history>>

\* create_metadata: fopen(..., "w").
EmptyMetadata ==
  /\ pc = "metadata"
  /\ metadata' = [metadata EXCEPT ![target] = "empty"]
  /\ pc' = "name"
  /\ UNCHANGED <<manifest, hasSegment, blocks, wal, memory, op, target, origin, history>>

\* fclose, and the rest of tsedge_db_add_series_object.
Register ==
  /\ pc = "name"
  /\ metadata' = [metadata EXCEPT ![target] = "whole"]
  /\ series' = Append(series, [name |-> target, generation |-> nextGeneration + 1,
                               birth |-> owner[target]])
  /\ nextGeneration' = nextGeneration + 1
  /\ pc' = "manifest"
  /\ UNCHANGED <<manifest, hasSegment, blocks, wal, handles, buffer, op, target, origin, history>>

-----------------------------------------------------------------------------
(* Handles *)

\* The handles that tsedge_db_get_series_handle looks for before it makes one.
Cached(s) ==
  {k \in DOMAIN handles : /\ handles[k].generation = series[Position(s)].generation
                          /\ handles[k].name = s}

\* Faulty variant: a handle is made on every call.
GetHandleAnew(s) ==
  /\ pc = "idle"
  /\ s \in Registered
  /\ Len(handles) < MaxBirths + 1
  /\ LET i == Position(s) IN
       handles' = Append(handles, [name |-> s, index |-> i, birth |-> series[i].birth,
                                   generation |-> series[i].generation])
  /\ UNCHANGED <<disk, series, nextGeneration, buffer, call, origin, history>>

\* tsedge_db_get_series_handle, which also brings the cached index up to date.
GetHandle(s) ==
  /\ pc = "idle"
  /\ s \in Registered
  /\ LET i == Position(s) IN
       IF Cached(s) # {}
         THEN handles' = [handles EXCEPT ![CHOOSE k \in Cached(s) : TRUE].index = i]
         ELSE handles' = Append(handles, [name |-> s, index |-> i, birth |-> series[i].birth,
                                          generation |-> series[i].generation])
  /\ UNCHANGED <<disk, series, nextGeneration, buffer, call, origin, history>>

\* Faulty variant: the cached index is used whatever series it is the index of now.
ResolveByIndex(h) ==
  IF h.index \in DOMAIN series THEN h.index ELSE 0

\* tsedge_db_resolve_series_handle: the cached index if its series is the right
\* one, a search otherwise; 0 is TSEDGE_ERR_NOT_FOUND.
Resolve(h) ==
  LET found == {i \in DOMAIN series : series[i].generation = h.generation /\ series[i].name = h.name}
  IN IF h.index \in DOMAIN series /\ series[h.index].generation = h.generation THEN h.index
     ELSE IF found # {} THEN CHOOSE i \in found : \A j \in found : i <= j
     ELSE 0

\* A point meant for the series born as `birth' goes to wal.log and to the buffer
\* of entry i.
Put(i, birth) ==
  LET s == series[i].name IN
    /\ wal' = Append(wal, WalRecord(s, <<birth>>))
    /\ buffer' = [buffer EXCEPT ![s] = Append(@, birth)]
    /\ owed' = [owed EXCEPT ![s] = @ + 1]

\* tsedge_append, tsedge_append_batch
AppendByName(s) ==
  /\ pc = "idle" /\ appends < MaxAppends /\ appends' = appends + 1
  /\ s \in Registered
  /\ Put(Position(s), series[Position(s)].birth)
  /\ UNCHANGED <<manifest, metadata, hasSegment, blocks, series, nextGeneration, handles, call,
                 origin, crashes, faults, interrupted, exposed>>

\* tsedge_append_handle, tsedge_append_batch_handle
AppendByHandle(k) ==
  /\ pc = "idle" /\ appends < MaxAppends /\ appends' = appends + 1
  /\ Resolve(handles[k]) # 0
  /\ Put(Resolve(handles[k]), handles[k].birth)
  /\ handles' = [handles EXCEPT ![k].index = Resolve(handles[k])]
  /\ UNCHANGED <<manifest, metadata, hasSegment, blocks, series, nextGeneration, call, origin,
                 crashes, faults, interrupted, exposed>>

-----------------------------------------------------------------------------
(* tsedge_flush, tsedge_flush_all, tsedge_close, and tsedge_delete_series *)

Pending == {s \in Registered : buffer[s] # <<>>}

\* The blocks of series s behind those in its file, once its buffer is written.
Flushed(s) == Append(blocks[s], Block(buffer[s]))

\* tsedge_wal_truncate_to_buffers: wal.log has one record for each buffer that is
\* left, in the order of db->series.
Rewritten(left) ==
  {[i \in DOMAIN order |-> WalRecord(order[i], buffer[order[i]])] :
     order \in {o \in [1..Cardinality(left) -> left] :
                  /\ Range(o) = left
                  /\ \A i, j \in DOMAIN o : i < j => Position(o[i]) < Position(o[j])}}

\* tsedge_series_flush of one series: tsedge_flush, and an append to a full buffer.
Flush(s) ==
  /\ pc = "idle"
  /\ s \in Pending
  /\ blocks' = [blocks EXCEPT ![s] = Flushed(s)]
  /\ hasSegment' = hasSegment \union {s}
  /\ buffer' = [buffer EXCEPT ![s] = <<>>]
  /\ wal' \in Rewritten(Pending \ {s})
  /\ exposed' = {}
  /\ UNCHANGED <<manifest, metadata, series, nextGeneration, handles, call, origin,
                 appends, crashes, faults, interrupted, owed>>

\* Faulty variant: an empty buffer is written to a file, too.
FlushAllFiles(name, s) ==
  /\ pc = "idle"
  /\ IF name = "delete" THEN s \in Registered ELSE s = NoName
  /\ blocks' = [n \in Names |-> IF n \in Pending THEN Flushed(n) ELSE blocks[n]]
  /\ hasSegment' = Directories
  /\ wal' = <<>> /\ exposed' = {}
  /\ IF name = "close" THEN Forget
     ELSE /\ buffer' = Empty
          /\ pc' = IF name = "delete" THEN "unlink" ELSE "idle"
          /\ op' = IF name = "delete" THEN "delete" ELSE "none"
          /\ target' = s
          /\ UNCHANGED <<series, nextGeneration, handles>>
  /\ UNCHANGED <<manifest, metadata, origin, appends, crashes, faults, interrupted, owed>>

\* Faulty variant: wal.log is not truncated.
FlushKeepsWal(name, s) ==
  /\ pc = "idle"
  /\ IF name = "delete" THEN s \in Registered ELSE s = NoName
  /\ blocks' = [n \in Names |-> IF n \in Pending THEN Flushed(n) ELSE blocks[n]]
  /\ hasSegment' = hasSegment \union Pending /\ exposed' = {}
  /\ IF name = "close" THEN Forget
     ELSE /\ buffer' = Empty
          /\ pc' = IF name = "delete" THEN "unlink" ELSE "idle"
          /\ op' = IF name = "delete" THEN "delete" ELSE "none"
          /\ target' = s
          /\ UNCHANGED <<series, nextGeneration, handles>>
  /\ UNCHANGED <<manifest, metadata, wal, origin, appends, crashes, faults, interrupted, owed>>

\* tsedge_db_flush_all, of a call about series s or about none: every buffer becomes a block and wal.log is emptied.
FlushAll(name, s) ==
  /\ pc = "idle"
  /\ IF name = "delete" THEN s \in Registered ELSE s = NoName
  /\ blocks' = [n \in Names |-> IF n \in Pending THEN Flushed(n) ELSE blocks[n]]
  /\ hasSegment' = hasSegment \union Pending
  /\ wal' = <<>> /\ exposed' = {}
  /\ IF name = "close" THEN Forget
     ELSE /\ buffer' = Empty
          /\ pc' = IF name = "delete" THEN "unlink" ELSE "idle"
          /\ op' = IF name = "delete" THEN "delete" ELSE "none"
          /\ target' = s
          /\ UNCHANGED <<series, nextGeneration, handles>>
  /\ UNCHANGED <<manifest, metadata, origin, appends, crashes, faults, interrupted, owed>>

\* remove_directory_recursive: the files in the order of readdir.
UnlinkMetadata ==
  /\ pc = "unlink"
  /\ metadata[target] \in {"empty", "whole"}
  /\ metadata' = [metadata EXCEPT ![target] = "none"]
  /\ UNCHANGED <<manifest, hasSegment, blocks, wal, memory, call, origin, history>>

UnlinkSegment ==
  /\ pc = "unlink"
  /\ target \in hasSegment
  /\ hasSegment' = hasSegment \ {target}
  /\ blocks' = [blocks EXCEPT ![target] = <<>>]
  /\ owed' = [owed EXCEPT ![target] = 0]
  /\ UNCHANGED <<manifest, metadata, wal, memory, call, origin,
                 appends, crashes, faults, interrupted, exposed>>

\* Faulty variant: manifest.txt is left as it is.
RemoveDirectoryOnly ==
  /\ pc = "unlink"
  /\ metadata[target] = "none" /\ target \notin hasSegment
  /\ metadata' = [metadata EXCEPT ![target] = "nodir"]
  /\ owner' = [owner EXCEPT ![target] = 0]
  /\ series' = RemoveAt(series, Position(target))
  /\ Return
  /\ UNCHANGED <<manifest, hasSegment, blocks, wal, nextGeneration, handles, buffer, births,
                 history>>

\* Faulty variant: the entry of db->series stays.
RemoveDirectoryKeepsEntry ==
  /\ pc = "unlink"
  /\ metadata[target] = "none" /\ target \notin hasSegment
  /\ metadata' = [metadata EXCEPT ![target] = "nodir"]
  /\ owner' = [owner EXCEPT ![target] = 0]
  /\ pc' = "manifest"
  /\ UNCHANGED <<manifest, hasSegment, blocks, wal, memory, op, target, births,
                 history>>

\* rmdir, and the memmove that closes the gap in db->series.
RemoveDirectory ==
  /\ pc = "unlink"
  /\ metadata[target] = "none" /\ target \notin hasSegment
  /\ metadata' = [metadata EXCEPT ![target] = "nodir"]
  /\ owner' = [owner EXCEPT ![target] = 0]
  /\ series' = RemoveAt(series, Position(target))
  /\ pc' = "manifest"
  /\ UNCHANGED <<manifest, hasSegment, blocks, wal, nextGeneration, handles, buffer, op, target,
                 births, history>>

-----------------------------------------------------------------------------
(* What the environment does *)

Crashes ==
  /\ crashes < MaxCrashes
  /\ crashes' = crashes + 1
  /\ Forget

Crash ==
  /\ pc # "closed"
  /\ Crashes
  /\ interrupted' = (interrupted \/ pc # "idle")
  /\ UNCHANGED <<disk, origin, appends, faults, owed, exposed>>

\* The process dies in an append: part of the record is in wal.log.
CrashInAppend ==
  /\ pc = "idle" /\ appends < MaxAppends /\ appends' = appends + 1
  /\ \E i \in DOMAIN series :
       \E part \in PartialWrites(<<WalRecord(series[i].name, <<series[i].birth>>)>>) :
         wal' = wal \o part
  /\ Crashes
  /\ interrupted' = TRUE
  /\ UNCHANGED <<manifest, metadata, hasSegment, blocks, origin, faults, owed, exposed>>

\* A write of a flush stops: the process dies, or the call returns the error when
\* the buffers of `done' are empty already (tsedge_close frees the database then, too).
CutShort(done) ==
  /\ interrupted' = TRUE
  /\ \/ Crashes /\ UNCHANGED faults
     \/ /\ faults < MaxFaults /\ faults' = faults + 1 /\ UNCHANGED crashes
        /\ \/ Forget
           \/ /\ buffer' = [n \in Names |-> IF n \in done THEN <<>> ELSE buffer[n]]
              /\ UNCHANGED <<series, nextGeneration, handles, call>>

\* In a block: the series of `done' have theirs, the next one has part of it or
\* just an empty file, and wal.log is as it was.
BlockStops ==
  /\ pc = "idle"
  /\ \E done \in SUBSET Pending, s \in Pending :
       /\ s \notin done
       /\ \E part \in PartialWrites(<<Block(buffer[s])>>) :
            blocks' = [n \in Names |-> CASE n \in done -> Flushed(n)
                                         [] n = s -> blocks[n] \o part
                                         [] OTHER -> blocks[n]]
       /\ hasSegment' = hasSegment \union done \union {s}
       /\ CutShort(done)
  /\ UNCHANGED <<manifest, metadata, wal, origin, appends, owed, exposed>>

\* In the rewrite of wal.log, which fopen(..., "wb") empties first: the buffers of
\* `done', all or that of one series, are blocks by then, and of those that are left
\* some have no record any more.
RewriteStops ==
  /\ pc = "idle"
  /\ \E done \in {Pending} \union {{s} : s \in Pending} :
       /\ blocks' = [n \in Names |-> IF n \in done THEN Flushed(n) ELSE blocks[n]]
       /\ hasSegment' = hasSegment \union done
       /\ \/ wal' = wal
          \/ \E rest \in Rewritten(Pending \ done) : wal' \in PartialWrites(rest)
       /\ exposed' = exposed \union {n \in Pending \ done :
                                       \A i \in DOMAIN wal' : wal'[i].series # n}
       /\ CutShort(done)
  /\ UNCHANGED <<manifest, metadata, origin, appends, owed>>

\* A file operation on metadata.txt, manifest.txt or a file to be removed fails,
\* and with it the call.
Fault ==
  /\ pc \in {"metadata", "name", "manifest", "listing", "unlink"}
  /\ faults < MaxFaults
  /\ faults' = faults + 1
  /\ interrupted' = TRUE
  /\ IF op = "open" THEN Forget ELSE Return /\ UNCHANGED memory
  /\ UNCHANGED <<disk, origin, appends, crashes, owed, exposed>>

-----------------------------------------------------------------------------

CreateStep ==
  \/ \E s \in Names : MakeDirectory(s)
  \/ EmptyMetadata \/ Register

HandleStep ==
  \/ \E s \in Names : GetHandle(s)
  \/ \E s \in Names : AppendByName(s)
  \/ \E k \in DOMAIN handles : AppendByHandle(k)

FlushStep ==
  \/ \E s \in Names : Flush(s)
  \/ \E name \in {"flush_all", "close", "delete"}, s \in Names \union {NoName} : FlushAll(name, s)

DeleteStep == UnlinkMetadata \/ UnlinkSegment \/ RemoveDirectory

Next ==
  \/ Open \/ OpenFails \/ Replay \/ ReplayFails \/ EmptyManifest \/ WriteManifest
  \/ CreateStep \/ HandleStep \/ FlushStep \/ DeleteStep
  \/ Crash \/ CrashInAppend \/ BlockStops \/ RewriteStops \/ Fault

Spec == Init /\ [][Next]_vars

-----------------------------------------------------------------------------
(* tsedge_verify, which looks at the files only *)

\* verify_segment_file: an empty file, a header or a payload cut short.  A payload
\* cut short is passed over by its size, as in the scan, so that later bytes that
\* fill it exactly hide it; bytes beyond make no valid header.
VerifySegment(s) ==
  s \in hasSegment =>
    /\ blocks[s] # <<>>
    /\ \/ Fragments(blocks[s]) = {}
       \/ /\ blocks[s][FirstFragment(blocks[s])].got > 0
          /\ CellsAfter(blocks[s]) = Missing(blocks[s])

\* verify_series_dir
VerifySeries(s) == metadata[s] = "whole" /\ VerifySegment(s)

\* Faulty variant: wal.log is read the way tsedge_wal_replay does, up to the first
\* entry that is not whole.
VerifyWalReadable == TRUE

\* tsedge_wal_verify_file, which knows no torn final entry.
VerifyWal == Fragments(wal) = {}

\* tsedge_verify_internal; verify_series_root skips names that start with a dot.
Verified ==
  /\ manifest.state = "whole"
  /\ \A s \in Directories \ Hidden : VerifySeries(s)
  /\ VerifyWal

-----------------------------------------------------------------------------
(* Properties *)

\* The values of the variables, directories and files that belong to a series
\* directory, and entries of db->series that have one.
TypeOK ==
  /\ manifest \in [state : {"none", "empty", "whole"}, names : SUBSET Names]
  /\ metadata \in [Names -> {"nodir", "none", "empty", "whole"}]
  /\ hasSegment \subseteq Directories
  /\ \A s \in Names : blocks[s] # <<>> => s \in hasSegment
  /\ \A s \in Names : owner[s] \in 0..births /\ (owner[s] = 0 <=> s \notin Directories)
  /\ Registered \subseteq Directories
  /\ \A i \in DOMAIN series : series[i].generation \in 1..nextGeneration
  /\ \A k \in DOMAIN handles : handles[k].index \in 1..MaxBirths
  /\ \A s \in Names : buffer[s] # <<>> => s \in Registered
  /\ pc \in {"closed", "replay", "manifest", "listing", "idle", "metadata", "name", "unlink"}
  /\ op \in {"none", "open", "create", "delete"}
  /\ target \in Names \union {NoName}
  /\ exposed \subseteq Names

\* What a handle was made for stays what it is used for.  Deleting a series moves
\* the ones behind it in db->series, and a deleted name can be created again: the
\* index a handle caches is then that of another series, or its name is.  Whatever
\* creations and deletions lie in between, a handle leads to the series it was made
\* for as long as that lives, and to TSEDGE_ERR_NOT_FOUND from then on.
HandleReachesItsSeries ==
  \A k \in DOMAIN handles :
    LET i == Resolve(handles[k]) IN
      IF i # 0 THEN series[i].birth = handles[k].birth
               ELSE \A j \in DOMAIN series : series[j].birth # handles[k].birth

\* The database gives out one handle for a series, however often it is asked: the
\* handles of a database never outnumber the series it ever had.
OneHandlePerSeries ==
  \A j, k \in DOMAIN handles : j # k => handles[j].birth # handles[k].birth

\* A point is kept under the series it was meant for, in the buffer, in wal.log
\* and in the segment files: never under a series that took over its place in
\* db->series or its name, across crashes and replays, too.
PointsStayHome ==
  \A s \in Names :
    Range(Logged(s) \o Stored(s) \o buffer[s]) \subseteq {owner[s]} \ {0}

\* tsedge_verify has nothing to complain of in a database that no crash and no
\* failed call has hit, be it open or closed.
CleanVerifies ==
  ~interrupted /\ pc \in {"idle", "closed"} /\ manifest # NoManifest => Verified

\* README.md: "manifest.txt lists known series".  Between calls it does, whatever
\* crashes came before, as long as no write of it has failed.
ManifestCurrent ==
  pc = "idle" /\ faults = 0 => manifest = [state |-> "whole", names |-> Registered]

\* A database that tsedge_verify accepts is opened, and with every point that could
\* be read before it was closed or crashed, wherever a call was cut: tsedge_verify is
\* as strict about the end of wal.log and about blocks as it takes for that.  What it
\* cannot know is left out: series whose records a rewrite of wal.log had emptied away
\* (wal.c:336-355, the window of the run rewrite_loss), files with a block cut short
\* that later bytes fill exactly (verify.c:155), and series whose names start with a
\* dot, which it skips.
VerifiedRecovers ==
  pc = "closed" /\ Verified =>
    /\ ~WalCorrupt(wal)
    /\ \A s \in Directories \ Hidden :
         /\ ~SegmentCorrupt(blocks[s])
         /\ s \notin exposed /\ Fragments(blocks[s]) = {} =>
              Len(Logged(s)) + Len(Stored(s)) >= owed[s]
=============================================================================
