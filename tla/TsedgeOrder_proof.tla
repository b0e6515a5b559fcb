------------------------- MODULE TsedgeOrder_proof -------------------------
(***************************************************************************)
(* What holds of TsedgeStore when file operations succeed and a crash      *)
(* leaves whole items, the setting of tsedge_wal_truncate_to_buffers'      *)
(* window alone: the write-ahead rule, the window as the only way to lose  *)
(* a durable point, losses that are suffixes, exactly-once reads up to the *)
(* first crash, and that TsedgeStore implements TsedgeContract.            *)
(*                                                                         *)
(* LiveInv says where the live points are: each one is where the next step *)
(* looks for it, and nothing else is anywhere.  OrderInv adds in which     *)
(* order they lie: blocks, wal.log, the WAL buffer and the remaining batch *)
(* follow each other in the order of the calls.                            *)
(*                                                                         *)
(* The last part is about every behaviour, with operations that fail and   *)
(* writes that stop half-way: how many copies of a point there can be      *)
(* (CountInv).                                                             *)
(***************************************************************************)
EXTENDS TsedgeStore_proof, TsedgeStoreContract

\* No file operation fails, and a crash leaves whole items.
NoFaults == TornWrites = FALSE /\ MaxFaults = 0

\* Points that were neither rejected nor lost nor deleted.
Live(s) == PointsOf(s, {"pending", "accepted", "durable"})

Remaining(s) == IF s = target THEN Range(rest) ELSE {}

InFiles(s) == InLog(wal, s) \union PointsIn(blocks[s])

-----------------------------------------------------------------------------
(* Where the points are *)

\* Every point that is anywhere is live, and every live point is where the next
\* step looks for it.
OnlyLive == \A s \in Series : Anywhere(s) \subseteq Live(s)

LiveWhere ==
  \A s \in Series : Live(s) \subseteq IF Up THEN Held(s) \union Remaining(s) ELSE InFiles(s)

\* Write-ahead, and how the rewrite of wal.log restores it.
BufLogged == pc # "rewrite" => \A s \in Series : Range(buffer[s]) \subseteq Logged(s)

Rewritten ==
  pc = "rewrite" => \A j \in 1..Len(registry) : j < cursor =>
    Range(buffer[registry[j]]) \subseteq InLog(wal, registry[j])

ChunkLogged ==
  pc \in {"sync", "place"} => Range(SubSeq(rest, 1, ChunkLength)) \subseteq Logged(target)

\* What the replay works on comes from the records it has read.
ReplayFrom ==
  op = "open" =>
    /\ rest # <<>> =>
         /\ cursor - 1 \in 1..Len(wal) /\ wal[cursor - 1].series = target
         /\ Range(rest) \subseteq Range(wal[cursor - 1].points)
    /\ \A s \in Series : \A n \in Range(buffer[s]) :
         \E i \in 1..Len(wal) : i < cursor /\ wal[i].series = s /\ n \in Range(wal[i].points)

\* Where the WAL buffer is empty.
WbEmpty ==
  /\ pc \in {"block", "closed", "rewrite"} \/ op = "open" => walbuf = <<>>
  /\ durability = "STRICT" /\ pc # "sync" => walbuf = <<>>

DurableOnDisk ==
  \A s \in Series : \A n \in PointsOf(s, {"durable"}) :
    n \in InFiles(s) \/ (pc = "rewrite" /\ n \in Range(buffer[s]))

FlushEmpties == op = "flush" /\ pc \in {"truncate", "rewrite"} => buffer[target] = <<>>

Good == KeepInv /\ GoneInv

LiveInv ==
  /\ Good
  /\ OnlyLive /\ LiveWhere /\ BufLogged /\ Rewritten /\ ChunkLogged /\ ReplayFrom
  /\ WbEmpty /\ DurableOnDisk /\ FlushEmpties

\* What Good gives on its own.
LEMMA GoodFacts ==
  ASSUME Good
  PROVE  /\ TypeInv /\ PathInv /\ KeepInv /\ Undeleted
         /\ pc # "broken"
         /\ ~Up => \A s \in Series : op = "open" \/ buffer[s] = <<>>
         /\ op \notin {"append", "open"} => rest = <<>>
         /\ \A s \in Series : OnDisk(s) = InFiles(s)
<1>1. TypeInv /\ PathInv /\ KeepInv /\ Undeleted /\ pc # "broken"
  BY DEF Good, KeepInv, GoneInv, Unbroken
<1>2. ~Up => \A s \in Series : op = "open" \/ buffer[s] = <<>>
  BY <1>1 DEF Up, PathInv, PathOK
<1>3. op \notin {"append", "open"} => rest = <<>>
  BY <1>1 DEF PathInv, PathOK
<1>4. \A s \in Series : OnDisk(s) = InFiles(s)
  BY <1>1, OnDiskWhole DEF KeepInv, Unbroken, OnDisk, InFiles
<1> QED
  BY <1>1, <1>2, <1>3, <1>4

\* Good is inductive.
LEMMA NextGood ==
  ASSUME NoFaults, Good, [Next]_vars
  PROVE  Good'
BY NextKeepInv, NextGoneInv DEF Good, NoFaults

\* The steps there are when no file operation fails.
LEMMA FaultlessSteps ==
  ASSUME NoFaults, Good, [Next]_vars
  PROVE  UNCHANGED vars \/ Open \/ StartCall \/ Continue \/ Crash
<1>1. faults = 0 /\ MaxFaults = 0 /\ ~(faults < MaxFaults)
  BY GoodFacts DEF NoFaults, TypeInv, TypeOK
<1>2. ~PartialWrite /\ ~Fault /\ \A s \in Series : ~CreateFails(s)
  BY <1>1 DEF PartialWrite, Fault, CreateFails, NoFaults
<1> QED
  BY <1>2 DEF Next, Environment, OpenFails

\* What a call that returns TSEDGE_OK with nothing left over does to the fates.
LEMMA ReturnedFates ==
  ASSUME TypeInv, Return("ok"), rest = <<>>, NEW s \in Series
  PROVE  /\ Live(s)' = Live(s)
         /\ PointsOf(s, {"durable"}) \subseteq PointsOf(s, {"durable"})'
         /\ \A n \in PointsOf(s, {"durable"})' :
              \/ n \in PointsOf(s, {"durable"})
              \/ op = "append" /\ durability = "STRICT" /\ n \in PointsOf(s, {"pending"})
              \/ op = "flush" /\ s = target /\ n \in PointsOf(s, {"accepted"})
              \/ op = "flush_all" /\ n \in PointsOf(s, {"accepted"})
         /\ PointsOf(s, {"deleting", "deleted"})' = PointsOf(s, {"deleting", "deleted"})
         /\ PointsOf(s, {"pending"})' = {}
<1>1. fate[s] \in Seq(Fates)
  BY Typing
<1>2. fate'[s] = [n \in 1..Len(fate[s]) |-> FateAtReturn("ok", s, n)]
  BY DEF Return
<1>3. /\ Len(fate'[s]) = Len(fate[s])
      /\ \A n \in 1..Len(fate[s]) : fate'[s][n] = FateAtReturn("ok", s, n) /\ fate[s][n] \in Fates
  BY <1>1, <1>2
<1>4. \A n : n \notin Range(rest)
  BY RangeEmpty
<1> DEFINE promised(n) == \/ op = "append" /\ durability = "STRICT" /\ fate[s][n] = "pending"
                          \/ op = "flush" /\ s = target /\ fate[s][n] = "accepted"
                          \/ op = "flush_all" /\ fate[s][n] = "accepted"
<1>5. ASSUME NEW n \in 1..Len(fate[s])
      PROVE  /\ fate[s][n] \in {"pending", "accepted", "durable"} <=> fate'[s][n] \in {"pending", "accepted", "durable"}
             /\ fate[s][n] = "durable" => fate'[s][n] = "durable"
             /\ fate'[s][n] = "durable" => fate[s][n] = "durable" \/ promised(n)
             /\ fate[s][n] \in {"deleting", "deleted"} <=> fate'[s][n] \in {"deleting", "deleted"}
             /\ fate'[s][n] # "pending"
  <2>1. fate'[s][n] = FateAtReturn("ok", s, n) /\ fate[s][n] \in Fates /\ n \notin Range(rest)
    BY <1>3, <1>4, <1>5
  <2> QED
    BY <2>1 DEF FateAtReturn, Fates
<1> QED
  BY <1>3, <1>5 DEF Live, PointsOf

\* What the end of the process does to the fates.
LEMMA ForgottenFates ==
  ASSUME TypeInv, Forget, NEW s \in Series
  PROVE  /\ Live(s)' = Live(s) \intersect OnDisk(s)
         /\ PointsOf(s, {"durable"})' = PointsOf(s, {"durable"}) \intersect OnDisk(s)
         /\ PointsOf(s, {"deleting", "deleted"})' = PointsOf(s, {"deleting", "deleted"})
         /\ \A n \in 1..Len(fate[s]) : fate'[s][n] = FateAtEnd(s, n)
<1>1. fate[s] \in Seq(Fates)
  BY Typing
<1>2. fate'[s] = [n \in 1..Len(fate[s]) |-> FateAtEnd(s, n)]
  BY DEF Forget
<1>3. /\ Len(fate'[s]) = Len(fate[s])
      /\ \A n \in 1..Len(fate[s]) : fate'[s][n] = FateAtEnd(s, n) /\ fate[s][n] \in Fates
  BY <1>1, <1>2
<1>4. ASSUME NEW n \in 1..Len(fate[s])
      PROVE  /\ fate'[s][n] \in {"pending", "accepted", "durable"} <=>
                  fate[s][n] \in {"pending", "accepted", "durable"} /\ n \in OnDisk(s)
             /\ fate'[s][n] = "durable" <=> fate[s][n] = "durable" /\ n \in OnDisk(s)
             /\ fate[s][n] \in {"deleting", "deleted"} <=> fate'[s][n] \in {"deleting", "deleted"}
  <2>1. fate'[s][n] = FateAtEnd(s, n) /\ fate[s][n] \in Fates
    BY <1>3, <1>4
  <2> QED
    BY <2>1 DEF FateAtEnd, Fates
<1> QED
  BY <1>3, <1>4 DEF Live, PointsOf

\* The initial state.
LEMMA InitLiveInv == Init => LiveInv
<1> SUFFICES ASSUME Init PROVE LiveInv
  OBVIOUS
<1>1. \A s \in Series : buffer[s] = <<>> /\ blocks[s] = <<>> /\ fate[s] = <<>>
  BY EmptyType DEF Init
<1>2. PointsIn(<<>>) = {} /\ wal = <<>> /\ walbuf = <<>> /\ rest = <<>> /\ pc = "closed" /\ op = "none"
  BY DEF PointsIn, Init
<1>3. \A s \in Series : Anywhere(s) = {}
  BY <1>1, <1>2, RangeEmpty, InLogEmpty DEF Anywhere, Logged, Held
<1>4. \A s \in Series : \A f : PointsOf(s, f) = {}
  BY <1>1 DEF PointsOf
<1>5. Good
  BY InitKeepInv, InitPathInv, InitUndeleted DEF Good, GoneInv
<1>6. OnlyLive /\ LiveWhere /\ DurableOnDisk
  BY <1>3, <1>4 DEF OnlyLive, LiveWhere, DurableOnDisk, Live
<1>7. BufLogged /\ Rewritten /\ ChunkLogged /\ ReplayFrom /\ WbEmpty /\ FlushEmpties
  BY <1>1, <1>2, RangeEmpty DEF BufLogged, Rewritten, ChunkLogged, ReplayFrom, WbEmpty, FlushEmpties
<1> QED
  BY <1>5, <1>6, <1>7 DEF LiveInv

\* A step that leaves the files, the buffers and the fates alone.
LEMMA QuietLiveInv ==
  ASSUME LiveInv, Good', UNCHANGED <<wal, walbuf, blocks, buffer, fate, durability>>,
         Up' = Up,
         UNCHANGED <<target, rest>> \/ (rest = <<>> /\ rest' = <<>>),
         pc' \notin {"sync", "place", "rewrite", "block", "closed"}, pc # "sync",
         \A s \in Series : Range(buffer[s]) \subseteq Logged(s),
         pc = "rewrite" => \A s \in Series : Range(buffer[s]) \subseteq InLog(wal, s),
         op' = "open" => rest = <<>> /\ walbuf = <<>> /\ \A s \in Series : buffer[s] = <<>>,
         op' = "flush" => pc' # "truncate"
  PROVE  LiveInv'
<1>1. \A s \in Series : Remaining(s)' = Remaining(s)
  BY RangeEmpty DEF Remaining
<1>2. OnlyLive'
  <2>1. \A s \in Series : Anywhere(s)' = Anywhere(s)
    BY <1>1 DEF Anywhere, Remaining, Logged, Held
  <2> QED
    BY <2>1 DEF LiveInv, OnlyLive, Live, PointsOf
<1>3. LiveWhere'
  <2>1. \A s \in Series : Held(s)' = Held(s) /\ InFiles(s)' = InFiles(s) /\ Live(s)' = Live(s)
    BY DEF Held, InFiles, Live, PointsOf
  <2> QED
    BY <1>1, <2>1 DEF LiveInv, LiveWhere
<1>4. BufLogged' /\ Rewritten' /\ ChunkLogged' /\ FlushEmpties'
  BY DEF BufLogged, Rewritten, ChunkLogged, FlushEmpties, Logged
<1>5. ReplayFrom'
  BY RangeEmpty DEF ReplayFrom
<1>6. WbEmpty'
  BY DEF LiveInv, WbEmpty
<1>7. DurableOnDisk'
  BY DEF LiveInv, DurableOnDisk, InFiles, PointsOf
<1> QED
  BY <1>2, <1>3, <1>4, <1>5, <1>6, <1>7 DEF LiveInv

\* Where the rewrite has reached the end of the registry, wal.log covers all buffers.
LEMMA RewrittenAll ==
  ASSUME LiveInv, pc = "rewrite", cursor > Len(registry), NEW s \in Series
  PROVE  Range(buffer[s]) \subseteq InLog(wal, s)
<1>1. CASE buffer[s] = <<>>
  BY <1>1, RangeEmpty
<1>2. CASE buffer[s] # <<>>
  <2>1. registry \in Seq(Series) /\ cursor \in Nat
    BY Typing, GoodFacts DEF LiveInv
  <2>2. s \in Range(registry)
    BY <1>2, GoodFacts DEF LiveInv, PathInv, PathOK
  <2>3. PICK j \in 1..Len(registry) : registry[j] = s
    BY <2>1, <2>2, RangeMember
  <2>4. j < cursor
    BY <2>1
  <2> QED
    BY <2>3, <2>4 DEF LiveInv, Rewritten
<1> QED
  BY <1>1, <1>2

\* A call returns TSEDGE_OK: its promises are kept.
LEMMA ReturnLiveInv ==
  ASSUME LiveInv, Good', Return("ok"), rest = <<>>, UNCHANGED <<blocks, buffer>>,
         \/ UNCHANGED <<wal, walbuf, durability>> /\ pc # "sync"
         \/ wal' = wal \o walbuf /\ walbuf' = <<>> /\ op \notin {"append", "flush", "flush_all"},
         \A s \in Series : Live(s) \subseteq Held(s),
         \A s \in Series : Range(buffer[s]) \subseteq Logged(s),
         pc = "rewrite" => \A s \in Series : Range(buffer[s]) \subseteq InLog(wal, s),
         op = "flush" => buffer[target] = <<>>,
         op = "flush_all" => \A s \in Series : buffer[s] = <<>>
  PROVE  LiveInv'
<1>1. pc' = "idle" /\ op' = "none" /\ rest' = <<>>
  BY DEF Return
<1>2. Up'
  BY <1>1 DEF Up
<1>3. TypeInv /\ KeepInv
  BY GoodFacts DEF LiveInv
<1>4. \A s \in Series : /\ Live(s)' = Live(s) /\ Held(s)' = Held(s) /\ Logged(s)' = Logged(s)
                        /\ InLog(wal, s) \subseteq InLog(wal, s)'
  <2>1. \A s \in Series : Live(s)' = Live(s) /\ Held(s)' = Held(s)
    BY <1>3, ReturnedFates DEF Held
  <2>2. CASE UNCHANGED <<wal, walbuf>>
    BY <2>1, <2>2 DEF Logged
  <2>3. CASE wal' = wal \o walbuf /\ walbuf' = <<>>
    <3>1. \A s \in Series : InLog(wal', s) = InLog(wal, s) \union InLog(walbuf, s)
      BY <1>3, <2>3, InLogConcat, Typing
    <3> QED
      BY <2>1, <2>3, <3>1, InLogEmpty DEF Logged
  <2> QED
    BY <2>2, <2>3
<1>5. OnlyLive'
  <2>1. \A s \in Series : Anywhere(s)' \subseteq Anywhere(s)
    BY <1>1, <1>4, RangeEmpty DEF Anywhere
  <2> QED
    BY <1>4, <2>1 DEF LiveInv, OnlyLive
<1>6. LiveWhere'
  BY <1>2, <1>4 DEF LiveWhere
<1>7. BufLogged' /\ Rewritten' /\ ChunkLogged' /\ FlushEmpties' /\ ReplayFrom'
  BY <1>1, <1>4 DEF BufLogged, Rewritten, ChunkLogged, FlushEmpties, ReplayFrom
<1>8. WbEmpty'
  BY <1>1 DEF LiveInv, WbEmpty
<1>9. DurableOnDisk'
  <2> SUFFICES ASSUME NEW s \in Series, NEW n \in PointsOf(s, {"durable"})'
               PROVE  n \in InFiles(s)'
    BY DEF DurableOnDisk
  <2>1. InFiles(s) \subseteq InFiles(s)'
    BY <1>4 DEF InFiles
  <2>2. \/ n \in PointsOf(s, {"durable"})
        \/ op = "append" /\ durability = "STRICT" /\ n \in PointsOf(s, {"pending"})
        \/ op = "flush" /\ s = target /\ n \in PointsOf(s, {"accepted"})
        \/ op = "flush_all" /\ n \in PointsOf(s, {"accepted"})
    BY <1>3, ReturnedFates
  <2>3. CASE n \in PointsOf(s, {"durable"})
    BY <2>1, <2>3 DEF LiveInv, DurableOnDisk, InFiles
  <2>4. n \in PointsOf(s, {"pending"}) \/ n \in PointsOf(s, {"accepted"}) => n \in Held(s)
    BY DEF Live, PointsOf
  <2>5. CASE op = "append" /\ durability = "STRICT" /\ n \in PointsOf(s, {"pending"})
    <3>1. n \in Logged(s) \union PointsIn(blocks[s])
      BY <2>4, <2>5 DEF Held
    <3>2. walbuf = <<>>
      BY <2>5 DEF LiveInv, WbEmpty
    <3> QED
      BY <2>1, <3>1, <3>2, InLogEmpty DEF Logged, InFiles
  <2>6. CASE buffer[s] = <<>> /\ n \in PointsOf(s, {"accepted"})
    BY <2>1, <2>4, <2>6, RangeEmpty DEF Held, InFiles
  <2> QED
    BY <2>2, <2>3, <2>5, <2>6
<1> QED
  BY <1>5, <1>6, <1>7, <1>8, <1>9 DEF LiveInv

\* The tsedge_db object goes away.
LEMMA ForgetLiveInv ==
  ASSUME LiveInv, Good', Forget
  PROVE  LiveInv'
<1>1. /\ pc' = "closed" /\ op' = "none" /\ rest' = <<>> /\ walbuf' = <<>>
      /\ UNCHANGED <<wal, blocks>> /\ buffer' = Empty
  BY DEF Forget, disk
<1>2. \A s \in Series : buffer'[s] = <<>>
  BY <1>1, EmptyType
<1>3. ~Up'
  BY <1>1 DEF Up
<1>4. \A s \in Series : /\ Live(s)' = Live(s) \intersect InFiles(s)
                        /\ PointsOf(s, {"durable"})' = PointsOf(s, {"durable"}) \intersect InFiles(s)
                        /\ InFiles(s)' = InFiles(s)
  BY <1>1, ForgottenFates, GoodFacts DEF LiveInv, InFiles
<1>5. \A s \in Series : Anywhere(s)' = InFiles(s)
  BY <1>1, <1>2, RangeEmpty, InLogEmpty DEF Anywhere, Logged, Held, InFiles
<1>6. \A s \in Series : InFiles(s) \subseteq Anywhere(s)
  BY DEF InFiles, Anywhere, Logged, Held
<1>7. OnlyLive'
  BY <1>4, <1>5, <1>6 DEF LiveInv, OnlyLive
<1>8. LiveWhere' /\ DurableOnDisk'
  BY <1>3, <1>4 DEF LiveWhere, DurableOnDisk
<1>9. BufLogged' /\ Rewritten' /\ ChunkLogged' /\ ReplayFrom' /\ WbEmpty' /\ FlushEmpties'
  BY <1>1, <1>2, RangeEmpty DEF BufLogged, Rewritten, ChunkLogged, ReplayFrom, WbEmpty, FlushEmpties
<1> QED
  BY <1>7, <1>8, <1>9 DEF LiveInv

\* The steps that only move the call on.
LEMMA QuietStepsLiveInv ==
  ASSUME LiveInv, Good',
         \/ Open \/ Chunk \/ NextSeries
         \/ FlushSeries /\ buffer[target] # <<>>
         \/ RewriteEnds /\ op \notin {"flush", "flush_all", "close"}
         \/ \E s \in Series : CreateSeries(s)
         \/ \E mode \in Selected : SetDurability(mode)
         \/ \E s \in Series : StartFlush(s)
         \/ \E name \in {"flush_all", "close", "delete"}, s \in Series \union {NoSeries} : StartFlushAll(name, s)
  PROVE  LiveInv'
<1>1. TypeInv /\ CallOK /\ PathOK
  BY GoodFacts DEF LiveInv, TypeInv, PathInv
<1>2. ASSUME pc # "rewrite" PROVE \A s \in Series : Range(buffer[s]) \subseteq Logged(s)
  BY <1>2 DEF LiveInv, BufLogged
<1>3. CASE Open
  <2>1. /\ pc = "closed" /\ pc' = "replay" /\ op' = "open"
        /\ UNCHANGED <<wal, walbuf, blocks, buffer, fate, durability, target, rest>>
    BY <1>3 DEF Open, Goto, disk
  <2>2. rest = <<>> /\ walbuf = <<>> /\ \A s \in Series : buffer[s] = <<>>
    BY <1>1, <2>1 DEF CallOK, PathOK, LiveInv, WbEmpty
  <2>3. Up' = Up
    BY <2>1 DEF Up
  <2> QED
    BY <1>2, <2>1, <2>2, <2>3, QuietLiveInv
<1>4. CASE Chunk \/ NextSeries \/ (FlushSeries /\ buffer[target] # <<>>)
  <2>1. /\ pc \in {"chunk", "next", "flush"} /\ pc' \in {"seal", "spill", "log", "truncate", "next"}
        /\ UNCHANGED <<wal, walbuf, blocks, buffer, fate, durability, op, target, rest>>
        /\ pc' = "truncate" => pc = "next"
    BY <1>4 DEF Chunk, NextSeries, FlushSeries, Goto, disk, memory, call
  <2>2. op # "open" /\ (pc = "next" => op # "flush")
    BY <1>1, <2>1 DEF CallOK, PathOK, Bulk
  <2>3. Up' = Up
    BY <2>1, <2>2 DEF Up
  <2> QED
    BY <1>2, <2>1, <2>2, <2>3, QuietLiveInv
<1>5. CASE RewriteEnds /\ op \notin {"flush", "flush_all", "close"}
  <2>1. /\ pc = "rewrite" /\ cursor > Len(registry) /\ pc' \in {"chunk", "unlink"}
        /\ UNCHANGED <<wal, walbuf, blocks, buffer, fate, durability, op, target, rest>>
    BY <1>5 DEF RewriteEnds, Goto, disk, memory
  <2>2. op # "open"
    BY <1>1, <2>1 DEF PathOK, Bulk
  <2>3. Up' = Up
    BY <2>1, <2>2 DEF Up
  <2>4. \A s \in Series : Range(buffer[s]) \subseteq InLog(wal, s) /\ Range(buffer[s]) \subseteq Logged(s)
    BY <2>1, RewrittenAll DEF Logged
  <2> QED
    BY <2>1, <2>2, <2>3, <2>4, QuietLiveInv
<1>6. ASSUME pc = "idle", pc' \in {"idle", "switch", "flush", "next"}, op' # "open",
             UNCHANGED <<wal, walbuf, blocks, buffer, fate, durability, rest>>
      PROVE  LiveInv'
  <2>1. rest = <<>> /\ op = "none"
    BY <1>1, <1>6 DEF CallOK
  <2>2. Up' = Up
    BY <1>6, <2>1 DEF Up
  <2> QED
    BY <1>2, <1>6, <2>1, <2>2, QuietLiveInv
<1>7. ASSUME NEW s \in Series, CreateSeries(s) PROVE LiveInv'
  <2>1. pc = "idle" /\ pc' = "idle" /\ op' = op /\ UNCHANGED <<wal, walbuf, blocks, buffer, fate, durability, rest>>
    BY <1>7 DEF CreateSeries, call
  <2> QED
    BY <1>1, <1>6, <2>1 DEF CallOK
<1>8. ASSUME NEW mode \in Selected, SetDurability(mode) PROVE LiveInv'
  <2>1. mode # "open"
    BY StoreAssumption
  <2>2. pc = "idle" /\ pc' = "switch" /\ op' = mode /\ UNCHANGED <<wal, walbuf, blocks, buffer, fate, durability, rest>>
    BY <1>8 DEF SetDurability, Goto, disk, memory
  <2> QED
    BY <1>6, <2>1, <2>2
<1>9. ASSUME NEW s \in Series, StartFlush(s) PROVE LiveInv'
  BY <1>6, <1>9 DEF StartFlush, Call, Goto, disk, memory
<1>10. ASSUME NEW name \in {"flush_all", "close", "delete"}, NEW s, StartFlushAll(name, s) PROVE LiveInv'
  BY <1>6, <1>10 DEF StartFlushAll, Call, Goto, disk, memory
<1> QED
  BY <1>3, <1>4, <1>5, <1>7, <1>8, <1>9, <1>10

\* At the end of the replay everything in wal.log is in a buffer or in a block.
LEMMA ReplayedAll ==
  ASSUME KeepInv, ReplayEnds
  PROVE  /\ Return("ok") /\ UNCHANGED <<disk, memory>> /\ op = "open" /\ pc = "replay" /\ rest = <<>>
         /\ \A s \in Series : InLog(wal, s) \subseteq Held(s)
<1>1. pc = "replay" /\ rest = <<>> /\ cursor > Len(Intact(wal)) /\ Fragments(wal) = {}
  BY DEF ReplayEnds, KeepInv, Unbroken
<1>2. op = "open" /\ Intact(wal) = wal /\ ~WalCorrupt(wal)
  BY <1>1, NoFragments DEF KeepInv, TypeInv, CallOK, WalCorrupt
<1>3. ASSUME NEW s \in Series, NEW n \in InLog(wal, s) PROVE n \in Held(s)
  <2>1. PICK i \in 1..Len(wal) : wal[i].series = s /\ n \in Range(wal[i].points)
    BY <1>3, InLogMember
  <2>2. i < cursor
    <3>1. Len(wal) \in Nat /\ cursor \in Nat
      BY Typing DEF KeepInv
    <3> QED
      BY <1>1, <1>2, <3>1
  <2>3. n \notin Range(rest)
    BY <1>1, RangeEmpty
  <2> QED
    BY <1>2, <2>1, <2>2, <2>3 DEF KeepInv, ReplayHeld
<1> QED
  BY <1>1, <1>2, <1>3 DEF ReplayEnds

\* The steps in which a call returns.
LEMMA ReturnStepsLiveInv ==
  ASSUME LiveInv, Good',
         \/ AppendDone \/ ReplayEnds \/ RemoveDirectory
         \/ FlushSeries /\ buffer[target] = <<>>
         \/ RewriteEnds /\ op \in {"flush", "flush_all"}
         \/ WalFlush /\ pc = "switch",
         NoFaults
  PROVE  LiveInv'
<1>1. TypeInv /\ CallOK /\ PathOK /\ EmptiedOK /\ KeepInv
  BY GoodFacts DEF LiveInv, TypeInv, PathInv
<1>2. \A s \in Series : op \notin {"append", "open"} \/ (rest = <<>> /\ op # "open") => (Up /\ Remaining(s) = {}) \/ pc = "closed"
  BY <1>1, RangeEmpty DEF PathOK, Remaining, Up
<1>3. ASSUME pc # "closed", op # "open", rest = <<>> PROVE \A s \in Series : Live(s) \subseteq Held(s)
  <2>1. Up /\ \A s \in Series : Remaining(s) = {}
    BY <1>3, RangeEmpty DEF Up, Remaining
  <2> QED
    BY <2>1 DEF LiveInv, LiveWhere
<1>4. ASSUME pc # "rewrite" PROVE \A s \in Series : Range(buffer[s]) \subseteq Logged(s)
  BY <1>4 DEF LiveInv, BufLogged
<1>5. CASE AppendDone
  <2>1. pc = "chunk" /\ rest = <<>> /\ Return("ok") /\ UNCHANGED <<wal, walbuf, blocks, buffer, durability>>
    BY <1>5 DEF AppendDone, disk, memory
  <2>2. op = "append"
    BY <1>1, <2>1 DEF CallOK
  <2> QED
    BY <1>3, <1>4, <2>1, <2>2, ReturnLiveInv
<1>6. CASE ReplayEnds
  <2>1. /\ Return("ok") /\ UNCHANGED <<wal, walbuf, blocks, buffer, durability>> /\ op = "open" /\ pc = "replay"
        /\ rest = <<>> /\ \A s \in Series : InLog(wal, s) \subseteq Held(s)
    BY <1>1, <1>6, ReplayedAll DEF disk, memory
  <2>2. \A s \in Series : Live(s) \subseteq Held(s)
    BY <2>1 DEF LiveInv, LiveWhere, Up, InFiles, Held
  <2> QED
    BY <1>4, <2>1, <2>2, ReturnLiveInv
<1>7. CASE RemoveDirectory
  <2>1. pc = "rmdir" /\ UNCHANGED <<wal, walbuf, blocks, buffer, durability>> /\ Return("ok")
    <3>1. ~(faults < MaxFaults)
      BY <1>1 DEF NoFaults, TypeInv, TypeOK
    <3> QED
      BY <1>7, <3>1 DEF RemoveDirectory
  <2>2. op = "delete" /\ rest = <<>>
    BY <1>1, <2>1 DEF PathOK
  <2> QED
    BY <1>3, <1>4, <2>1, <2>2, ReturnLiveInv
<1>8. CASE FlushSeries /\ buffer[target] = <<>>
  <2>1. pc = "flush" /\ Return("ok") /\ UNCHANGED <<wal, walbuf, blocks, buffer, durability>>
    BY <1>8 DEF FlushSeries, disk, memory
  <2>2. op = "flush" /\ rest = <<>>
    BY <1>1, <2>1 DEF PathOK
  <2> QED
    BY <1>3, <1>4, <1>8, <2>1, <2>2, ReturnLiveInv
<1>9. CASE RewriteEnds /\ op \in {"flush", "flush_all"}
  <2>1. pc = "rewrite" /\ cursor > Len(registry) /\ Return("ok") /\ UNCHANGED <<wal, walbuf, blocks, buffer, durability>>
    BY <1>9 DEF RewriteEnds, disk, memory
  <2>2. rest = <<>> /\ (op = "flush_all" => \A s \in Series : buffer[s] = <<>>)
    BY <1>1, <1>9, <2>1 DEF PathOK, EmptiedOK, Bulk
  <2>3. op = "flush" => buffer[target] = <<>>
    BY <2>1 DEF LiveInv, FlushEmpties
  <2>4. \A s \in Series : Range(buffer[s]) \subseteq InLog(wal, s) /\ Range(buffer[s]) \subseteq Logged(s)
    BY <2>1, RewrittenAll DEF Logged
  <2> QED
    BY <1>3, <1>9, <2>1, <2>2, <2>3, <2>4, ReturnLiveInv
<1>10. CASE WalFlush /\ pc = "switch"
  <2>1. wal' = wal \o walbuf /\ walbuf' = <<>> /\ Return("ok") /\ UNCHANGED <<blocks, buffer>>
    BY <1>10 DEF WalFlush
  <2>2. op \in Modes /\ rest = <<>>
    BY <1>1, <1>10 DEF CallOK, PathOK, Modes
  <2> QED
    BY <1>3, <1>4, <1>10, <2>1, <2>2, ReturnLiveInv DEF Modes
<1> QED
  BY <1>5, <1>6, <1>7, <1>8, <1>9, <1>10

\* The process ends.
LEMMA EndLiveInv ==
  ASSUME LiveInv, Good', Crash \/ (RewriteEnds /\ op = "close")
  PROVE  LiveInv'
BY ForgetLiveInv DEF Crash, RewriteEnds

\* A record is taken for the replay.
LEMMA ReplayRecordLiveInv ==
  ASSUME LiveInv, Good', ReplayRecord
  PROVE  LiveInv'
<1>1. /\ pc = "replay" /\ target' = wal[cursor].series /\ rest' = wal[cursor].points /\ cursor' = cursor + 1
      /\ UNCHANGED <<wal, walbuf, blocks, buffer, fate, durability, pc, op>>
  BY DEF ReplayRecord
<1>2. op = "open" /\ cursor \in 1..Len(wal) /\ cursor' - 1 = cursor /\ TypeInv
  BY <1>1, ReplayedRecord, GoodFacts DEF LiveInv, TypeInv, CallOK
<1>3. ~Up /\ ~Up'
  BY <1>1, <1>2 DEF Up
<1>4. OnlyLive'
  <2>1. \A n \in Range(rest') : n \in InLog(wal, target')
    BY <1>1, <1>2, InLogMember
  <2>2. \A s \in Series : Anywhere(s)' \subseteq Anywhere(s)
    BY <1>1, <2>1 DEF Anywhere, Logged, Held
  <2> QED
    BY <1>1, <2>2 DEF LiveInv, OnlyLive, Live, PointsOf
<1>5. LiveWhere' /\ DurableOnDisk'
  BY <1>1, <1>3 DEF LiveInv, LiveWhere, DurableOnDisk, Live, PointsOf, InFiles
<1>6. ReplayFrom'
  <2>1. \A i \in 1..Len(wal) : i < cursor => i < cursor'
    BY <1>1, <1>2
  <2> QED
    BY <1>1, <1>2, <2>1 DEF LiveInv, ReplayFrom
<1>7. BufLogged' /\ Rewritten' /\ ChunkLogged' /\ WbEmpty' /\ FlushEmpties'
  BY <1>1, <1>2 DEF LiveInv, BufLogged, Rewritten, ChunkLogged, WbEmpty, FlushEmpties, Logged
<1> QED
  BY <1>4, <1>5, <1>6, <1>7 DEF LiveInv

\* A chunk moves from what remains to the buffer.
LEMMA ChunkMoves ==
  ASSUME TypeInv, target \in Series,
         buffer' = [buffer EXCEPT ![target] = @ \o SubSeq(rest, 1, ChunkLength)],
         rest' = SubSeq(rest, ChunkLength + 1, Len(rest)),
         UNCHANGED <<wal, walbuf, blocks, target, fate>>
  PROVE  \A s \in Series :
           /\ Held(s) \union Remaining(s) = Held(s)' \union Remaining(s)'
           /\ Anywhere(s)' = Anywhere(s)
           /\ Range(buffer'[s]) \subseteq Range(buffer[s]) \union
                (IF s = target THEN Range(SubSeq(rest, 1, ChunkLength)) ELSE {})
           /\ Range(buffer[s]) \subseteq Range(buffer'[s])
           /\ Range(rest') \subseteq Range(rest)
           /\ Range(SubSeq(rest, 1, ChunkLength)) \subseteq Range(rest)
<1> DEFINE chunk == SubSeq(rest, 1, ChunkLength)
           left == SubSeq(rest, ChunkLength + 1, Len(rest))
<1>1. rest \in Seq(Nat) /\ ChunkLength \in 0..Len(rest)
  BY ChunkFits, Typing DEF TypeInv
<1>2. Range(rest) = Range(chunk) \union Range(left)
  BY <1>1, RangeSplit
<1>3. /\ Range(buffer'[target]) = Range(buffer[target]) \union Range(chunk)
      /\ \A s \in Series : s # target => buffer'[s] = buffer[s]
  BY ChunkIsHeld
<1>4. rest' = left
  OBVIOUS
<1> HIDE DEF chunk, left
<1>5. \A s \in Series : Held(s) \union Remaining(s) = Held(s)' \union Remaining(s)'
  BY <1>2, <1>3, <1>4 DEF Held, Remaining
<1>6. \A s \in Series : Anywhere(s)' = Anywhere(s)
  BY <1>5 DEF Anywhere, Remaining, Logged
<1> QED
  BY <1>2, <1>3, <1>4, <1>5, <1>6 DEF chunk

\* The replay moves points to a buffer, or starts to write a block.
LEMMA ReplayPointsLiveInv ==
  ASSUME LiveInv, Good', ReplayPoints
  PROVE  LiveInv'
<1>1. /\ pc = "replay" /\ rest # <<>> /\ pc' \in {"replay", "seal"}
      /\ UNCHANGED <<wal, walbuf, blocks, fate, durability, op, target, cursor>>
  BY DEF ReplayPoints, Goto, disk
<1>2. op = "open" /\ target \in Series /\ TypeInv
  BY <1>1, GoodFacts DEF LiveInv, TypeInv, CallOK
<1>3. ~Up /\ ~Up'
  BY <1>1, <1>2 DEF Up
<1>4. LiveWhere' /\ DurableOnDisk'
  BY <1>1, <1>3 DEF LiveInv, LiveWhere, DurableOnDisk, Live, PointsOf, InFiles
<1>5. Rewritten' /\ ChunkLogged' /\ WbEmpty' /\ FlushEmpties'
  BY <1>1, <1>2 DEF LiveInv, Rewritten, ChunkLogged, WbEmpty, FlushEmpties
<1>6. CASE UNCHANGED <<buffer, rest>>
  <2>1. OnlyLive' /\ BufLogged' /\ ReplayFrom'
    BY <1>1, <1>6 DEF LiveInv, OnlyLive, BufLogged, ReplayFrom, Anywhere, Logged, Held, Live, PointsOf
  <2> QED
    BY <1>4, <1>5, <2>1 DEF LiveInv
<1>7. CASE /\ buffer' = [buffer EXCEPT ![target] = @ \o SubSeq(rest, 1, ChunkLength)]
           /\ rest' = SubSeq(rest, ChunkLength + 1, Len(rest))
  <2> DEFINE chunk == SubSeq(rest, 1, ChunkLength)
  <2>1. \A s \in Series : /\ Anywhere(s)' = Anywhere(s)
                          /\ Range(buffer'[s]) \subseteq Range(buffer[s]) \union (IF s = target THEN Range(chunk) ELSE {})
    BY <1>1, <1>2, <1>7, ChunkMoves
  <2>2. Range(rest') \subseteq Range(rest) /\ Range(chunk) \subseteq Range(rest)
    BY <1>1, <1>2, <1>7, ChunkMoves
  <2> HIDE DEF chunk
  <2>3. OnlyLive'
    BY <1>1, <2>1 DEF LiveInv, OnlyLive, Live, PointsOf
  <2>4. /\ cursor - 1 \in 1..Len(wal) /\ wal[cursor - 1].series = target
        /\ Range(rest) \subseteq Range(wal[cursor - 1].points)
    BY <1>1, <1>2 DEF LiveInv, ReplayFrom
  <2>5. cursor - 1 < cursor
    BY <1>2, Typing
  <2>6. \A s \in Series : \A n \in Range(buffer'[s]) :
          \E i \in 1..Len(wal) : i < cursor /\ wal[i].series = s /\ n \in Range(wal[i].points)
    <3> SUFFICES ASSUME NEW s \in Series, NEW n \in Range(buffer'[s])
                 PROVE  \E i \in 1..Len(wal) : i < cursor /\ wal[i].series = s /\ n \in Range(wal[i].points)
      OBVIOUS
    <3>1. CASE n \in Range(buffer[s])
      BY <1>2, <3>1 DEF LiveInv, ReplayFrom
    <3>2. CASE s = target /\ n \in Range(chunk)
      BY <2>2, <2>4, <2>5, <3>2
    <3> QED
      BY <2>1, <3>1, <3>2
  <2>7. ReplayFrom'
    BY <1>1, <2>2, <2>4, <2>6 DEF ReplayFrom
  <2>8. BufLogged'
    <3> SUFFICES ASSUME NEW s \in Series, NEW n \in Range(buffer'[s]) PROVE n \in InLog(wal, s)
      BY <1>1 DEF BufLogged, Logged
    <3> QED
      BY <2>6, InLogMember
  <2> QED
    BY <1>4, <1>5, <2>3, <2>7, <2>8 DEF LiveInv
<1> QED
  BY <1>6, <1>7 DEF ReplayPoints

\* tsedge_append starts.
LEMMA StartAppendLiveInv ==
  ASSUME LiveInv, Good', NEW s \in Series, NEW k \in 1..MaxBatch, StartAppend(s, k)
  PROVE  LiveInv'
<1>1. /\ pc = "idle" /\ pc' = "chunk" /\ op' = "append" /\ target' = s
      /\ UNCHANGED <<wal, walbuf, blocks, buffer, durability>>
  BY DEF StartAppend, Call, Goto, disk, memory
<1>2. TypeInv /\ op = "none" /\ rest = <<>>
  BY <1>1, GoodFacts DEF LiveInv, TypeInv, CallOK
<1>3. Up /\ Up'
  BY <1>1, <1>2 DEF Up
<1>4. /\ Len(fate[s]) \in Nat /\ k \in Nat /\ Len(fate'[s]) = Len(fate[s]) + k
      /\ \A n \in 1..(Len(fate[s]) + k) : fate'[s][n] = IF n <= Len(fate[s]) THEN fate[s][n] ELSE "pending"
      /\ \A x \in Series : x # s => fate'[x] = fate[x]
      /\ \A n : n \in Range(rest') <=> n \in 1..(Len(fate[s]) + k) /\ ~(n <= Len(fate[s]))
  BY <1>2, HandedOver
<1>5. \A x \in Series : Live(x)' = Live(x) \union (IF x = s THEN Range(rest') ELSE {})
  <2> SUFFICES ASSUME NEW x \in Series, NEW n
               PROVE  n \in Live(x)' <=> n \in Live(x) \/ (x = s /\ n \in Range(rest'))
    OBVIOUS
  <2>1. CASE x = s
    <3>1. n \in Live(x)' <=> n \in 1..(Len(fate[s]) + k) /\ fate'[s][n] \in {"pending", "accepted", "durable"}
      BY <1>4, <2>1 DEF Live, PointsOf
    <3>2. n \in Live(x) <=> n \in 1..Len(fate[s]) /\ fate[s][n] \in {"pending", "accepted", "durable"}
      BY <2>1 DEF Live, PointsOf
    <3>3. n \in 1..Len(fate[s]) <=> n \in 1..(Len(fate[s]) + k) /\ n <= Len(fate[s])
      BY <1>4
    <3> QED
      BY <1>4, <2>1, <3>1, <3>2, <3>3
  <2>2. CASE x # s
    BY <1>4, <2>2 DEF Live, PointsOf
  <2> QED
    BY <2>1, <2>2
<1>6. \A x \in Series : Held(x)' = Held(x) /\ Logged(x)' = Logged(x) /\ Remaining(x) = {}
                        /\ Remaining(x)' = (IF x = s THEN Range(rest') ELSE {})
  BY <1>1, <1>2, RangeEmpty DEF Held, Logged, Remaining
<1>7. OnlyLive'
  BY <1>5, <1>6 DEF LiveInv, OnlyLive, Anywhere, Remaining
<1>8. LiveWhere'
  BY <1>3, <1>5, <1>6 DEF LiveInv, LiveWhere
<1>9. DurableOnDisk'
  <2> SUFFICES ASSUME NEW x \in Series, NEW n \in PointsOf(x, {"durable"})' PROVE n \in InFiles(x)'
    BY DEF DurableOnDisk
  <2>1. n \in PointsOf(x, {"durable"})
    BY <1>4 DEF PointsOf
  <2> QED
    BY <1>1, <2>1 DEF LiveInv, DurableOnDisk, InFiles
<1>10. BufLogged' /\ Rewritten' /\ ChunkLogged' /\ ReplayFrom' /\ WbEmpty' /\ FlushEmpties'
  BY <1>1 DEF LiveInv, BufLogged, Rewritten, ChunkLogged, ReplayFrom, WbEmpty, FlushEmpties, Logged
<1> QED
  BY <1>7, <1>8, <1>9, <1>10 DEF LiveInv

\* What a new record adds to the WAL buffer.
LEMMA LoggedChunk ==
  ASSUME TypeInv, Log
  PROVE  /\ target \in Series /\ op = "append" /\ pc = "log"
         /\ NextRecord \in Record /\ NextRecord.series = target
         /\ NextRecord.points = SubSeq(rest, 1, ChunkLength)
         /\ \A s \in Series : Logged(s)' = Logged(s) \union
              (IF s = target THEN Range(SubSeq(rest, 1, ChunkLength)) ELSE {})
         /\ \A s \in Series : InLog(walbuf', s) = InLog(walbuf, s) \union
              (IF s = target THEN Range(SubSeq(rest, 1, ChunkLength)) ELSE {})
         /\ Range(SubSeq(rest, 1, ChunkLength)) \subseteq Range(rest)
<1> DEFINE chunk == SubSeq(rest, 1, ChunkLength)
<1>1. /\ pc = "log" /\ walbuf' = Append(walbuf, NextRecord) /\ wal' = wal
  BY DEF Log, disk
<1>2. op = "append" /\ target \in Series /\ walbuf \in Seq(Record)
  BY <1>1, Typing DEF TypeInv, CallOK
<1>3. NextRecord \in Record /\ NextRecord.series = target /\ NextRecord.points = chunk
  BY <1>2, ChunkFits, RecordType DEF TypeInv, NextRecord, WalRecord
<1>4. Range(chunk) \subseteq Range(rest)
  <2>1. rest \in Seq(Nat) /\ ChunkLength \in 0..Len(rest)
    BY <1>2, ChunkFits, Typing DEF TypeInv
  <2> QED
    BY <2>1, RangeSplit
<1> HIDE DEF chunk
<1>5. \A s \in Series : InLog(walbuf', s) = InLog(walbuf, s) \union (IF target = s THEN Range(chunk) ELSE {})
  BY <1>1, <1>2, <1>3, InLogAppend
<1> QED
  BY <1>1, <1>2, <1>3, <1>4, <1>5 DEF Logged, chunk

\* A record is logged.
LEMMA LogLiveInv ==
  ASSUME LiveInv, Good', Log
  PROVE  LiveInv'
<1>1. /\ pc' = (IF durability = "STRICT" THEN "sync" ELSE "place")
      /\ UNCHANGED <<wal, blocks, buffer, fate, durability, op, target, rest>>
  BY DEF Log, Goto, disk, call
<1>2. TypeInv
  BY GoodFacts DEF LiveInv
<1>3. /\ target \in Series /\ op = "append" /\ pc = "log"
      /\ \A s \in Series : Logged(s)' = Logged(s) \union
           (IF s = target THEN Range(SubSeq(rest, 1, ChunkLength)) ELSE {})
      /\ Range(SubSeq(rest, 1, ChunkLength)) \subseteq Range(rest)
  BY <1>2, LoggedChunk
<1>4. Up /\ Up'
  BY <1>1, <1>3 DEF Up
<1>5. OnlyLive'
  <2>1. \A s \in Series : Anywhere(s)' \subseteq Anywhere(s)
    BY <1>1, <1>3 DEF Anywhere, Held
  <2> QED
    BY <1>1, <2>1 DEF LiveInv, OnlyLive, Live, PointsOf
<1>6. LiveWhere' /\ DurableOnDisk'
  BY <1>1, <1>3, <1>4 DEF LiveInv, LiveWhere, DurableOnDisk, Live, PointsOf, InFiles, Held, Remaining
<1>7. ChunkLogged'
  BY <1>1, <1>3 DEF ChunkLogged, ChunkLength
<1>8. BufLogged'
  BY <1>1, <1>3 DEF LiveInv, BufLogged
<1>9. Rewritten' /\ ReplayFrom' /\ WbEmpty' /\ FlushEmpties'
  BY <1>1, <1>3 DEF LiveInv, Rewritten, ReplayFrom, WbEmpty, FlushEmpties
<1> QED
  BY <1>5, <1>6, <1>7, <1>8, <1>9 DEF LiveInv

\* The logged chunk enters the buffer.
LEMMA PlaceLiveInv ==
  ASSUME LiveInv, Good', Place
  PROVE  LiveInv'
<1>1. /\ pc = "place" /\ pc' = "chunk"
      /\ buffer' = [buffer EXCEPT ![target] = @ \o SubSeq(rest, 1, ChunkLength)]
      /\ rest' = SubSeq(rest, ChunkLength + 1, Len(rest))
      /\ UNCHANGED <<wal, walbuf, blocks, fate, durability, op, target>>
  BY DEF Place, Goto, disk
<1>2. TypeInv /\ op = "append" /\ target \in Series
  BY <1>1, GoodFacts DEF LiveInv, TypeInv, CallOK
<1>3. Up /\ Up'
  BY <1>1, <1>2 DEF Up
<1> DEFINE chunk == SubSeq(rest, 1, ChunkLength)
<1>4. \A s \in Series :
        /\ Held(s) \union Remaining(s) = Held(s)' \union Remaining(s)'
        /\ Anywhere(s)' = Anywhere(s)
        /\ Range(buffer'[s]) \subseteq Range(buffer[s]) \union (IF s = target THEN Range(chunk) ELSE {})
  BY <1>1, <1>2, ChunkMoves
<1>5. Range(chunk) \subseteq Logged(target)
  BY <1>1 DEF LiveInv, ChunkLogged
<1> HIDE DEF chunk
<1>6. OnlyLive'
  BY <1>1, <1>4 DEF LiveInv, OnlyLive, Live, PointsOf
<1>7. LiveWhere'
  BY <1>1, <1>3, <1>4 DEF LiveInv, LiveWhere, Live, PointsOf
<1>8. BufLogged'
  BY <1>1, <1>4, <1>5 DEF LiveInv, BufLogged, Logged
<1>9. DurableOnDisk'
  BY <1>1 DEF LiveInv, DurableOnDisk, InFiles, PointsOf
<1>10. Rewritten' /\ ChunkLogged' /\ ReplayFrom' /\ WbEmpty' /\ FlushEmpties'
  BY <1>1, <1>2 DEF LiveInv, Rewritten, ChunkLogged, ReplayFrom, WbEmpty, FlushEmpties
<1> QED
  BY <1>6, <1>7, <1>8, <1>9, <1>10 DEF LiveInv

\* The WAL buffer goes to the file within a call.
LEMMA WalFlushLiveInv ==
  ASSUME LiveInv, Good', WalFlush, pc # "switch"
  PROVE  LiveInv'
<1>1. /\ pc \in {"spill", "sync", "seal"} /\ pc' \in {"log", "place", "block"}
      /\ pc' = "place" => pc = "sync"
      /\ wal' = wal \o walbuf /\ walbuf' = <<>>
      /\ UNCHANGED <<blocks, buffer, fate, durability, op, target, rest, cursor>>
  BY DEF WalFlush, Goto, AfterWalFlush, call
<1>2. TypeInv
  BY GoodFacts DEF LiveInv
<1>3. wal \in Seq(Record) /\ walbuf \in Seq(Record)
  BY <1>2, Typing
<1>4. \A s \in Series : InLog(wal', s) = InLog(wal, s) \union InLog(walbuf, s)
  BY <1>1, <1>3, InLogConcat
<1>5. \A s \in Series : Logged(s)' = Logged(s) /\ Held(s)' = Held(s) /\ Remaining(s)' = Remaining(s)
                        /\ Live(s)' = Live(s) /\ InFiles(s) \subseteq InFiles(s)'
  BY <1>1, <1>4, InLogEmpty DEF Logged, Held, Remaining, Live, PointsOf, InFiles
<1>6. OnlyLive'
  BY <1>5 DEF LiveInv, OnlyLive, Anywhere, Remaining
<1>7. Up' = Up
  BY <1>1 DEF Up
<1>8. LiveWhere'
  BY <1>5, <1>7 DEF LiveInv, LiveWhere
<1>9. BufLogged' /\ Rewritten' /\ FlushEmpties'
  BY <1>1, <1>5 DEF LiveInv, BufLogged, Rewritten, FlushEmpties
<1>10. ChunkLogged'
  <2> SUFFICES ASSUME pc' = "place" PROVE Range(SubSeq(rest, 1, ChunkLength)') \subseteq Logged(target)'
    BY <1>1 DEF ChunkLogged
  <2>1. ChunkLength' = ChunkLength
    BY <1>1 DEF ChunkLength
  <2>2. target \in Series
    BY <1>1, <1>2 DEF TypeInv, CallOK
  <2> QED
    BY <1>1, <1>5, <2>1, <2>2 DEF LiveInv, ChunkLogged
<1>11. ReplayFrom'
  <2> SUFFICES ASSUME op = "open" PROVE ReplayFrom'
    BY <1>1 DEF ReplayFrom
  <2>1. wal' = wal
    BY <1>1, <1>3, ConcatEmptySeq DEF LiveInv, WbEmpty
  <2> QED
    BY <1>1, <2>1 DEF LiveInv, ReplayFrom
<1>12. WbEmpty' /\ DurableOnDisk'
  BY <1>1, <1>5 DEF LiveInv, WbEmpty, DurableOnDisk, PointsOf
<1> QED
  BY <1>6, <1>8, <1>9, <1>10, <1>11, <1>12 DEF LiveInv

\* A buffer becomes a block.
LEMMA AppendBlockLiveInv ==
  ASSUME LiveInv, Good', AppendBlock
  PROVE  LiveInv'
<1>1. /\ pc = "block" /\ pc' \in {"truncate", "replay", "next"}
      /\ UNCHANGED <<wal, walbuf, fate, durability, op, target, rest, cursor, registry>>
      /\ buffer' = [buffer EXCEPT ![Flushed] = <<>>]
  BY DEF AppendBlock, Goto, call
<1>2. TypeInv
  BY GoodFacts DEF LiveInv
<1>3. \A s \in Series : /\ Held(s) = Held(s)'
                        /\ PointsIn(blocks[s]) \subseteq PointsIn(blocks'[s])
                        /\ Range(buffer'[s]) \subseteq Range(buffer[s])
  BY <1>2, BlockHolds
<1>4. \A s \in Series : Anywhere(s)' = Anywhere(s) /\ Remaining(s)' = Remaining(s) /\ Live(s)' = Live(s)
                        /\ InFiles(s) \subseteq InFiles(s)'
  BY <1>1, <1>3 DEF Anywhere, Remaining, Logged, Live, PointsOf, InFiles
<1>5. OnlyLive'
  BY <1>4 DEF LiveInv, OnlyLive
<1>6. Up' = Up
  BY <1>1 DEF Up
<1>7. LiveWhere'
  BY <1>3, <1>4, <1>6 DEF LiveInv, LiveWhere
<1>8. BufLogged' /\ Rewritten' /\ ChunkLogged' /\ WbEmpty'
  BY <1>1, <1>3 DEF LiveInv, BufLogged, Rewritten, ChunkLogged, WbEmpty, Logged
<1>9. ReplayFrom' /\ DurableOnDisk'
  BY <1>1, <1>3, <1>4 DEF LiveInv, ReplayFrom, DurableOnDisk, PointsOf
<1>10. FlushEmpties'
  <2> SUFFICES ASSUME op = "flush" PROVE buffer'[target] = <<>>
    BY <1>1 DEF FlushEmpties
  <2>1. Flushed = target
    BY DEF Flushed
  <2>2. target \in Series
    BY <1>1, <2>1, FlushedSeries, GoodFacts DEF LiveInv
  <2> QED
    BY <1>1, <1>2, <2>1, <2>2, Typing
<1> QED
  BY <1>5, <1>7, <1>8, <1>9, <1>10 DEF LiveInv

\* wal.log is emptied.
LEMMA TruncateWalLiveInv ==
  ASSUME LiveInv, Good', TruncateWal
  PROVE  LiveInv'
<1>1. /\ pc = "truncate" /\ pc' = "rewrite" /\ wal' = <<>> /\ walbuf' = <<>> /\ cursor' = 1
      /\ UNCHANGED <<blocks, durability, registry, buffer, op, target, rest, fate>>
  BY DEF TruncateWal, Goto
<1>2. TypeInv /\ KeepInv /\ PathOK
  BY GoodFacts DEF LiveInv, PathInv
<1>3. op # "open" /\ Up /\ Up'
  BY <1>1, <1>2 DEF PathOK, Bulk, Up
<1>4. \A s \in Series : /\ Logged(s)' = {} /\ Held(s)' = Held(s)
                        /\ Live(s)' = Live(s) /\ Remaining(s)' = Remaining(s)
  BY <1>1, InLogEmpty DEF Logged, Held, Live, PointsOf, Remaining
<1>5. OnlyLive'
  <2>1. \A s \in Series : Anywhere(s)' \subseteq Anywhere(s)
    BY <1>1, <1>4 DEF Anywhere
  <2> QED
    BY <1>4, <2>1 DEF LiveInv, OnlyLive
<1>6. LiveWhere'
  BY <1>3, <1>4 DEF LiveInv, LiveWhere
<1>7. DurableOnDisk'
  <2> SUFFICES ASSUME NEW s \in Series, NEW n \in PointsOf(s, {"durable"})
               PROVE  n \in PointsIn(blocks[s]) \/ n \in Range(buffer[s])
    BY <1>1 DEF DurableOnDisk, InFiles, PointsOf
  <2>1. n \in InLog(wal, s) \/ n \in PointsIn(blocks[s])
    BY <1>1 DEF LiveInv, DurableOnDisk, InFiles
  <2>2. n \in Acknowledged(s)
    BY DEF PointsOf, Acknowledged
  <2> QED
    BY <1>1, <1>2, <1>3, <2>1, <2>2 DEF KeepInv, Covered, Logged, Held
<1>8. Rewritten'
  <2>1. \A j \in 1..Len(registry) : ~(j < 1)
    BY <1>2, Typing
  <2> QED
    BY <1>1, <2>1 DEF Rewritten
<1>9. BufLogged' /\ ChunkLogged' /\ ReplayFrom' /\ WbEmpty' /\ FlushEmpties'
  BY <1>1, <1>3 DEF LiveInv, BufLogged, ChunkLogged, ReplayFrom, WbEmpty, FlushEmpties
<1> QED
  BY <1>5, <1>6, <1>7, <1>8, <1>9 DEF LiveInv

\* A buffer is written back to wal.log.
LEMMA RewriteWalLiveInv ==
  ASSUME LiveInv, Good', RewriteWal
  PROVE  LiveInv'
<1>1. /\ pc = "rewrite" /\ pc' = "rewrite" /\ cursor <= Len(registry) /\ cursor' = cursor + 1
      /\ wal' = (IF buffer[registry[cursor]] = <<>> THEN wal
                 ELSE Append(wal, WalRecord(registry[cursor], buffer[registry[cursor]])))
      /\ UNCHANGED <<walbuf, blocks, durability, registry, buffer, op, target, rest, fate>>
  BY DEF RewriteWal, memory
<1>2. TypeInv /\ PathOK /\ registry \in Seq(Series) /\ cursor \in Nat \ {0} /\ wal \in Seq(Record)
  BY GoodFacts, Typing DEF LiveInv, PathInv
<1>3. op # "open" /\ Up /\ Up'
  BY <1>1, <1>2 DEF PathOK, Bulk, Up
<1> DEFINE r == registry[cursor]
<1>4. cursor \in 1..Len(registry) /\ r \in Series
  BY <1>1, <1>2
<1>5. \A s \in Series : InLog(wal', s) = InLog(wal, s) \union (IF s = r THEN Range(buffer[r]) ELSE {})
  <2>1. CASE buffer[r] = <<>>
    BY <1>1, <2>1, RangeEmpty
  <2>2. CASE buffer[r] # <<>>
    <3>1. buffer[r] \in Seq(Nat)
      BY <1>2, <1>4, Typing
    <3>2. WalRecord(r, buffer[r]) \in Record /\ WalRecord(r, buffer[r]).series = r /\ WalRecord(r, buffer[r]).points = buffer[r]
      BY <1>4, <3>1, RecordType DEF WalRecord
    <3>3. wal' = Append(wal, WalRecord(r, buffer[r]))
      BY <1>1, <2>2
    <3> HIDE DEF r
    <3> QED
      BY <1>2, <3>2, <3>3, InLogAppend
  <2> QED
    BY <2>1, <2>2
<1> HIDE DEF r
<1>6. \A s \in Series : /\ Held(s)' = Held(s) /\ Live(s)' = Live(s) /\ Remaining(s)' = Remaining(s)
                        /\ Anywhere(s)' = Anywhere(s) /\ InFiles(s) \subseteq InFiles(s)'
  BY <1>1, <1>4, <1>5 DEF Held, Live, PointsOf, Remaining, Anywhere, Logged, InFiles
<1>7. OnlyLive' /\ LiveWhere'
  BY <1>3, <1>6 DEF LiveInv, OnlyLive, LiveWhere
<1>8. DurableOnDisk'
  BY <1>1, <1>6 DEF LiveInv, DurableOnDisk, PointsOf
<1>9. Rewritten'
  <2> SUFFICES ASSUME NEW j \in 1..Len(registry), j < cursor + 1
               PROVE  Range(buffer[registry[j]]) \subseteq InLog(wal', registry[j])
    BY <1>1 DEF Rewritten
  <2>1. registry[j] \in Series
    BY <1>2
  <2>2. CASE j < cursor
    BY <1>1, <1>5, <2>1, <2>2 DEF LiveInv, Rewritten
  <2>3. CASE j = cursor
    BY <1>5, <2>1, <2>3 DEF r
  <2> QED
    BY <1>2, <2>2, <2>3
<1>10. BufLogged' /\ ChunkLogged' /\ ReplayFrom' /\ WbEmpty' /\ FlushEmpties'
  BY <1>1, <1>3 DEF LiveInv, BufLogged, ChunkLogged, ReplayFrom, WbEmpty, FlushEmpties
<1> QED
  BY <1>7, <1>8, <1>9, <1>10 DEF LiveInv

\* What removing the segment file does to the points.
LEMMA UnlinkedPoints ==
  ASSUME PathInv, UnlinkSegment
  PROVE  /\ target \in Series /\ wal = <<>> /\ walbuf = <<>> /\ rest = <<>> /\ \A s \in Series : buffer[s] = <<>>
         /\ blocks'[target] = <<>> /\ \A s \in Series : s # target => blocks'[s] = blocks[s] /\ fate'[s] = fate[s]
         /\ Len(fate'[target]) = Len(fate[target])
         /\ \A n \in 1..Len(fate[target]) : fate'[target][n] = "deleting"
<1>1. pc = "unlink" /\ TypeInv
  BY DEF UnlinkSegment, PathInv
<1>2. op = "delete" /\ rest = <<>> /\ wal = <<>> /\ walbuf = <<>> /\ \A s \in Series : buffer[s] = <<>>
  BY <1>1 DEF PathInv, PathOK, EmptiedOK, Bulk
<1>3. registry \in Seq(Series) /\ target \in Range(registry)
  BY <1>1, <1>2, Typing DEF PathInv, PathOK
<1>4. target \in Series
  BY <1>3, RangeMember, ElementOfSeq
<1>5. blocks'[target] = <<>> /\ \A s \in Series : s # target => blocks'[s] = blocks[s] /\ fate'[s] = fate[s]
  BY <1>1, <1>4, Typing DEF UnlinkSegment
<1>6. fate[target] \in Seq(Fates) /\ fate'[target] = [n \in 1..Len(fate[target]) |-> "deleting"]
  BY <1>1, <1>4, Typing DEF UnlinkSegment
<1>7. Len(fate'[target]) = Len(fate[target]) /\ \A n \in 1..Len(fate[target]) : fate'[target][n] = "deleting"
  BY <1>6
<1> QED
  BY <1>2, <1>4, <1>5, <1>7

\* A segment file is removed.
LEMMA UnlinkSegmentLiveInv ==
  ASSUME LiveInv, Good', UnlinkSegment
  PROVE  LiveInv'
<1>1. /\ pc = "unlink" /\ pc' = "rmdir" /\ UNCHANGED <<wal, walbuf, durability, buffer, op, target, rest, cursor>>
  BY DEF UnlinkSegment, Goto, memory, call
<1>2. PathInv
  BY GoodFacts DEF LiveInv
<1>3. /\ target \in Series /\ wal = <<>> /\ walbuf = <<>> /\ rest = <<>> /\ \A s \in Series : buffer[s] = <<>>
      /\ blocks'[target] = <<>> /\ \A s \in Series : s # target => blocks'[s] = blocks[s] /\ fate'[s] = fate[s]
      /\ Len(fate'[target]) = Len(fate[target])
      /\ \A n \in 1..Len(fate[target]) : fate'[target][n] = "deleting"
  BY <1>2, UnlinkedPoints
<1>4. op = "delete" /\ Up /\ Up'
  BY <1>1, <1>2 DEF PathInv, PathOK, Up
<1>5. PointsIn(<<>>) = {}
  BY DEF PointsIn
<1>6. \A s \in Series : s = target =>
        Live(s)' = {} /\ PointsOf(s, {"durable"})' = {} /\ Anywhere(s)' = {}
  BY <1>1, <1>3, <1>5, RangeEmpty, InLogEmpty DEF Live, PointsOf, Anywhere, Logged, Held
<1>7. \A s \in Series : s # target =>
        /\ Live(s)' = Live(s) /\ PointsOf(s, {"durable"})' = PointsOf(s, {"durable"})
        /\ Anywhere(s)' = Anywhere(s) /\ Held(s)' = Held(s) /\ Remaining(s)' = Remaining(s) /\ InFiles(s)' = InFiles(s)
  BY <1>1, <1>3 DEF Live, PointsOf, Anywhere, Logged, Held, Remaining, InFiles
<1>8. OnlyLive'
  BY <1>6, <1>7 DEF LiveInv, OnlyLive
<1>9. LiveWhere'
  BY <1>4, <1>6, <1>7 DEF LiveInv, LiveWhere
<1>10. DurableOnDisk'
  BY <1>1, <1>6, <1>7 DEF LiveInv, DurableOnDisk
<1>11. BufLogged' /\ Rewritten' /\ ChunkLogged' /\ ReplayFrom' /\ WbEmpty' /\ FlushEmpties'
  BY <1>1, <1>3, <1>4, RangeEmpty DEF BufLogged, Rewritten, ChunkLogged, ReplayFrom, WbEmpty, FlushEmpties
<1> QED
  BY <1>8, <1>9, <1>10, <1>11 DEF LiveInv

\* LiveInv is inductive when no file operation fails.
LEMMA NextLiveInv ==
  ASSUME NoFaults, LiveInv, [Next]_vars
  PROVE  LiveInv'
<1>1. Good'
  BY NextGood DEF LiveInv
<1>2. UNCHANGED vars \/ Open \/ StartCall \/ Continue \/ Crash
  BY FaultlessSteps DEF LiveInv
<1>3. CASE UNCHANGED vars
  <2>1. UNCHANGED <<wal, walbuf, blocks, buffer, fate, durability, pc, op, target, rest, cursor, registry>>
    BY <1>3 DEF vars, disk, memory, call
  <2>2. \A s \in Series : /\ Anywhere(s)' = Anywhere(s) /\ Live(s)' = Live(s) /\ Logged(s)' = Logged(s)
                          /\ Held(s)' = Held(s) /\ Remaining(s)' = Remaining(s) /\ InFiles(s)' = InFiles(s)
                          /\ PointsOf(s, {"durable"})' = PointsOf(s, {"durable"})
    BY <2>1 DEF Anywhere, Live, PointsOf, Logged, Held, Remaining, InFiles
  <2>3. Up' = Up /\ ChunkLength' = ChunkLength
    BY <2>1 DEF Up, ChunkLength
  <2>4. OnlyLive' /\ LiveWhere' /\ DurableOnDisk'
    BY <2>1, <2>2, <2>3 DEF LiveInv, OnlyLive, LiveWhere, DurableOnDisk
  <2>5. BufLogged'
    BY <2>1, <2>2 DEF LiveInv, BufLogged
  <2>6. ChunkLogged'
    BY <2>1, <2>3 DEF LiveInv, ChunkLogged, Logged
  <2>7. Rewritten' /\ ReplayFrom' /\ WbEmpty' /\ FlushEmpties'
    BY <2>1 DEF LiveInv, Rewritten, ReplayFrom, WbEmpty, FlushEmpties
  <2> QED
    BY <1>1, <2>4, <2>5, <2>6, <2>7 DEF LiveInv
<1>4. CASE Open
  BY <1>1, <1>4, QuietStepsLiveInv
<1>5. CASE Crash
  BY <1>1, <1>5, EndLiveInv
<1>6. CASE StartCall
  BY <1>1, <1>6, QuietStepsLiveInv, StartAppendLiveInv DEF StartCall
<1>7. CASE Continue
  <2>1. CASE ReplayRecord \/ ReplayPoints \/ ReplayEnds
    BY <1>1, <2>1, ReplayRecordLiveInv, ReplayPointsLiveInv, ReturnStepsLiveInv
  <2>2. CASE Chunk \/ Log \/ Place \/ AppendDone
    BY <1>1, <2>2, QuietStepsLiveInv, LogLiveInv, PlaceLiveInv, ReturnStepsLiveInv
  <2>3. CASE WalFlush \/ FlushSeries \/ NextSeries \/ AppendBlock
    BY <1>1, <2>3, WalFlushLiveInv, ReturnStepsLiveInv, QuietStepsLiveInv, AppendBlockLiveInv
  <2>4. CASE RewriteEnds
    <3>1. op \in {"flush", "flush_all"} \/ op = "close" \/ op \notin {"flush", "flush_all", "close"}
      OBVIOUS
    <3> QED
      BY <1>1, <2>4, <3>1, ReturnStepsLiveInv, EndLiveInv, QuietStepsLiveInv
  <2>5. CASE TruncateWal \/ RewriteWal \/ UnlinkSegment \/ RemoveDirectory
    BY <1>1, <2>5, TruncateWalLiveInv, RewriteWalLiveInv, UnlinkSegmentLiveInv, ReturnStepsLiveInv
  <2> QED
    BY <1>7, <2>1, <2>2, <2>3, <2>4, <2>5 DEF Continue
<1> QED
  BY <1>2, <1>3, <1>4, <1>5, <1>6, <1>7

\* Write-ahead: outside of the rewrite of wal.log, every point in a buffer is in
\* wal.log or in the WAL buffer, through crashes and restarts, as long as file
\* operations succeed.
THEOREM BuffersAreLogged ==
  ASSUME NoFaults
  PROVE  Spec => []WalBeforeBuffer
<1>1. LiveInv => WalBeforeBuffer
  <2> SUFFICES ASSUME LiveInv, pc # "rewrite", NEW s \in Series
               PROVE  Range(buffer[s]) \subseteq LoggedPoints(wal, s) \union BufferedRecords(s)
    BY DEF WalBeforeBuffer
  <2>1. BufferedRecords(s) = InLog(walbuf, s)
    BY DEF BufferedRecords, InLog
  <2>2. LoggedPoints(wal, s) = InLog(wal, s)
    BY InLogWhole DEF LiveInv, Good, KeepInv, Unbroken
  <2> QED
    BY <2>1, <2>2 DEF LiveInv, BufLogged, Logged
<1>2. LiveInv /\ [Next]_vars => LiveInv'
  BY NextLiveInv
<1> QED
  BY InitLiveInv, <1>1, <1>2, PTL DEF Spec

\* Only the end of the process loses points.
LEMMA LossStep ==
  ASSUME NoFaults, LiveInv, [Next]_vars,
         NEW s \in Series, NEW n \in PointsOf(s, {"durable"}), fate'[s][n] = "lost"
  PROVE  pc = "rewrite" /\ n \in Range(buffer[s])
<1>1. n \in 1..Len(fate[s]) /\ fate[s][n] = "durable" /\ fate[s] \in Seq(Fates) /\ TypeInv
  BY Typing, GoodFacts DEF LiveInv, PointsOf
<1>2. CASE Forget
  <2>1. fate'[s][n] = FateAtEnd(s, n)
    BY <1>1, <1>2, ForgottenFates
  <2>2. n \notin OnDisk(s)
    BY <1>1, <2>1 DEF FateAtEnd
  <2> QED
    BY <2>2, GoodFacts DEF LiveInv, DurableOnDisk
<1>3. CASE \E r : Return(r)
  <2>1. PICK r : Return(r)
    BY <1>3
  <2>2. fate'[s] = [k \in 1..Len(fate[s]) |-> FateAtReturn(r, s, k)]
    BY <2>1 DEF Return
  <2>3. fate'[s][n] = FateAtReturn(r, s, n)
    BY <1>1, <2>2
  <2> QED
    BY <1>1, <2>3 DEF FateAtReturn
<1>4. CASE UNCHANGED fate
  BY <1>1, <1>4
<1>5. ASSUME NEW x \in Series, NEW k \in 1..MaxBatch, StartAppend(x, k) PROVE FALSE
  <2>1. /\ Len(fate[x]) \in Nat /\ k \in Nat
        /\ \A m \in 1..(Len(fate[x]) + k) : fate'[x][m] = IF m <= Len(fate[x]) THEN fate[x][m] ELSE "pending"
        /\ \A y \in Series : y # x => fate'[y] = fate[y]
    BY <1>1, <1>5, HandedOver
  <2>2. CASE s # x
    BY <1>1, <2>1, <2>2
  <2>3. CASE s = x
    BY <1>1, <2>1, <2>3
  <2> QED
    BY <2>2, <2>3
<1>6. CASE UnlinkSegment
  <2>1. /\ \A x \in Series : x # target => fate'[x] = fate[x]
        /\ \A m \in 1..Len(fate[target]) : fate'[target][m] = "deleting"
    BY <1>6, UnlinkedPoints, GoodFacts DEF LiveInv
  <2> QED
    BY <1>1, <2>1
<1>7. UNCHANGED vars \/ Open \/ StartCall \/ Continue \/ Crash
  BY FaultlessSteps DEF LiveInv
<1>8. ~UNCHANGED fate /\ ~Forget => (\E r : Return(r)) \/ UnlinkSegment
                                  \/ \E x \in Series, k \in 1..MaxBatch : StartAppend(x, k)
  <2>1. CASE UNCHANGED vars \/ Open \/ Crash
    BY <2>1 DEF vars, Open, Crash
  <2>2. CASE StartCall
    BY <2>2 DEF StartCall, CreateSeries, SetDurability, StartFlush, StartFlushAll
  <2>3. CASE Continue
    <3>1. CASE ReplayRecord \/ ReplayPoints \/ ReplayEnds
      BY <3>1 DEF ReplayRecord, ReplayPoints, ReplayEnds
    <3>2. CASE Chunk \/ Log \/ Place \/ AppendDone
      BY <3>2 DEF Chunk, Log, Place, AppendDone
    <3>3. CASE WalFlush \/ FlushSeries \/ NextSeries \/ AppendBlock
      BY <3>3 DEF WalFlush, FlushSeries, NextSeries, AppendBlock
    <3>4. CASE TruncateWal \/ RewriteWal \/ RewriteEnds \/ UnlinkSegment \/ RemoveDirectory
      BY <3>4 DEF TruncateWal, RewriteWal, RewriteEnds, RemoveDirectory
    <3> QED
      BY <2>3, <3>1, <3>2, <3>3, <3>4 DEF Continue
  <2> QED
    BY <1>7, <2>1, <2>2, <2>3
<1> QED
  BY <1>2, <1>3, <1>4, <1>5, <1>6, <1>8

\* When every file operation succeeds, a point whose call promised durability is
\* lost in one way only: the process dies between the fopen(..., "wb") of
\* tsedge_wal_truncate_to_buffers and the end of its loop, and the point is in a
\* buffer.
THEOREM DurableLostOnlyInRewrite ==
  ASSUME NoFaults
  PROVE  Spec => LossOnlyInRewrite
<1>1. LiveInv /\ [Next]_vars => LiveInv'
  BY NextLiveInv
<1>2. LiveInv /\ [Next]_vars =>
        [\A s \in Series : \A n \in PointsOf(s, {"durable"}) :
           fate'[s][n] = "lost" => pc = "rewrite" /\ n \in Range(buffer[s])]_vars
  BY LossStep
<1> QED
  BY InitLiveInv, <1>1, <1>2, PTL DEF Spec, LossOnlyInRewrite

-----------------------------------------------------------------------------
(* The order of the points *)

Ascending(q) == \A i, j \in 1..Len(q) : i < j => q[i] < q[j]

Below(A, B) == \A m \in A, n \in B : m < n

\* Two ascending sequences, one below the other.
LEMMA AscendingConcat ==
  ASSUME NEW u \in Seq(Nat), NEW v \in Seq(Nat), Ascending(u), Ascending(v), Below(Range(u), Range(v))
  PROVE  Ascending(u \o v)
<1> DEFINE w == u \o v
<1>1. Len(u) \in Nat /\ Len(v) \in Nat /\ Len(w) = Len(u) + Len(v)
      /\ \A i \in 1..Len(w) : w[i] = IF i <= Len(u) THEN u[i] ELSE v[i - Len(u)]
  BY ConcatProperties
<1> HIDE DEF w
<1>2. ASSUME NEW i \in 1..Len(w), NEW j \in 1..Len(w), i < j PROVE w[i] < w[j]
  <2>1. CASE j <= Len(u)
    <3>1. i \in 1..Len(u) /\ j \in 1..Len(u) /\ w[i] = u[i] /\ w[j] = u[j]
      BY <1>1, <1>2, <2>1
    <3> QED
      BY <1>2, <3>1 DEF Ascending
  <2>2. CASE ~(i <= Len(u))
    <3>1. i - Len(u) \in 1..Len(v) /\ j - Len(u) \in 1..Len(v) /\ i - Len(u) < j - Len(u)
      BY <1>1, <1>2, <2>2
    <3>2. w[i] = v[i - Len(u)] /\ w[j] = v[j - Len(u)]
      BY <1>1, <1>2, <2>2
    <3> QED
      BY <3>1, <3>2 DEF Ascending
  <2>3. CASE i <= Len(u) /\ ~(j <= Len(u))
    <3>1. i \in 1..Len(u) /\ j - Len(u) \in 1..Len(v)
      BY <1>1, <1>2, <2>3
    <3>2. w[i] = u[i] /\ w[j] = v[j - Len(u)]
      BY <1>1, <1>2, <2>3
    <3>3. u[i] \in Range(u) /\ v[j - Len(u)] \in Range(v)
      BY <3>1, RangeMember
    <3> QED
      BY <3>2, <3>3 DEF Below
  <2> QED
    BY <2>1, <2>2, <2>3
<1> QED
  BY <1>2 DEF Ascending, w

\* An ascending batch is an ascending chunk below an ascending rest.
LEMMA AscendingSplit ==
  ASSUME NEW q \in Seq(Nat), Ascending(q), NEW k \in 0..Len(q)
  PROVE  /\ Ascending(SubSeq(q, 1, k)) /\ Ascending(SubSeq(q, k + 1, Len(q)))
         /\ Below(Range(SubSeq(q, 1, k)), Range(SubSeq(q, k + 1, Len(q))))
<1> DEFINE u == SubSeq(q, 1, k)
           v == SubSeq(q, k + 1, Len(q))
<1>1. Len(q) \in Nat /\ k \in Nat /\ k <= Len(q)
  OBVIOUS
<1>2. /\ u \in Seq(Nat) /\ Len(u) = k
      /\ \A i \in 1..k : u[i] = q[i]
  <2>1. \A i \in 1..k : q[i] \in Nat
    BY <1>1
  <2> QED
    BY <1>1, <2>1, SubSeqProperties
<1>3. /\ v \in Seq(Nat) /\ Len(v) = Len(q) - k
      /\ \A i \in 1..(Len(q) - k) : v[i] = q[k + i]
  <2>1. \A i \in (k + 1)..Len(q) : q[i] \in Nat
    BY <1>1
  <2>2. /\ v \in Seq(Nat)
        /\ Len(v) = IF k + 1 <= Len(q) THEN Len(q) - (k + 1) + 1 ELSE 0
        /\ \A i \in 1..(Len(q) - (k + 1) + 1) : v[i] = q[k + 1 + i - 1]
    BY <1>1, <2>1, SubSeqProperties
  <2> HIDE DEF v
  <2>3. Len(v) = Len(q) - k
    BY <1>1, <2>2
  <2>4. Len(q) - (k + 1) + 1 = Len(q) - k /\ \A i \in 1..(Len(q) - k) : k + 1 + i - 1 = k + i
    BY <1>1
  <2> QED
    BY <2>2, <2>3, <2>4
<1> HIDE DEF u, v
<1>4. Ascending(u)
  <2> SUFFICES ASSUME NEW i \in 1..k, NEW j \in 1..k, i < j PROVE u[i] < u[j]
    BY <1>2 DEF Ascending
  <2>1. i \in 1..Len(q) /\ j \in 1..Len(q) /\ u[i] = q[i] /\ u[j] = q[j]
    BY <1>1, <1>2
  <2> QED
    BY <2>1 DEF Ascending
<1>5. Ascending(v)
  <2> SUFFICES ASSUME NEW i \in 1..(Len(q) - k), NEW j \in 1..(Len(q) - k), i < j PROVE q[k + i] < q[k + j]
    BY <1>3 DEF Ascending
  <2>1. k + i \in 1..Len(q) /\ k + j \in 1..Len(q) /\ k + i < k + j
    BY <1>1
  <2> QED
    BY <2>1 DEF Ascending
<1>6. Below(Range(u), Range(v))
  <2> SUFFICES ASSUME NEW m \in Range(u), NEW n \in Range(v) PROVE m < n
    BY DEF Below
  <2>1. PICK i \in 1..Len(u) : u[i] = m
    BY <1>2, RangeMember
  <2>2. PICK j \in 1..Len(v) : v[j] = n
    BY <1>3, RangeMember
  <2>3. i \in 1..k /\ j \in 1..(Len(q) - k)
    BY <1>2, <1>3
  <2>4. i \in 1..Len(q) /\ k + j \in 1..Len(q) /\ i < k + j
    BY <1>1, <2>3
  <2>5. q[i] = m /\ q[k + j] = n
    BY <1>2, <1>3, <2>1, <2>2, <2>3
  <2> QED
    BY <2>4, <2>5 DEF Ascending
<1> QED
  BY <1>4, <1>5, <1>6 DEF u, v

\* The points of a log: ascending in every record, and over the records of a series.
LogAscending(log) ==
  /\ \A i \in 1..Len(log) : Ascending(log[i].points)
  /\ \A i, j \in 1..Len(log) : i < j /\ log[i].series = log[j].series =>
       Below(Range(log[i].points), Range(log[j].points))

\* Newer records after older ones.
LEMMA LogAscendingConcat ==
  ASSUME NEW u \in Seq(Record), NEW v \in Seq(Record), LogAscending(u), LogAscending(v),
         \A s \in Series : Below(InLog(u, s), InLog(v, s))
  PROVE  LogAscending(u \o v)
<1> DEFINE w == u \o v
<1>1. Len(u) \in Nat /\ Len(v) \in Nat /\ Len(w) = Len(u) + Len(v)
      /\ \A i \in 1..Len(w) : w[i] = IF i <= Len(u) THEN u[i] ELSE v[i - Len(u)]
  BY ConcatProperties
<1> HIDE DEF w
<1>2. ASSUME NEW i \in 1..Len(w) PROVE Ascending(w[i].points)
  <2>1. CASE i <= Len(u)
    BY <1>1, <2>1 DEF LogAscending
  <2>2. CASE ~(i <= Len(u))
    <3>1. i - Len(u) \in 1..Len(v) /\ w[i] = v[i - Len(u)]
      BY <1>1, <2>2
    <3> QED
      BY <3>1 DEF LogAscending
  <2> QED
    BY <2>1, <2>2
<1>3. ASSUME NEW i \in 1..Len(w), NEW j \in 1..Len(w), i < j, w[i].series = w[j].series
      PROVE  Below(Range(w[i].points), Range(w[j].points))
  <2>1. CASE j <= Len(u)
    <3>1. i \in 1..Len(u) /\ j \in 1..Len(u) /\ w[i] = u[i] /\ w[j] = u[j]
      BY <1>1, <1>3, <2>1
    <3> QED
      BY <1>3, <3>1 DEF LogAscending
  <2>2. CASE ~(i <= Len(u))
    <3>1. i - Len(u) \in 1..Len(v) /\ j - Len(u) \in 1..Len(v) /\ i - Len(u) < j - Len(u)
      BY <1>1, <1>3, <2>2
    <3>2. w[i] = v[i - Len(u)] /\ w[j] = v[j - Len(u)]
      BY <1>1, <1>3, <2>2
    <3> QED
      BY <1>3, <3>1, <3>2 DEF LogAscending
  <2>3. CASE i <= Len(u) /\ ~(j <= Len(u))
    <3>1. i \in 1..Len(u) /\ j - Len(u) \in 1..Len(v)
      BY <1>1, <1>3, <2>3
    <3>2. w[i] = u[i] /\ w[j] = v[j - Len(u)]
      BY <1>1, <1>3, <2>3
    <3>3. u[i].series \in Series
      <4>1. u[i] \in Record
        BY <3>1, ElementOfSeq
      <4> QED
        BY <4>1 DEF Record
    <3>4. \A m \in Range(w[i].points) : m \in InLog(u, u[i].series)
      BY <3>1, <3>2, InLogMember
    <3>5. \A n \in Range(w[j].points) : n \in InLog(v, u[i].series)
      BY <1>3, <3>1, <3>2, InLogMember
    <3> QED
      BY <3>3, <3>4, <3>5 DEF Below
  <2> QED
    BY <2>1, <2>2, <2>3
<1> QED
  BY <1>2, <1>3 DEF LogAscending, w

LEMMA LogAscendingEmpty == LogAscending(<<>>)
BY DEF LogAscending

\* One more record, newer than those of its series.
LEMMA LogAscendingAppend ==
  ASSUME NEW u \in Seq(Record), NEW x \in Record, LogAscending(u), Ascending(x.points),
         Below(InLog(u, x.series), Range(x.points))
  PROVE  LogAscending(Append(u, x))
<1> DEFINE w == Append(u, x)
<1>1. Len(u) \in Nat /\ Len(w) = Len(u) + 1 /\ w[Len(u) + 1] = x /\ \A i \in 1..Len(u) : w[i] = u[i]
  BY AppendProperties
<1> HIDE DEF w
<1>2. ASSUME NEW i \in 1..Len(w) PROVE Ascending(w[i].points)
  <2>1. i \in 1..Len(u) \/ i = Len(u) + 1
    BY <1>1
  <2> QED
    BY <1>1, <2>1 DEF LogAscending
<1>3. ASSUME NEW i \in 1..Len(w), NEW j \in 1..Len(w), i < j, w[i].series = w[j].series
      PROVE  Below(Range(w[i].points), Range(w[j].points))
  <2>1. i \in 1..Len(u)
    BY <1>1, <1>3
  <2>2. CASE j \in 1..Len(u)
    BY <1>1, <1>3, <2>1, <2>2 DEF LogAscending
  <2>3. CASE j = Len(u) + 1
    <3>1. w[i] = u[i] /\ w[j] = x
      BY <1>1, <2>1, <2>3
    <3>2. \A m \in Range(w[i].points) : m \in InLog(u, x.series)
      BY <1>3, <2>1, <3>1, InLogMember
    <3> QED
      BY <3>1, <3>2 DEF Below
  <2> QED
    BY <1>1, <2>2, <2>3
<1> QED
  BY <1>2, <1>3 DEF LogAscending, w

\* No series is registered twice.
Distinct == \A i, j \in 1..Len(registry) : registry[i] = registry[j] => i = j

\* While wal.log is rewritten its records are the buffers that the loop has passed.
Rewriting ==
  pc = "rewrite" => \A i \in 1..Len(wal) : \E j \in 1..Len(registry) :
    j < cursor /\ wal[i].series = registry[j] /\ wal[i].points = buffer[registry[j]]

\* The WAL buffer is newer than the files.
WbNewest == \A s \in Series : Below(InFiles(s), InLog(walbuf, s))

BufAscending == \A s \in Series : Ascending(buffer[s])

\* What an append has not taken yet is newer than everything there is.
RestNewer ==
  op = "append" =>
    /\ Ascending(rest)
    /\ Below(Held(target), Range(rest))
    /\ Below(Logged(target), IF pc \in {"sync", "place"}
                               THEN Range(SubSeq(rest, ChunkLength + 1, Len(rest)))
                               ELSE Range(rest))

ReplayOrder ==
  op = "open" => Ascending(rest) /\ (rest # <<>> => Below(Range(buffer[target]), Range(rest)))

\* The points of the blocks are the oldest live points.
BlocksClosed ==
  \A s \in Series : \A n \in PointsIn(blocks[s]), m \in Live(s) : m < n => m \in PointsIn(blocks[s])

OrderInv ==
  /\ LiveInv /\ Distinct
  /\ Rewriting /\ LogAscending(wal) /\ LogAscending(walbuf) /\ WbNewest
  /\ BufAscending /\ RestNewer /\ ReplayOrder /\ BlocksClosed

\* An injective enumeration stays one when a new name is added or one is taken out.
LEMMA DistinctAppend ==
  ASSUME NEW S, NEW q \in Seq(S), NEW x \in S, x \notin Range(q),
         \A i, j \in 1..Len(q) : q[i] = q[j] => i = j
  PROVE  LET w == Append(q, x) IN \A i, j \in 1..Len(w) : w[i] = w[j] => i = j
<1> DEFINE w == Append(q, x)
<1>1. Len(q) \in Nat /\ Len(w) = Len(q) + 1 /\ w[Len(q) + 1] = x /\ \A i \in 1..Len(q) : w[i] = q[i]
  BY AppendProperties
<1>2. \A i \in 1..Len(q) : q[i] # x
  BY RangeMember
<1> HIDE DEF w
<1>3. \A i, j \in 1..Len(w) : w[i] = w[j] => i = j
  <2> SUFFICES ASSUME NEW i \in 1..Len(w), NEW j \in 1..Len(w), w[i] = w[j] PROVE i = j
    OBVIOUS
  <2>1. (i \in 1..Len(q) \/ i = Len(q) + 1) /\ (j \in 1..Len(q) \/ j = Len(q) + 1)
    BY <1>1
  <2> QED
    BY <1>1, <1>2, <2>1
<1> QED
  BY <1>3 DEF w

LEMMA DistinctRemoveAt ==
  ASSUME NEW S, NEW q \in Seq(S), NEW k \in 1..Len(q),
         \A i, j \in 1..Len(q) : q[i] = q[j] => i = j
  PROVE  LET w == RemoveAt(q, k) IN \A i, j \in 1..Len(w) : w[i] = w[j] => i = j
<1> DEFINE u == SubSeq(q, 1, k - 1)
           v == SubSeq(q, k + 1, Len(q))
           w == u \o v
<1>0. Len(q) \in Nat /\ k \in Nat
  OBVIOUS
<1>1. /\ u \in Seq(S) /\ Len(u) = k - 1
      /\ \A i \in 1..(k - 1) : u[i] = q[i]
  <2>1. \A i \in 1..(k - 1) : q[i] \in S
    OBVIOUS
  <2> QED
    BY <2>1, SubSeqProperties
<1>2. /\ v \in Seq(S) /\ Len(v) = Len(q) - k
      /\ \A i \in 1..(Len(q) - k) : v[i] = q[k + i]
  <2>1. \A i \in (k + 1)..Len(q) : q[i] \in S
    OBVIOUS
  <2>2. /\ v \in Seq(S)
        /\ Len(v) = IF k + 1 <= Len(q) THEN Len(q) - (k + 1) + 1 ELSE 0
        /\ \A i \in 1..(Len(q) - (k + 1) + 1) : v[i] = q[k + 1 + i - 1]
    BY <2>1, SubSeqProperties
  <2> HIDE DEF v
  <2>3. Len(v) = Len(q) - k
    BY <2>2
  <2>4. Len(q) - (k + 1) + 1 = Len(q) - k /\ \A i \in 1..(Len(q) - k) : k + 1 + i - 1 = k + i
    OBVIOUS
  <2> QED
    BY <2>2, <2>3, <2>4
<1> HIDE DEF u, v
<1>3. Len(w) = Len(u) + Len(v) /\ \A i \in 1..Len(w) : w[i] = IF i <= Len(u) THEN u[i] ELSE v[i - Len(u)]
  <2>1. u \in Seq(S) /\ v \in Seq(S)
    BY <1>1, <1>2
  <2> QED
    BY <2>1, ConcatProperties
<1> HIDE DEF w
<1>4. Len(w) = Len(q) - 1
  BY <1>0, <1>1, <1>2, <1>3
<1>5. \A i \in 1..Len(w) : w[i] = q[IF i < k THEN i ELSE i + 1]
  <2> TAKE i \in 1..Len(w)
  <2>1. CASE i < k
    BY <1>0, <1>1, <1>3, <2>1
  <2>2. CASE ~(i < k)
    <3>1. i - Len(u) \in 1..(Len(q) - k) /\ ~(i <= Len(u)) /\ k + (i - Len(u)) = i + 1
      BY <1>0, <1>1, <1>4, <2>2
    <3> QED
      BY <1>2, <1>3, <2>2, <3>1
  <2> QED
    BY <2>1, <2>2
<1>6. \A i, j \in 1..Len(w) : w[i] = w[j] => i = j
  <2> SUFFICES ASSUME NEW i \in 1..Len(w), NEW j \in 1..Len(w), w[i] = w[j] PROVE i = j
    OBVIOUS
  <2> DEFINE a == IF i < k THEN i ELSE i + 1
             b == IF j < k THEN j ELSE j + 1
  <2>1. a \in 1..Len(q) /\ b \in 1..Len(q)
    BY <1>0, <1>4
  <2>2. a = b
    BY <1>5, <2>1
  <2> QED
    BY <1>0, <2>2
<1>7. RemoveAt(q, k) = w
  BY DEF RemoveAt, u, v, w
<1> QED
  BY <1>6, <1>7

\* The order that readdir gives names every directory once.
LEMMA EnumerationDistinct ==
  ASSUME NEW D, IsFiniteSet(D), NEW q \in [1..Cardinality(D) -> D], Range(q) = D
  PROVE  /\ q \in Seq(D) /\ Len(q) = Cardinality(D)
         /\ \A i, j \in 1..Len(q) : q[i] = q[j] => i = j
<1> DEFINE N == Cardinality(D)
           I == 1..N
<1>1. N \in Nat
  BY FS_CardinalityType
<1>2. IsFiniteSet(I) /\ Cardinality(I) = N
  <2>1. 1 \in Int /\ N \in Int
    BY <1>1
  <2>2. IsFiniteSet(1..N) /\ Cardinality(1..N) = IF 1 > N THEN 0 ELSE N - 1 + 1
    BY <2>1, FS_Interval
  <2> HIDE DEF N
  <2> QED
    BY <1>1, <2>2
<1>3. q \in Seq(D) /\ Len(q) = N
  BY <1>1, SeqDef, LenProperties
<1>4. q \in Surjection(I, D)
  BY DEF Surjection, Range
<1>5. q \in Injection(I, D)
  BY <1>2, <1>4, FS_SurjSameCardinalityImpliesInj
<1>6. \A i, j \in I : q[i] = q[j] => i = j
  BY <1>5 DEF Injection, IsInjective
<1> QED
  BY <1>3, <1>6

LEMMA NextDistinct ==
  ASSUME TypeInv, Distinct, [Next]_vars
  PROVE  Distinct'
<1>1. TypeInv /\ registry \in Seq(Series)
  BY Typing
<1>2. ASSUME UNCHANGED registry PROVE Distinct'
  BY <1>2 DEF Distinct
<1>3. ASSUME NEW s \in Series, s \notin Range(registry), registry' = Append(registry, s) PROVE Distinct'
  BY <1>1, <1>3, DistinctAppend DEF Distinct
<1>4. ASSUME registry' = <<>> PROVE Distinct'
  BY <1>4 DEF Distinct
<1>5. CASE Open
  <2>1. dirs \subseteq Series /\ IsFiniteSet(Series)
    BY <1>1, StoreAssumption DEF TypeInv, TypeOK
  <2>2. IsFiniteSet(dirs)
    BY <2>1, FS_Subset
  <2>3. registry' \in [1..Cardinality(dirs) -> dirs] /\ Range(registry') = dirs
    BY <1>5 DEF Open
  <2> QED
    BY <2>2, <2>3, EnumerationDistinct DEF Distinct
<1>6. CASE ReplayRecord
  <2>1. wal[cursor].series \in Series
    <3>1. wal[cursor] \in Record
      BY <1>1, <1>6, ReplayedRecord
    <3> QED
      BY <3>1 DEF Record
  <2> DEFINE s == wal[cursor].series
  <2>2. registry' = IF s \in Range(registry) THEN registry ELSE Append(registry, s)
    BY <1>6 DEF ReplayRecord
  <2> HIDE DEF s
  <2> QED
    BY <1>2, <1>3, <2>1, <2>2 DEF s
<1>7. ASSUME NEW s \in Series, CreateSeries(s) \/ CreateFails(s) PROVE Distinct'
  BY <1>2, <1>3, <1>7 DEF CreateSeries, CreateFails
<1>8. CASE RemoveDirectory
  <2>1. PICK i \in 1..Len(registry) : registry' = RemoveAt(registry, i)
    BY <1>8 DEF RemoveDirectory
  <2> QED
    BY <1>1, <2>1, DistinctRemoveAt DEF Distinct
<1>9. ASSUME Forget PROVE Distinct'
  BY <1>4, <1>9 DEF Forget
<1>10. UNCHANGED vars \/ Open \/ StartCall \/ Continue \/ Environment
  BY DEF Next, OpenFails
<1>11. \/ UNCHANGED registry \/ Forget \/ Open \/ ReplayRecord \/ RemoveDirectory
       \/ \E s \in Series : CreateSeries(s) \/ CreateFails(s)
  <2>1. CASE UNCHANGED vars \/ Open
    BY <2>1 DEF vars, memory, Open
  <2>5. CASE Environment
    BY <2>5 DEF Environment, PartialWrite, Fault, Crash, memory
  <2>2. CASE StartCall
    BY <2>2 DEF StartCall, SetDurability, StartAppend, StartFlush, StartFlushAll, memory
  <2>3. CASE Continue
    <3>1. CASE ReplayRecord \/ ReplayPoints \/ ReplayEnds
      BY <3>1 DEF ReplayPoints, ReplayEnds, memory
    <3>2. CASE Chunk \/ Log \/ Place \/ AppendDone
      BY <3>2 DEF Chunk, Log, Place, AppendDone, memory
    <3>3. CASE WalFlush \/ FlushSeries \/ NextSeries \/ AppendBlock
      BY <3>3 DEF WalFlush, FlushSeries, NextSeries, AppendBlock, memory
    <3>4. CASE TruncateWal \/ RewriteWal \/ RewriteEnds \/ UnlinkSegment \/ RemoveDirectory
      BY <3>4 DEF TruncateWal, RewriteWal, RewriteEnds, UnlinkSegment, memory
    <3> QED
      BY <2>3, <3>1, <3>2, <3>3, <3>4 DEF Continue
  <2> QED
    BY <1>10, <2>1, <2>2, <2>3, <2>5
<1> QED
  BY <1>2, <1>5, <1>6, <1>7, <1>8, <1>9, <1>11

\* A step that leaves the files and the buffers alone.
LEMMA QuietOrderInv ==
  ASSUME OrderInv, LiveInv', Distinct', UNCHANGED <<wal, walbuf, blocks, buffer>>,
         \A s \in Series : Live(s)' \subseteq Live(s),
         UNCHANGED <<op, target, rest>> \/ rest' = <<>>,
         pc' \notin {"rewrite", "sync", "place"}, pc \notin {"sync", "place"}
  PROVE  OrderInv'
<1>1. LogAscending(wal)' /\ LogAscending(walbuf)' /\ WbNewest' /\ BufAscending'
  BY DEF OrderInv, LogAscending, WbNewest, BufAscending, InFiles
<1>2. BlocksClosed'
  BY DEF OrderInv, BlocksClosed
<1>3. Rewriting'
  BY DEF Rewriting
<1>4. RestNewer' /\ ReplayOrder'
  <2>1. CASE UNCHANGED <<op, target, rest>>
    BY <2>1 DEF OrderInv, RestNewer, ReplayOrder, Held, Logged
  <2>2. CASE rest' = <<>>
    <3>1. Range(rest') = {} /\ Ascending(rest')
      BY <2>2, RangeEmpty DEF Ascending
    <3> QED
      BY <2>2, <3>1 DEF RestNewer, ReplayOrder, Below
  <2> QED
    BY <2>1, <2>2
<1> QED
  BY <1>1, <1>2, <1>3, <1>4 DEF OrderInv

LEMMA QuietStepsOrderInv ==
  ASSUME NoFaults, OrderInv, LiveInv', Distinct',
         \/ Open \/ Chunk \/ NextSeries \/ FlushSeries
         \/ AppendDone \/ ReplayEnds \/ RemoveDirectory
         \/ RewriteEnds /\ op # "close"
         \/ \E s \in Series : CreateSeries(s)
         \/ \E mode \in Selected : SetDurability(mode)
         \/ \E s \in Series : StartFlush(s)
         \/ \E name \in {"flush_all", "close", "delete"}, s \in Series \union {NoSeries} : StartFlushAll(name, s)
  PROVE  OrderInv'
<1>1. TypeInv /\ CallOK /\ PathOK /\ KeepInv
  BY GoodFacts DEF OrderInv, LiveInv, TypeInv, PathInv
<1>2. ASSUME Return("ok"), rest = <<>>, pc \notin {"sync", "place"}, UNCHANGED <<wal, walbuf, blocks, buffer>>
      PROVE  OrderInv'
  <2>1. \A s \in Series : Live(s)' = Live(s)
    BY <1>1, <1>2, ReturnedFates
  <2>2. pc' = "idle" /\ rest' = <<>>
    BY <1>2 DEF Return
  <2> QED
    BY <1>2, <2>1, <2>2, QuietOrderInv
<1>3. ASSUME UNCHANGED <<wal, walbuf, blocks, buffer, fate, rest>>, UNCHANGED <<op, target>> \/ pc = "idle",
             pc' \notin {"rewrite", "sync", "place"}, pc \notin {"sync", "place"}
      PROVE  OrderInv'
  <2>1. \A s \in Series : Live(s)' = Live(s)
    BY <1>3 DEF Live, PointsOf
  <2>2. pc = "idle" => rest' = <<>>
    BY <1>1, <1>3 DEF CallOK
  <2> QED
    BY <1>3, <2>1, <2>2, QuietOrderInv
<1>4. CASE Open
  <2>1. rest' = <<>> /\ pc' = "replay" /\ pc = "closed" /\ UNCHANGED <<wal, walbuf, blocks, buffer, fate>>
    BY <1>1, <1>4 DEF Open, Goto, CallOK, disk
  <2>2. \A s \in Series : Live(s)' = Live(s)
    BY <2>1 DEF Live, PointsOf
  <2> QED
    BY <2>1, <2>2, QuietOrderInv
<1>5. CASE Chunk \/ NextSeries
  <2>1. /\ pc \in {"chunk", "next"} /\ pc' \in {"seal", "spill", "log", "truncate", "next"}
        /\ UNCHANGED <<wal, walbuf, blocks, buffer, fate, op, target, rest>>
    BY <1>5 DEF Chunk, NextSeries, Goto, disk, memory, call
  <2> QED
    BY <1>3, <2>1
<1>6. CASE FlushSeries
  <2>1. pc = "flush" /\ op = "flush" /\ UNCHANGED <<wal, walbuf, blocks, buffer>>
        /\ (Return("ok") \/ (pc' = "seal" /\ UNCHANGED <<fate, op, target, rest>>))
    BY <1>1, <1>6 DEF FlushSeries, Goto, disk, memory, call, PathOK
  <2>2. rest = <<>>
    BY <1>1, <2>1 DEF PathOK
  <2> QED
    BY <1>2, <1>3, <2>1, <2>2
<1>7. CASE AppendDone \/ ReplayEnds
  <2>1. ReplayEnds => Return("ok") /\ UNCHANGED <<disk, memory>>
    BY <1>1, ReplayedAll
  <2>2. pc \in {"chunk", "replay"} /\ rest = <<>> /\ Return("ok") /\ UNCHANGED <<wal, walbuf, blocks, buffer>>
    BY <1>7, <2>1 DEF AppendDone, ReplayEnds, disk, memory
  <2> QED
    BY <1>2, <2>2
<1>8. CASE RemoveDirectory
  <2>1. ~(faults < MaxFaults)
    BY <1>1 DEF NoFaults, TypeInv, TypeOK
  <2>2. pc = "rmdir" /\ Return("ok")
    BY <1>8, <2>1 DEF RemoveDirectory
  <2>3. UNCHANGED <<wal, walbuf, blocks, buffer>>
    BY <1>8 DEF RemoveDirectory
  <2>4. rest = <<>>
    BY <1>1, <2>2 DEF PathOK
  <2> QED
    BY <1>2, <2>2, <2>3, <2>4
<1>9. CASE RewriteEnds /\ op # "close"
  <2>1. pc = "rewrite" /\ UNCHANGED <<wal, walbuf, blocks, buffer>>
        /\ \/ op \in {"flush", "flush_all"} /\ Return("ok")
           \/ pc' \in {"chunk", "unlink"} /\ UNCHANGED <<fate, op, target, rest>>
    BY <1>9 DEF RewriteEnds, Goto, disk, memory
  <2>2. op \in {"flush", "flush_all"} => rest = <<>>
    BY <1>1 DEF PathOK
  <2> QED
    BY <1>2, <1>3, <2>1, <2>2
<1>10. ASSUME NEW s \in Series, CreateSeries(s) PROVE OrderInv'
  BY <1>3, <1>10 DEF CreateSeries, call
<1>11. ASSUME NEW mode \in Selected, SetDurability(mode) PROVE OrderInv'
  BY <1>3, <1>11 DEF SetDurability, Goto, disk, memory
<1>12. ASSUME NEW s \in Series, StartFlush(s) PROVE OrderInv'
  BY <1>3, <1>12 DEF StartFlush, Call, Goto, disk, memory
<1>13. ASSUME NEW name \in {"flush_all", "close", "delete"}, NEW s, StartFlushAll(name, s) PROVE OrderInv'
  BY <1>3, <1>13 DEF StartFlushAll, Call, Goto, disk, memory
<1> QED
  BY <1>4, <1>5, <1>6, <1>7, <1>8, <1>9, <1>10, <1>11, <1>12, <1>13

\* The tsedge_db object goes away.
LEMMA ForgetOrderInv ==
  ASSUME OrderInv, LiveInv', Distinct', Forget
  PROVE  OrderInv'
<1>1. /\ pc' = "closed" /\ op' = "none" /\ walbuf' = <<>> /\ UNCHANGED <<wal, blocks>> /\ buffer' = Empty
  BY DEF Forget, disk
<1>2. TypeInv
  BY GoodFacts DEF OrderInv, LiveInv
<1>3. \A s \in Series : Live(s)' \subseteq Live(s)
  BY <1>2, ForgottenFates
<1>4. LogAscending(wal)' /\ LogAscending(walbuf)'
  BY <1>1, LogAscendingEmpty DEF OrderInv
<1>5. WbNewest' /\ BlocksClosed'
  BY <1>1, <1>3, InLogEmpty DEF OrderInv, WbNewest, Below, BlocksClosed
<1>6. BufAscending'
  <2>1. \A s \in Series : buffer'[s] = <<>>
    BY <1>1, EmptyType
  <2> QED
    BY <2>1 DEF BufAscending, Ascending
<1>7. Rewriting' /\ RestNewer' /\ ReplayOrder'
  BY <1>1 DEF Rewriting, RestNewer, ReplayOrder
<1> QED
  BY <1>4, <1>5, <1>6, <1>7 DEF OrderInv

\* A record is taken for the replay: it is newer than what is in the buffer of its
\* series, which comes from earlier records.
LEMMA ReplayRecordOrderInv ==
  ASSUME OrderInv, LiveInv', Distinct', ReplayRecord
  PROVE  OrderInv'
<1>1. /\ pc = "replay" /\ target' = wal[cursor].series /\ rest' = wal[cursor].points
      /\ UNCHANGED <<wal, walbuf, blocks, buffer, fate, pc, op>>
  BY DEF ReplayRecord
<1>2. op = "open" /\ cursor \in 1..Len(wal) /\ TypeInv /\ wal[cursor] \in Record
  BY <1>1, ReplayedRecord, GoodFacts DEF OrderInv, LiveInv, TypeInv, CallOK
<1>3. \A s \in Series : Live(s)' = Live(s)
  BY <1>1 DEF Live, PointsOf
<1>4. /\ LogAscending(wal)' /\ LogAscending(walbuf)' /\ WbNewest' /\ BlocksClosed' /\ BufAscending'
      /\ Rewriting' /\ RestNewer'
  BY <1>1, <1>2, <1>3 DEF OrderInv, LogAscending, WbNewest, InFiles, BlocksClosed, BufAscending, Rewriting, RestNewer
<1>5. ReplayOrder'
  <2>1. Ascending(rest')
    BY <1>1, <1>2 DEF OrderInv, LogAscending
  <2>2. target' \in Series
    BY <1>1, <1>2 DEF Record
  <2>3. ASSUME NEW m \in Range(buffer[target']), NEW n \in Range(rest') PROVE m < n
    <3>1. PICK i \in 1..Len(wal) : i < cursor /\ wal[i].series = target' /\ m \in Range(wal[i].points)
      BY <1>2, <2>2 DEF OrderInv, LiveInv, ReplayFrom
    <3>2. Below(Range(wal[i].points), Range(wal[cursor].points))
      BY <1>1, <1>2, <3>1 DEF OrderInv, LogAscending
    <3> QED
      BY <1>1, <3>1, <3>2 DEF Below
  <2> QED
    BY <1>1, <2>1, <2>3 DEF ReplayOrder, Below
<1> QED
  BY <1>4, <1>5 DEF OrderInv

\* A chunk that is newer than a buffer enters it.
LEMMA ChunkOrder ==
  ASSUME TypeInv, target \in Series, Ascending(rest), Ascending(buffer[target]),
         Below(Range(buffer[target]), Range(rest))
  PROVE  /\ Ascending(buffer[target] \o SubSeq(rest, 1, ChunkLength))
         /\ Ascending(SubSeq(rest, ChunkLength + 1, Len(rest)))
         /\ Below(Range(SubSeq(rest, 1, ChunkLength)), Range(SubSeq(rest, ChunkLength + 1, Len(rest))))
         /\ Range(rest) = Range(SubSeq(rest, 1, ChunkLength)) \union Range(SubSeq(rest, ChunkLength + 1, Len(rest)))
         /\ SubSeq(rest, 1, ChunkLength) \in Seq(Nat) /\ buffer[target] \in Seq(Nat)
         /\ Range(buffer[target] \o SubSeq(rest, 1, ChunkLength))
              = Range(buffer[target]) \union Range(SubSeq(rest, 1, ChunkLength))
<1> DEFINE chunk == SubSeq(rest, 1, ChunkLength)
           left == SubSeq(rest, ChunkLength + 1, Len(rest))
<1>1. rest \in Seq(Nat) /\ ChunkLength \in 0..Len(rest) /\ chunk \in Seq(Nat)
  BY ChunkFits, Typing DEF TypeInv
<1>2. buffer[target] \in Seq(Nat)
  BY Typing
<1>3. Range(rest) = Range(chunk) \union Range(left)
  BY <1>1, RangeSplit
<1>4. Ascending(chunk) /\ Ascending(left) /\ Below(Range(chunk), Range(left))
  BY <1>1, AscendingSplit
<1>5. Below(Range(buffer[target]), Range(chunk))
  BY <1>3 DEF Below
<1> HIDE DEF chunk, left
<1>6. Ascending(buffer[target] \o chunk)
  BY <1>1, <1>2, <1>4, <1>5, AscendingConcat
<1>7. Range(buffer[target] \o chunk) = Range(buffer[target]) \union Range(chunk)
  BY <1>1, <1>2, RangeConcat
<1> QED
  BY <1>1, <1>2, <1>3, <1>4, <1>6, <1>7 DEF chunk, left

LEMMA ReplayPointsOrderInv ==
  ASSUME OrderInv, LiveInv', Distinct', ReplayPoints
  PROVE  OrderInv'
<1>1. /\ pc = "replay" /\ rest # <<>> /\ pc' \in {"replay", "seal"}
      /\ UNCHANGED <<wal, walbuf, blocks, fate, op, target>>
  BY DEF ReplayPoints, Goto, disk
<1>2. op = "open" /\ target \in Series /\ TypeInv
  BY <1>1, GoodFacts DEF OrderInv, LiveInv, TypeInv, CallOK
<1>3. \A s \in Series : Live(s)' = Live(s)
  BY <1>1 DEF Live, PointsOf
<1>4. /\ LogAscending(wal)' /\ LogAscending(walbuf)' /\ WbNewest' /\ BlocksClosed'
      /\ Rewriting' /\ RestNewer'
  BY <1>1, <1>2, <1>3 DEF OrderInv, LogAscending, WbNewest, InFiles, BlocksClosed, Rewriting, RestNewer
<1>5. CASE UNCHANGED <<buffer, rest>>
  <2>1. BufAscending' /\ ReplayOrder'
    BY <1>1, <1>5 DEF OrderInv, BufAscending, ReplayOrder
  <2> QED
    BY <1>4, <2>1 DEF OrderInv
<1>6. CASE /\ buffer' = [buffer EXCEPT ![target] = @ \o SubSeq(rest, 1, ChunkLength)]
           /\ rest' = SubSeq(rest, ChunkLength + 1, Len(rest))
  <2> DEFINE chunk == SubSeq(rest, 1, ChunkLength)
  <2>1. Ascending(rest) /\ Below(Range(buffer[target]), Range(rest)) /\ Ascending(buffer[target])
    BY <1>1, <1>2 DEF OrderInv, ReplayOrder, BufAscending
  <2>2. /\ Ascending(buffer[target] \o chunk) /\ Ascending(rest')
        /\ Below(Range(chunk), Range(rest')) /\ Range(rest) = Range(chunk) \union Range(rest')
        /\ Range(buffer[target] \o chunk) = Range(buffer[target]) \union Range(chunk)
    BY <1>2, <1>6, <2>1, ChunkOrder
  <2>3. buffer'[target] = buffer[target] \o chunk /\ \A s \in Series : s # target => buffer'[s] = buffer[s]
    BY <1>2, <1>6, Typing
  <2> HIDE DEF chunk
  <2>4. BufAscending'
    BY <2>2, <2>3 DEF OrderInv, BufAscending
  <2>5. ReplayOrder'
    BY <1>1, <2>1, <2>2, <2>3 DEF ReplayOrder, Below
  <2> QED
    BY <1>4, <2>4, <2>5 DEF OrderInv
<1> QED
  BY <1>5, <1>6 DEF ReplayPoints

\* The numbers of a new append are beyond all earlier ones.
LEMMA StartAppendOrderInv ==
  ASSUME OrderInv, LiveInv', Distinct', NEW s \in Series, NEW k \in 1..MaxBatch, StartAppend(s, k)
  PROVE  OrderInv'
<1>1. /\ pc = "idle" /\ pc' = "chunk" /\ op' = "append" /\ target' = s
      /\ UNCHANGED <<wal, walbuf, blocks, buffer>>
  BY DEF StartAppend, Call, Goto, disk, memory
<1>2. TypeInv /\ Undeleted
  BY GoodFacts DEF OrderInv, LiveInv
<1>3. /\ Len(fate[s]) \in Nat /\ k \in Nat /\ Len(fate'[s]) = Len(fate[s]) + k
      /\ \A n \in 1..(Len(fate[s]) + k) : fate'[s][n] = IF n <= Len(fate[s]) THEN fate[s][n] ELSE "pending"
      /\ \A x \in Series : x # s => fate'[x] = fate[x]
      /\ \A n : n \in Range(rest') <=> n \in 1..(Len(fate[s]) + k) /\ ~(n <= Len(fate[s]))
      /\ Len(rest') = k /\ \A i \in 1..k : rest'[i] = Len(fate[s]) + i
  BY <1>2, HandedOver
<1>4. LogAscending(wal)' /\ LogAscending(walbuf)' /\ WbNewest' /\ BufAscending' /\ Rewriting' /\ ReplayOrder'
  BY <1>1 DEF OrderInv, LogAscending, WbNewest, InFiles, BufAscending, Rewriting, ReplayOrder
<1>5. \A x \in Series : \A n \in Anywhere(x) : n \in 1..Len(fate[x])
  BY <1>2 DEF Undeleted
<1>6. BlocksClosed'
  <2> SUFFICES ASSUME NEW x \in Series, NEW n \in PointsIn(blocks[x]), NEW m \in Live(x)', m < n
               PROVE  m \in Live(x)
    BY <1>1 DEF OrderInv, BlocksClosed
  <2>1. n \in 1..Len(fate[x])
    BY <1>5 DEF Anywhere, Held
  <2>2. CASE x # s
    BY <1>3, <2>2 DEF Live, PointsOf
  <2>3. CASE x = s
    <3>1. m \in 1..(Len(fate[s]) + k) /\ fate'[s][m] \in {"pending", "accepted", "durable"}
      BY <1>3, <2>3 DEF Live, PointsOf
    <3>2. m <= Len(fate[s]) /\ m \in 1..Len(fate[s])
      BY <1>3, <2>1, <2>3, <3>1
    <3> QED
      BY <1>3, <2>3, <3>1, <3>2 DEF Live, PointsOf
  <2> QED
    BY <2>2, <2>3
<1>7. RestNewer'
  <2>1. Ascending(rest')
    BY <1>3 DEF Ascending
  <2>2. Held(s)' = Held(s) /\ Logged(s)' = Logged(s)
    BY <1>1 DEF Held, Logged
  <2>3. ASSUME NEW m \in Anywhere(s), NEW n \in Range(rest') PROVE m < n
    BY <1>3, <1>5
  <2>4. Below(Held(s)', Range(rest')) /\ Below(Logged(s)', Range(rest'))
    BY <2>2, <2>3 DEF Below, Anywhere
  <2> QED
    BY <1>1, <2>1, <2>4 DEF RestNewer
<1> QED
  BY <1>4, <1>6, <1>7 DEF OrderInv

\* A record is logged.
LEMMA LogOrderInv ==
  ASSUME OrderInv, LiveInv', Distinct', Log
  PROVE  OrderInv'
<1> DEFINE chunk == SubSeq(rest, 1, ChunkLength)
           left == SubSeq(rest, ChunkLength + 1, Len(rest))
<1>1. /\ pc' = (IF durability = "STRICT" THEN "sync" ELSE "place") /\ walbuf' = Append(walbuf, NextRecord)
      /\ UNCHANGED <<wal, blocks, buffer, fate, op, target, rest>>
  BY DEF Log, Goto, disk, call
<1>2. TypeInv /\ walbuf \in Seq(Record)
  BY GoodFacts, Typing DEF OrderInv, LiveInv
<1>3. /\ target \in Series /\ op = "append" /\ pc = "log"
      /\ NextRecord \in Record /\ NextRecord.series = target /\ NextRecord.points = chunk
      /\ \A s \in Series : Logged(s)' = Logged(s) \union (IF s = target THEN Range(chunk) ELSE {})
      /\ \A s \in Series : InLog(walbuf', s) = InLog(walbuf, s) \union (IF s = target THEN Range(chunk) ELSE {})
  BY <1>2, LoggedChunk
<1>4. Ascending(rest) /\ Below(Held(target), Range(rest)) /\ Below(Logged(target), Range(rest))
  BY <1>3 DEF OrderInv, RestNewer
<1>5. Ascending(chunk) /\ Below(Range(chunk), Range(left)) /\ Range(rest) = Range(chunk) \union Range(left)
  <2>1. Ascending(buffer[target]) /\ Below(Range(buffer[target]), Range(rest))
    BY <1>3, <1>4 DEF OrderInv, BufAscending, Below, Held
  <2>2. rest \in Seq(Nat) /\ ChunkLength \in 0..Len(rest)
    BY <1>2, <1>3, ChunkFits, Typing DEF TypeInv
  <2> QED
    BY <1>2, <1>3, <1>4, <2>1, <2>2, ChunkOrder, AscendingSplit
<1>6. left' = left
  BY <1>1 DEF ChunkLength
<1> HIDE DEF chunk, left
<1>7. LogAscending(walbuf)'
  <2>1. Below(InLog(walbuf, target), Range(chunk))
    BY <1>4, <1>5 DEF Below, Logged
  <2> QED
    BY <1>1, <1>2, <1>3, <1>5, <2>1, LogAscendingAppend DEF OrderInv
<1>8. WbNewest'
  <2> SUFFICES ASSUME NEW s \in Series, NEW m \in InFiles(s), NEW n \in InLog(walbuf', s) PROVE m < n
    BY <1>1 DEF WbNewest, Below, InFiles
  <2>1. CASE n \in InLog(walbuf, s)
    BY <2>1 DEF OrderInv, WbNewest, Below
  <2>2. CASE s = target /\ n \in Range(chunk)
    BY <1>4, <1>5, <2>2 DEF Below, InFiles, Held, Logged
  <2> QED
    BY <1>3, <2>1, <2>2
<1>9. RestNewer'
  <2>1. Ascending(rest') /\ Below(Held(target)', Range(rest'))
    BY <1>1, <1>4 DEF Held
  <2>2. Logged(target)' = Logged(target) \union Range(chunk)
    BY <1>1, <1>3
  <2>3. Below(Logged(target)', Range(left'))
    BY <1>4, <1>5, <1>6, <2>2 DEF Below
  <2> QED
    BY <1>1, <2>1, <2>3 DEF RestNewer, left
<1>10. LogAscending(wal)' /\ BufAscending' /\ Rewriting' /\ ReplayOrder' /\ BlocksClosed'
  BY <1>1, <1>3 DEF OrderInv, LogAscending, BufAscending, Rewriting, ReplayOrder, BlocksClosed, Live, PointsOf
<1> QED
  BY <1>7, <1>8, <1>9, <1>10 DEF OrderInv

\* The logged chunk enters the buffer.
LEMMA PlaceOrderInv ==
  ASSUME OrderInv, LiveInv', Distinct', Place
  PROVE  OrderInv'
<1> DEFINE chunk == SubSeq(rest, 1, ChunkLength)
<1>1. /\ pc = "place" /\ pc' = "chunk"
      /\ buffer' = [buffer EXCEPT ![target] = @ \o chunk]
      /\ rest' = SubSeq(rest, ChunkLength + 1, Len(rest))
      /\ UNCHANGED <<wal, walbuf, blocks, fate, op, target>>
  BY DEF Place, Goto, disk
<1>2. TypeInv /\ op = "append" /\ target \in Series
  BY <1>1, GoodFacts DEF OrderInv, LiveInv, TypeInv, CallOK
<1>3. /\ Ascending(rest) /\ Below(Held(target), Range(rest)) /\ Ascending(buffer[target])
      /\ Below(Logged(target), Range(rest'))
  BY <1>1, <1>2 DEF OrderInv, RestNewer, BufAscending
<1>4. Below(Range(buffer[target]), Range(rest))
  BY <1>3 DEF Below, Held
<1>5. /\ Ascending(buffer[target] \o chunk) /\ Ascending(rest')
      /\ Below(Range(chunk), Range(rest')) /\ Range(rest) = Range(chunk) \union Range(rest')
      /\ Range(buffer[target] \o chunk) = Range(buffer[target]) \union Range(chunk)
  BY <1>1, <1>2, <1>3, <1>4, ChunkOrder
<1>6. buffer'[target] = buffer[target] \o chunk /\ \A s \in Series : s # target => buffer'[s] = buffer[s]
  BY <1>1, <1>2, Typing
<1> HIDE DEF chunk
<1>7. BufAscending'
  BY <1>5, <1>6 DEF OrderInv, BufAscending
<1>8. RestNewer'
  <2>1. Below(Held(target)', Range(rest'))
    BY <1>1, <1>3, <1>5, <1>6 DEF Below, Held
  <2>2. Logged(target)' = Logged(target)
    BY <1>1 DEF Logged
  <2> QED
    BY <1>1, <1>3, <1>5, <2>1, <2>2 DEF RestNewer
<1>9. LogAscending(wal)' /\ LogAscending(walbuf)' /\ WbNewest' /\ Rewriting' /\ ReplayOrder' /\ BlocksClosed'
  BY <1>1, <1>2 DEF OrderInv, LogAscending, WbNewest, InFiles, Rewriting, ReplayOrder, BlocksClosed, Live, PointsOf
<1> QED
  BY <1>7, <1>8, <1>9 DEF OrderInv

\* The WAL buffer goes to the file, which it continues.
LEMMA WalFlushOrderInv ==
  ASSUME OrderInv, LiveInv', Distinct', WalFlush
  PROVE  OrderInv'
<1>1. /\ pc \in {"spill", "sync", "seal", "switch"} /\ wal' = wal \o walbuf /\ walbuf' = <<>>
      /\ UNCHANGED <<blocks, buffer>>
      /\ \/ pc = "switch" /\ Return("ok")
         \/ /\ pc # "switch" /\ pc' \in {"log", "place", "block"} /\ (pc' = "place" <=> pc = "sync")
            /\ UNCHANGED <<fate, op, target, rest>>
  BY DEF WalFlush, Goto, AfterWalFlush, call
<1>2. TypeInv /\ CallOK /\ PathOK
  BY GoodFacts DEF OrderInv, LiveInv, TypeInv, PathInv
<1>3. wal \in Seq(Record) /\ walbuf \in Seq(Record)
  BY <1>2, Typing
<1>4. \A s \in Series : InLog(wal', s) = InLog(wal, s) \union InLog(walbuf, s)
  BY <1>1, <1>3, InLogConcat
<1>5. \A s \in Series : Logged(s)' = Logged(s) /\ Held(s)' = Held(s) /\ Live(s)' = Live(s)
  <2>1. \A s \in Series : Logged(s)' = Logged(s) /\ Held(s)' = Held(s)
    BY <1>1, <1>4, InLogEmpty DEF Logged, Held
  <2>2. CASE pc = "switch" /\ Return("ok")
    <3>1. rest = <<>>
      BY <1>2, <2>2 DEF PathOK, CallOK, Modes
    <3> QED
      BY <1>2, <2>1, <2>2, <3>1, ReturnedFates
  <2>3. CASE UNCHANGED fate
    BY <2>1, <2>3 DEF Live, PointsOf
  <2> QED
    BY <1>1, <2>2, <2>3
<1>6. LogAscending(wal)'
  <2>1. \A s \in Series : Below(InLog(wal, s), InLog(walbuf, s))
    BY DEF OrderInv, WbNewest, Below, InFiles
  <2> QED
    BY <1>1, <1>3, <2>1, LogAscendingConcat DEF OrderInv
<1>7. LogAscending(walbuf)' /\ WbNewest' /\ BufAscending' /\ BlocksClosed'
  BY <1>1, <1>5, LogAscendingEmpty, InLogEmpty DEF OrderInv, WbNewest, Below, BufAscending, BlocksClosed
<1>8. Rewriting' /\ RestNewer' /\ ReplayOrder'
  <2>1. CASE pc = "switch" /\ Return("ok")
    <3>1. pc' = "idle" /\ op' = "none"
      BY <2>1 DEF Return
    <3> QED
      BY <3>1 DEF Rewriting, RestNewer, ReplayOrder
  <2>2. CASE pc # "switch"
    <3>1. Rewriting' /\ ReplayOrder'
      BY <1>1, <2>2 DEF OrderInv, Rewriting, ReplayOrder
    <3>2. RestNewer'
      <4> SUFFICES ASSUME op = "append" PROVE RestNewer'
        BY <1>1, <2>2 DEF RestNewer
      <4>1. target \in Series
        BY <1>2 DEF CallOK
      <4>2. ChunkLength' = ChunkLength /\ (pc' \in {"sync", "place"} <=> pc \in {"sync", "place"})
        BY <1>1, <2>2 DEF ChunkLength
      <4>3. Logged(target)' = Logged(target) /\ Held(target)' = Held(target)
        BY <1>1, <1>5, <2>2, <4>1
      <4> QED
        BY <1>1, <2>2, <4>2, <4>3 DEF OrderInv, RestNewer
    <3> QED
      BY <3>1, <3>2
  <2> QED
    BY <1>1, <2>1, <2>2
<1> QED
  BY <1>6, <1>7, <1>8 DEF OrderInv

\* A buffer becomes a block: whatever is older is in it or in earlier blocks.
LEMMA AppendBlockOrderInv ==
  ASSUME OrderInv, LiveInv', Distinct', AppendBlock
  PROVE  OrderInv'
<1>1. /\ pc = "block" /\ pc' \in {"truncate", "replay", "next"}
      /\ UNCHANGED <<wal, walbuf, fate, op, target, rest, cursor, registry>>
      /\ buffer' = [buffer EXCEPT ![Flushed] = <<>>]
      /\ blocks' = [blocks EXCEPT ![Flushed] = Append(@, Block(buffer[Flushed]))]
  BY DEF AppendBlock, Goto, call
<1>2. TypeInv /\ PathInv /\ KeepInv /\ Flushed \in Series
  BY <1>1, GoodFacts, FlushedSeries DEF OrderInv, LiveInv
<1>3. \A s \in Series : /\ Held(s)' = Held(s) /\ Live(s)' = Live(s) /\ Logged(s)' = Logged(s)
                        /\ PointsIn(blocks[s]) \subseteq PointsIn(blocks'[s])
  BY <1>1, <1>2, BlockHolds DEF Live, PointsOf, Logged
<1>4. /\ buffer'[Flushed] = <<>> /\ \A s \in Series : s # Flushed => buffer'[s] = buffer[s] /\ blocks'[s] = blocks[s]
  BY <1>1, <1>2, Typing
<1>5. walbuf = <<>>
  BY <1>1 DEF OrderInv, LiveInv, WbEmpty
<1>6. LogAscending(wal)' /\ LogAscending(walbuf)' /\ Rewriting'
  BY <1>1 DEF OrderInv, LogAscending, Rewriting
<1>7. WbNewest'
  BY <1>1, <1>5, InLogEmpty DEF WbNewest, Below
<1>8. BufAscending'
  BY <1>4 DEF OrderInv, BufAscending, Ascending
<1>9. RestNewer'
  <2> SUFFICES ASSUME op = "append" PROVE RestNewer'
    BY <1>1 DEF RestNewer
  <2>1. target \in Series
    BY <1>2 DEF TypeInv, CallOK
  <2>2. Logged(target)' = Logged(target) /\ Held(target)' = Held(target)
    BY <1>1, <1>3, <2>1
  <2> QED
    BY <1>1, <2>2 DEF OrderInv, RestNewer
<1>10. ReplayOrder'
  <2> SUFFICES ASSUME op = "open", rest # <<>> PROVE Below(Range(buffer'[target]), Range(rest)) /\ Ascending(rest)
    BY <1>1 DEF OrderInv, ReplayOrder
  <2>1. Flushed = target
    BY DEF Flushed
  <2> QED
    BY <1>4, <2>1, RangeEmpty DEF OrderInv, ReplayOrder, Below
<1>11. BlocksClosed'
  <2> SUFFICES ASSUME NEW s \in Series, NEW n \in PointsIn(blocks'[s]), NEW m \in Live(s), m < n
               PROVE  m \in PointsIn(blocks'[s])
    BY <1>3 DEF BlocksClosed
  <2>1. CASE n \in PointsIn(blocks[s])
    BY <1>3, <2>1 DEF OrderInv, BlocksClosed
  <2>2. CASE n \notin PointsIn(blocks[s])
    <3>1. s = Flushed
      BY <1>4, <2>2
    <3>2. n \in Range(buffer[s])
      BY <1>3, <2>2 DEF Held
    <3>3. m \in Held(s) => m \in PointsIn(blocks'[s])
      BY <1>3, <1>4, <3>1, RangeEmpty DEF Held
    <3>4. m \in Range(rest) => ~(n < m)
      <4> SUFFICES ASSUME m \in Range(rest), n < m PROVE FALSE
        OBVIOUS
      <4>1. m \in Nat /\ n \in Nat
        <5>1. rest \in Seq(Nat) /\ buffer[s] \in Seq(Nat)
          BY <1>2, Typing
        <5> QED
          BY <3>2, <5>1, RangeMember, ElementOfSeq
      <4> QED
        BY <4>1
    <3>5. CASE op # "open"
      <4>1. Up
        BY <1>1, <3>5 DEF Up
      <4>2. m \in Held(s) \/ m \in Remaining(s)
        BY <4>1 DEF OrderInv, LiveInv, LiveWhere
      <4>3. CASE m \in Remaining(s)
        <5>1. s = target /\ m \in Range(rest)
          BY <4>3 DEF Remaining
        <5>2. op = "append"
          <6>1. rest # <<>>
            BY <5>1, RangeEmpty
          <6> QED
            BY <1>2, <3>5, <6>1 DEF PathInv, PathOK
        <5>3. n < m
          BY <3>2, <5>1, <5>2 DEF OrderInv, RestNewer, Below, Held
        <5> QED
          BY <3>4, <5>1, <5>3
      <4> QED
        BY <3>3, <4>2, <4>3
    <3>6. CASE op = "open"
      <4>1. ~Up
        BY <3>6 DEF Up
      <4>2. m \in InLog(wal, s) \/ m \in PointsIn(blocks[s])
        BY <4>1 DEF OrderInv, LiveInv, LiveWhere, InFiles
      <4>3. CASE m \in InLog(wal, s)
        <5>1. PICK i \in 1..Len(wal) : wal[i].series = s /\ m \in Range(wal[i].points)
          BY <4>3, InLogMember
        <5>2. PICK j \in 1..Len(wal) : j < cursor /\ wal[j].series = s /\ n \in Range(wal[j].points)
          BY <3>2, <3>6 DEF OrderInv, LiveInv, ReplayFrom
        <5>3. CASE i < cursor
          <6>1. m \in Held(s) \/ (s = target /\ m \in Range(rest))
            BY <1>2, <3>6, <5>1, <5>3 DEF KeepInv, ReplayHeld
          <6>2. CASE s = target /\ m \in Range(rest)
            <7>1. rest # <<>>
              BY <6>2, RangeEmpty
            <7>2. n < m
              BY <3>2, <3>6, <6>2, <7>1 DEF OrderInv, ReplayOrder, Below
            <7> QED
              BY <3>4, <6>2, <7>2
          <6> QED
            BY <3>3, <6>1, <6>2
        <5>4. CASE ~(i < cursor)
          <6>1. j < i
            <7>1. cursor \in Nat /\ Len(wal) \in Nat
              BY <1>2, Typing
            <7> QED
              BY <5>2, <5>4, <7>1
          <6>2. n < m
            BY <5>1, <5>2, <6>1 DEF OrderInv, LogAscending, Below
          <6>3. m \in Nat /\ n \in Nat
            <7>1. buffer[s] \in Seq(Nat) /\ fate[s] \in Seq(Fates)
              BY <1>2, Typing
            <7>2. n \in Nat
              BY <3>2, <7>1, RangeMember, ElementOfSeq
            <7>3. m \in 1..Len(fate[s])
              BY DEF Live, PointsOf
            <7> QED
              BY <7>1, <7>2, <7>3
          <6> QED
            BY <6>2, <6>3
        <5> QED
          BY <5>3, <5>4
      <4> QED
        BY <3>3, <4>2, <4>3 DEF Held
    <3> QED
      BY <3>5, <3>6
  <2> QED
    BY <2>1, <2>2
<1> QED
  BY <1>6, <1>7, <1>8, <1>9, <1>10, <1>11 DEF OrderInv

\* wal.log is emptied.
LEMMA TruncateWalOrderInv ==
  ASSUME OrderInv, LiveInv', Distinct', TruncateWal
  PROVE  OrderInv'
<1>1. /\ pc = "truncate" /\ pc' = "rewrite" /\ wal' = <<>> /\ walbuf' = <<>>
      /\ UNCHANGED <<blocks, buffer, op, target, rest, fate>>
  BY DEF TruncateWal, Goto
<1>2. Rewriting' /\ LogAscending(wal)' /\ LogAscending(walbuf)'
  BY <1>1, LogAscendingEmpty DEF Rewriting
<1>3. WbNewest' /\ BufAscending' /\ BlocksClosed' /\ ReplayOrder'
  BY <1>1, InLogEmpty DEF OrderInv, WbNewest, Below, BufAscending, BlocksClosed, Live, PointsOf, ReplayOrder
<1>4. RestNewer'
  BY <1>1, InLogEmpty DEF OrderInv, RestNewer, Below, Held, Logged
<1> QED
  BY <1>2, <1>3, <1>4 DEF OrderInv

\* A buffer is written back: it is the only record of its series.
LEMMA RewriteWalOrderInv ==
  ASSUME OrderInv, LiveInv', Distinct', RewriteWal
  PROVE  OrderInv'
<1>1. /\ pc = "rewrite" /\ pc' = "rewrite" /\ cursor <= Len(registry) /\ cursor' = cursor + 1
      /\ wal' = (IF buffer[registry[cursor]] = <<>> THEN wal
                 ELSE Append(wal, WalRecord(registry[cursor], buffer[registry[cursor]])))
      /\ UNCHANGED <<walbuf, blocks, registry, buffer, op, target, rest, fate>>
  BY DEF RewriteWal, memory
<1>2. TypeInv /\ registry \in Seq(Series) /\ cursor \in Nat \ {0} /\ wal \in Seq(Record)
  BY GoodFacts, Typing DEF OrderInv, LiveInv
<1> DEFINE r == registry[cursor]
           x == WalRecord(r, buffer[r])
<1>3. cursor \in 1..Len(registry) /\ r \in Series
  BY <1>1, <1>2
<1>4. buffer[r] \in Seq(Nat)
  BY <1>2, <1>3, Typing
<1>5. x \in Record /\ x.series = r /\ x.points = buffer[r]
  BY <1>3, <1>4, RecordType DEF WalRecord
<1>6. wal' = wal \/ wal' = Append(wal, x)
  BY <1>1
<1> HIDE DEF x
<1>7. InLog(wal, r) = {}
  <2> SUFFICES ASSUME NEW n, n \in InLog(wal, r) PROVE FALSE
    OBVIOUS
  <2>1. PICK i \in 1..Len(wal) : wal[i].series = r
    BY InLogMember
  <2>2. PICK j \in 1..Len(registry) : j < cursor /\ r = registry[j]
    BY <1>1, <2>1 DEF OrderInv, Rewriting
  <2>3. j = cursor
    BY <1>3, <2>2 DEF OrderInv, Distinct, r
  <2> QED
    BY <1>2, <2>2, <2>3
<1> HIDE DEF r
<1>8. LogAscending(wal)'
  <2>1. Ascending(x.points) /\ Below(InLog(wal, x.series), Range(x.points))
    BY <1>3, <1>5, <1>7 DEF OrderInv, BufAscending, Below
  <2>2. CASE wal' = wal
    BY <2>2 DEF OrderInv
  <2>3. CASE wal' = Append(wal, x)
    BY <1>2, <1>5, <2>1, <2>3, LogAscendingAppend DEF OrderInv
  <2> QED
    BY <1>6, <2>2, <2>3
<1>9. Rewriting'
  <2> SUFFICES ASSUME NEW i \in 1..Len(wal')
               PROVE  \E j \in 1..Len(registry) :
                        j < cursor + 1 /\ wal'[i].series = registry[j] /\ wal'[i].points = buffer[registry[j]]
    BY <1>1 DEF Rewriting
  <2>1. (i \in 1..Len(wal) /\ wal'[i] = wal[i]) \/ (wal' = Append(wal, x) /\ i = Len(wal) + 1)
    <3>1. CASE wal' = wal
      BY <3>1
    <3>2. CASE wal' = Append(wal, x)
      <4>1. Len(wal) \in Nat /\ Len(wal') = Len(wal) + 1 /\ \A k \in 1..Len(wal) : wal'[k] = wal[k]
        BY <1>2, <1>5, <3>2, AppendProperties
      <4> QED
        BY <3>2, <4>1
    <3> QED
      BY <1>6, <3>1, <3>2
  <2>2. CASE i \in 1..Len(wal) /\ wal'[i] = wal[i]
    <3>1. PICK j \in 1..Len(registry) : j < cursor /\ wal[i].series = registry[j] /\ wal[i].points = buffer[registry[j]]
      BY <1>1, <2>2 DEF OrderInv, Rewriting
    <3>2. j < cursor + 1
      BY <1>2, <3>1
    <3> QED
      BY <2>2, <3>1, <3>2
  <2>3. CASE wal' = Append(wal, x) /\ i = Len(wal) + 1
    <3>1. wal'[i] = x
      BY <1>2, <1>5, <2>3, AppendProperties
    <3>2. cursor < cursor + 1
      BY <1>2
    <3> QED
      BY <1>3, <1>5, <3>1, <3>2 DEF r
  <2> QED
    BY <2>1, <2>2, <2>3
<1>10. walbuf = <<>>
  BY <1>1 DEF OrderInv, LiveInv, WbEmpty
<1>11. LogAscending(walbuf)' /\ WbNewest' /\ BufAscending' /\ BlocksClosed' /\ ReplayOrder'
  BY <1>1, <1>10, InLogEmpty DEF OrderInv, LogAscending, WbNewest, Below, BufAscending, BlocksClosed, Live, PointsOf,
     ReplayOrder
<1>12. RestNewer'
  <2> SUFFICES ASSUME op = "append" PROVE RestNewer'
    BY <1>1 DEF RestNewer
  <2>1. target \in Series
    BY <1>2 DEF TypeInv, CallOK
  <2>2. InLog(wal', target) \subseteq InLog(wal, target) \union Range(buffer[target])
    <3>1. CASE wal' = wal
      BY <3>1
    <3>2. CASE wal' = Append(wal, x)
      BY <1>2, <1>5, <3>2, InLogAppend
    <3> QED
      BY <1>6, <3>1, <3>2
  <2>3. /\ Ascending(rest) /\ Below(Held(target), Range(rest)) /\ Below(Logged(target), Range(rest))
    BY <1>1 DEF OrderInv, RestNewer
  <2>4. Below(Logged(target)', Range(rest')) /\ Held(target)' = Held(target)
    BY <1>1, <2>2, <2>3 DEF Below, Logged, Held
  <2> QED
    BY <1>1, <2>3, <2>4 DEF RestNewer
<1> QED
  BY <1>8, <1>9, <1>11, <1>12 DEF OrderInv

\* A segment file is removed.
LEMMA UnlinkSegmentOrderInv ==
  ASSUME OrderInv, LiveInv', Distinct', UnlinkSegment
  PROVE  OrderInv'
<1>1. pc = "unlink" /\ pc' = "rmdir" /\ UNCHANGED <<wal, walbuf, buffer, op, target, rest>>
  BY DEF UnlinkSegment, Goto, memory, call
<1>2. PathInv
  BY GoodFacts DEF OrderInv, LiveInv
<1>3. /\ target \in Series /\ walbuf = <<>>
      /\ blocks'[target] = <<>> /\ \A s \in Series : s # target => blocks'[s] = blocks[s] /\ fate'[s] = fate[s]
  BY <1>2, UnlinkedPoints
<1>4. op = "delete"
  BY <1>1, <1>2 DEF PathInv, PathOK
<1>5. LogAscending(wal)' /\ LogAscending(walbuf)' /\ BufAscending' /\ Rewriting' /\ RestNewer' /\ ReplayOrder'
  BY <1>1, <1>4 DEF OrderInv, LogAscending, BufAscending, Rewriting, RestNewer, ReplayOrder
<1>6. WbNewest'
  BY <1>1, <1>3, InLogEmpty DEF WbNewest, Below
<1>7. BlocksClosed'
  <2> SUFFICES ASSUME NEW s \in Series, NEW n \in PointsIn(blocks'[s]), NEW m \in Live(s)', m < n
               PROVE  m \in PointsIn(blocks'[s])
    BY DEF BlocksClosed
  <2>1. s # target
    BY <1>3 DEF PointsIn
  <2>2. m \in Live(s)
    BY <1>3, <2>1 DEF Live, PointsOf
  <2> QED
    BY <1>3, <2>1, <2>2 DEF OrderInv, BlocksClosed
<1> QED
  BY <1>5, <1>6, <1>7 DEF OrderInv

\* OrderInv is inductive when no file operation fails.
LEMMA NextOrderInv ==
  ASSUME NoFaults, OrderInv, [Next]_vars
  PROVE  OrderInv'
<1>1. LiveInv'
  BY NextLiveInv DEF OrderInv
<1>2. Distinct'
  BY NextDistinct, GoodFacts DEF OrderInv, LiveInv
<1>3. UNCHANGED vars \/ Open \/ StartCall \/ Continue \/ Crash
  BY FaultlessSteps DEF OrderInv, LiveInv
<1>4. CASE UNCHANGED vars
  <2>1. UNCHANGED <<wal, walbuf, blocks, buffer, fate, pc, op, target, rest, cursor, registry>>
    BY <1>4 DEF vars, disk, memory, call
  <2>2. \A s \in Series : /\ Live(s)' = Live(s) /\ Logged(s)' = Logged(s) /\ Held(s)' = Held(s)
                          /\ InFiles(s)' = InFiles(s)
    BY <2>1 DEF Live, PointsOf, Logged, Held, InFiles
  <2>3. LogAscending(wal)' /\ LogAscending(walbuf)' /\ WbNewest' /\ BufAscending'
    BY <2>1, <2>2 DEF OrderInv, LogAscending, WbNewest, BufAscending
  <2>4. Rewriting' /\ ReplayOrder' /\ BlocksClosed'
    BY <2>1, <2>2 DEF OrderInv, Rewriting, ReplayOrder, BlocksClosed
  <2>5. RestNewer'
    BY <2>1 DEF OrderInv, RestNewer, Held, Logged, ChunkLength
  <2> QED
    BY <1>1, <1>2, <2>3, <2>4, <2>5 DEF OrderInv
<1>5. CASE Open \/ Crash
  BY <1>1, <1>2, <1>5, QuietStepsOrderInv, ForgetOrderInv DEF Crash
<1>6. CASE StartCall
  BY <1>1, <1>2, <1>6, QuietStepsOrderInv, StartAppendOrderInv DEF StartCall
<1>7. CASE Continue
  <2>1. CASE ReplayRecord \/ ReplayPoints \/ ReplayEnds
    BY <1>1, <1>2, <2>1, ReplayRecordOrderInv, ReplayPointsOrderInv, QuietStepsOrderInv
  <2>2. CASE Chunk \/ Log \/ Place \/ AppendDone
    BY <1>1, <1>2, <2>2, QuietStepsOrderInv, LogOrderInv, PlaceOrderInv
  <2>3. CASE WalFlush \/ FlushSeries \/ NextSeries \/ AppendBlock
    BY <1>1, <1>2, <2>3, WalFlushOrderInv, QuietStepsOrderInv, AppendBlockOrderInv
  <2>4. CASE RewriteEnds
    <3>1. CASE op = "close"
      BY <1>1, <1>2, <2>4, <3>1, ForgetOrderInv DEF RewriteEnds
    <3>2. CASE op # "close"
      BY <1>1, <1>2, <2>4, <3>2, QuietStepsOrderInv
    <3> QED
      BY <3>1, <3>2
  <2>5. CASE TruncateWal \/ RewriteWal \/ UnlinkSegment \/ RemoveDirectory
    BY <1>1, <1>2, <2>5, TruncateWalOrderInv, RewriteWalOrderInv, UnlinkSegmentOrderInv, QuietStepsOrderInv
  <2> QED
    BY <1>7, <2>1, <2>2, <2>3, <2>4, <2>5 DEF Continue
<1> QED
  BY <1>3, <1>4, <1>5, <1>6, <1>7

LEMMA InitOrderInv == Init => OrderInv
<1> SUFFICES ASSUME Init PROVE OrderInv
  OBVIOUS
<1>1. LiveInv
  BY InitLiveInv
<1>2. wal = <<>> /\ walbuf = <<>> /\ registry = <<>> /\ pc = "closed" /\ op = "none"
  BY DEF Init
<1>3. \A s \in Series : buffer[s] = <<>> /\ blocks[s] = <<>>
  BY EmptyType DEF Init
<1>4. Distinct /\ Rewriting /\ RestNewer /\ ReplayOrder
  BY <1>2 DEF Distinct, Rewriting, RestNewer, ReplayOrder
<1>5. LogAscending(wal) /\ LogAscending(walbuf) /\ WbNewest /\ BufAscending /\ BlocksClosed
  BY <1>2, <1>3, LogAscendingEmpty, InLogEmpty DEF WbNewest, Below, BufAscending, Ascending, BlocksClosed, PointsIn
<1> QED
  BY <1>1, <1>4, <1>5 DEF OrderInv

\* A point on disk has every older live point on disk with it.
LEMMA SuffixOnly ==
  ASSUME OrderInv, NEW s \in Series, NEW m \in Live(s), NEW n \in Live(s), m < n, n \in InFiles(s)
  PROVE  m \in InFiles(s)
<1>1. TypeInv /\ PathInv
  BY GoodFacts DEF OrderInv, LiveInv
<1>2. m \in Nat /\ n \in Nat
  <2>1. fate[s] \in Seq(Fates)
    BY <1>1, Typing
  <2> QED
    BY <2>1 DEF Live, PointsOf
<1>3. CASE n \in PointsIn(blocks[s])
  BY <1>3 DEF OrderInv, BlocksClosed, InFiles
<1>4. CASE n \in InLog(wal, s)
  <2>1. CASE ~Up
    BY <2>1 DEF OrderInv, LiveInv, LiveWhere
  <2>2. CASE Up
    <3>1. m \in Range(buffer[s]) \/ m \in PointsIn(blocks[s]) \/ m \in Remaining(s)
      BY <2>2 DEF OrderInv, LiveInv, LiveWhere, Held
    <3>2. m \in InLog(walbuf, s) => n < m
      BY <1>4 DEF OrderInv, WbNewest, Below, InFiles
    <3>3. CASE m \in PointsIn(blocks[s])
      BY <3>3 DEF InFiles
    <3>4. CASE m \in Range(buffer[s])
      <4>1. CASE pc # "rewrite"
        <5>1. m \in InLog(wal, s) \/ m \in InLog(walbuf, s)
          BY <3>4, <4>1 DEF OrderInv, LiveInv, BufLogged, Logged
        <5> QED
          BY <1>2, <3>2, <5>1 DEF InFiles
      <4>2. CASE pc = "rewrite"
        <5>1. PICK i \in 1..Len(wal) : wal[i].series = s
          BY <1>4, InLogMember
        <5>2. PICK j \in 1..Len(registry) : j < cursor /\ registry[j] = s
          BY <4>2, <5>1 DEF OrderInv, Rewriting
        <5>3. Range(buffer[s]) \subseteq InLog(wal, s)
          BY <4>2, <5>2 DEF OrderInv, LiveInv, Rewritten
        <5> QED
          BY <3>4, <5>3 DEF InFiles
      <4> QED
        BY <4>1, <4>2
    <3>5. CASE m \in Remaining(s)
      <4>1. s = target /\ m \in Range(rest) /\ op # "open"
        BY <2>2, <3>5 DEF Remaining, Up
      <4>2. op = "append"
        <5>1. rest # <<>>
          BY <4>1, RangeEmpty
        <5> QED
          BY <1>1, <4>1, <5>1 DEF PathInv, PathOK
      <4>3. CASE pc \notin {"sync", "place"}
        <5>1. n < m
          BY <1>4, <4>1, <4>2, <4>3 DEF OrderInv, RestNewer, Below, Logged
        <5> QED
          BY <1>2, <5>1
      <4>4. CASE pc \in {"sync", "place"}
        <5> DEFINE chunk == SubSeq(rest, 1, ChunkLength)
                   left == SubSeq(rest, ChunkLength + 1, Len(rest))
        <5>1. rest \in Seq(Nat) /\ ChunkLength \in 0..Len(rest)
          BY <1>1, <4>1, ChunkFits, Typing DEF TypeInv
        <5>2. Range(rest) = Range(chunk) \union Range(left)
          BY <5>1, RangeSplit
        <5>3. Range(chunk) \subseteq Logged(s)
          BY <4>1, <4>4 DEF OrderInv, LiveInv, ChunkLogged
        <5>4. Below(Logged(s), Range(left))
          BY <4>1, <4>2, <4>4 DEF OrderInv, RestNewer
        <5> HIDE DEF chunk, left
        <5>5. CASE m \in Range(left)
          <6>1. n < m
            BY <1>4, <5>4, <5>5 DEF Below, Logged
          <6> QED
            BY <1>2, <6>1
        <5>6. CASE m \in Range(chunk)
          BY <1>2, <3>2, <5>3, <5>6 DEF Logged, InFiles
        <5> QED
          BY <4>1, <5>2, <5>5, <5>6
      <4> QED
        BY <4>3, <4>4
    <3> QED
      BY <3>1, <3>3, <3>4, <3>5
  <2> QED
    BY <2>1, <2>2
<1> QED
  BY <1>3, <1>4 DEF InFiles

\* A crash at any step loses the newest points of a series only, in every
\* durability mode: points reach wal.log and the segment file in the order of the
\* calls, and the rewrite of wal.log puts a buffer back as a whole.
THEOREM OnlyNewestAreLost ==
  ASSUME NoFaults
  PROVE  Spec => []LossIsSuffix
<1>1. OrderInv => LossIsSuffix
  <2> SUFFICES ASSUME OrderInv, NEW s \in Series, NEW m \in Live(s), NEW n \in Live(s), m < n, n \in OnDisk(s)
               PROVE  m \in OnDisk(s)
    BY DEF LossIsSuffix, Live
  <2>1. OnDisk(s) = InFiles(s)
    BY GoodFacts DEF OrderInv, LiveInv
  <2> QED
    BY <2>1, SuffixOnly
<1>2. OrderInv /\ [Next]_vars => OrderInv'
  BY NextOrderInv
<1> QED
  BY InitOrderInv, <1>1, <1>2, PTL DEF Spec

-----------------------------------------------------------------------------
(* What a query sees *)

Read(file) == [i \in 1..Len(file) |-> IF IsWhole(file[i]) THEN file[i].points ELSE <<>>]

LEMMA ReadType ==
  ASSUME NEW file \in Seq(AnyBlock)
  PROVE  /\ Read(file) \in Seq(Seq(Nat)) /\ Len(Read(file)) = Len(file)
         /\ \A i \in 1..Len(file) : IsWhole(file[i]) => Read(file)[i] = file[i].points
<1>1. \A i \in 1..Len(file) : file[i].points \in Seq(Nat)
  <2>1. \A i \in 1..Len(file) : file[i] \in AnyBlock
    BY ElementOfSeq
  <2> QED
    BY <2>1 DEF AnyBlock
<1> QED
  BY <1>1 DEF Read

\* One more whole block is read after the others.
LEMMA ReadAppend ==
  ASSUME NEW file \in Seq(AnyBlock), NEW x \in AnyBlock, IsWhole(x)
  PROVE  Read(Append(file, x)) = Append(Read(file), x.points)
<1> DEFINE w == Append(file, x)
<1>1. w \in Seq(AnyBlock) /\ Len(w) = Len(file) + 1 /\ w[Len(file) + 1] = x /\ Len(file) \in Nat
      /\ \A i \in 1..Len(file) : w[i] = file[i]
  BY AppendProperties
<1> HIDE DEF w
<1>2. Read(w) \in Seq(Seq(Nat)) /\ Len(Read(w)) = Len(file) + 1
  BY <1>1, ReadType
<1>3. Read(file) \in Seq(Seq(Nat)) /\ Len(Read(file)) = Len(file) /\ x.points \in Seq(Nat)
  BY ReadType DEF AnyBlock
<1> DEFINE v == Append(Read(file), x.points)
<1>4. v \in Seq(Seq(Nat)) /\ Len(v) = Len(file) + 1 /\ v[Len(file) + 1] = x.points
      /\ \A i \in 1..Len(file) : v[i] = Read(file)[i]
  BY <1>3, AppendProperties
<1> HIDE DEF v
<1>5. ASSUME NEW i \in 1..Len(Read(w)) PROVE Read(w)[i] = v[i]
  <2>1. i \in 1..Len(file) \/ i = Len(file) + 1
    BY <1>1, <1>2
  <2>2. CASE i \in 1..Len(file)
    BY <1>1, <1>2, <1>4, <2>2 DEF Read
  <2>3. CASE i = Len(file) + 1
    <3>1. i \in 1..Len(w) /\ w[i] = x
      BY <1>1, <2>3
    <3>2. Read(w)[i] = x.points
      BY <1>1, <3>1, ReadType
    <3> QED
      BY <1>4, <2>3, <3>2
  <2> QED
    BY <2>1, <2>2, <2>3
<1>6. Read(w) = v
  BY <1>2, <1>4, <1>5, SeqEqual
<1> QED
  BY <1>6 DEF v, w

LEMMA VisibleIs ==
  ASSUME TypeInv, NEW s \in Series
  PROVE  /\ FlattenSeq(Read(blocks[s])) \in Seq(Nat) /\ buffer[s] \in Seq(Nat)
         /\ Visible(s) = FlattenSeq(Read(blocks[s])) \o buffer[s]
         /\ Visible(s) \in Seq(Nat)
         /\ Fragments(blocks[s]) = {} => Range(Visible(s)) = Held(s)
<1>1. blocks[s] \in Seq(AnyBlock) /\ buffer[s] \in Seq(Nat)
  BY Typing
<1> DEFINE read == Read(blocks[s])
           flat == FlattenSeq(read)
<1>2. /\ read \in Seq(Seq(Nat)) /\ Len(read) = Len(blocks[s])
      /\ \A i \in 1..Len(blocks[s]) : IsWhole(blocks[s][i]) => read[i] = blocks[s][i].points
  BY <1>1, ReadType
<1>3. Visible(s) = flat \o buffer[s]
  BY DEF Visible, Read
<1> HIDE DEF read
<1>4. flat \in Seq(Nat) /\ Range(flat) = UNION {Range(read[i]) : i \in 1..Len(read)}
  BY <1>2, FlattenRange
<1> HIDE DEF flat
<1>5. flat \o buffer[s] \in Seq(Nat)
  BY <1>1, <1>4, ConcatProperties
<1>6. Range(flat \o buffer[s]) = Range(flat) \union Range(buffer[s])
  BY <1>1, <1>4, RangeConcat
<1>7. ASSUME Fragments(blocks[s]) = {} PROVE Range(flat) = PointsIn(blocks[s])
  <2>1. \A i \in 1..Len(blocks[s]) : read[i] = blocks[s][i].points
    BY <1>2, <1>7, NoFragmentsMeans
  <2> QED
    BY <1>2, <1>4, <2>1 DEF PointsIn
<1> QED
  BY <1>1, <1>3, <1>4, <1>5, <1>6, <1>7 DEF Held, flat, read

\* Storing a buffer as a block changes nothing of what a query sees.
LEMMA BlockIsSeen ==
  ASSUME PathInv, AppendBlock, NEW s \in Series
  PROVE  Visible(s)' = Visible(s)
<1>1. /\ pc = "block"
      /\ blocks' = [blocks EXCEPT ![Flushed] = Append(@, Block(buffer[Flushed]))]
      /\ buffer' = [buffer EXCEPT ![Flushed] = <<>>]
  BY DEF AppendBlock
<1>2. Flushed \in Series /\ TypeInv
  BY <1>1, FlushedSeries DEF PathInv
<1>3. Visible(s)' = FlattenSeq(Read(blocks'[s])) \o buffer'[s]
  BY DEF Visible, Read
<1>4. FlattenSeq(Read(blocks[s])) \in Seq(Nat) /\ buffer[s] \in Seq(Nat) /\ blocks[s] \in Seq(AnyBlock)
      /\ Visible(s) = FlattenSeq(Read(blocks[s])) \o buffer[s]
  BY <1>2, VisibleIs, Typing
<1>5. CASE s # Flushed
  BY <1>1, <1>2, <1>3, <1>4, <1>5, Typing
<1>6. CASE s = Flushed
  <2>1. blocks'[s] = Append(blocks[s], Block(buffer[s])) /\ buffer'[s] = <<>>
    BY <1>1, <1>2, <1>6, Typing
  <2>2. Block(buffer[s]) \in AnyBlock /\ IsWhole(Block(buffer[s])) /\ Block(buffer[s]).points = buffer[s]
    BY <1>4, BlockType, NewItemsAreWhole DEF Block
  <2> DEFINE x == Block(buffer[s])
             read == Read(blocks[s])
             flat == FlattenSeq(read)
  <2>3. Read(blocks'[s]) = Append(read, buffer[s])
    <3> HIDE DEF x
    <3>1. Read(Append(blocks[s], x)) = Append(read, x.points)
      BY <1>4, <2>2, ReadAppend DEF x
    <3> QED
      BY <2>1, <2>2, <3>1 DEF x
  <2>4. read \in Seq(Seq(Nat))
    BY <1>4, ReadType
  <2> HIDE DEF read
  <2>5. FlattenSeq(Append(read, buffer[s])) = flat \o buffer[s]
    BY <1>4, <2>4, FlattenAppend
  <2>6. flat \o buffer[s] \in Seq(Nat)
    <3>1. flat \in Seq(Nat)
      BY <1>4 DEF read
    <3> HIDE DEF flat
    <3> QED
      BY <1>4, <3>1, ConcatProperties
  <2> HIDE DEF flat
  <2>7. (flat \o buffer[s]) \o <<>> = flat \o buffer[s]
    BY <2>6, ConcatEmptySeq
  <2> QED
    BY <1>3, <1>4, <2>1, <2>3, <2>5, <2>7 DEF flat, read
<1> QED
  BY <1>5, <1>6

LEMMA PointsAssociative ==
  \A u, v, w \in Seq(Nat) : (u \o v) \o w = u \o (v \o w)
  BY ONLY ConcatAssociative, SMTT(60)

\* A chunk that enters a buffer is seen after what was there.
LEMMA ChunkIsSeen ==
  ASSUME TypeInv, target \in Series, blocks' = blocks,
         buffer' = [buffer EXCEPT ![target] = @ \o SubSeq(rest, 1, ChunkLength)], NEW s \in Series
  PROVE  Visible(s)' = IF s = target THEN Visible(s) \o SubSeq(rest, 1, ChunkLength) ELSE Visible(s)
<1> DEFINE chunk == SubSeq(rest, 1, ChunkLength)
           flat == FlattenSeq(Read(blocks[s]))
<1>1. Visible(s)' = FlattenSeq(Read(blocks'[s])) \o buffer'[s]
  BY DEF Visible, Read
<1>2. flat \in Seq(Nat) /\ buffer[s] \in Seq(Nat) /\ Visible(s) = flat \o buffer[s]
  BY VisibleIs
<1>3. chunk \in Seq(Nat)
  BY ChunkFits DEF TypeInv
<1>4. s # target => buffer'[s] = buffer[s]
  BY Typing
<1>5. s = target => buffer'[s] = buffer[s] \o chunk
  BY Typing
<1>6. Visible(s)' = flat \o buffer'[s]
  BY <1>1
<1> HIDE DEF chunk, flat
<1>7. (flat \o buffer[s]) \o chunk = flat \o (buffer[s] \o chunk)
  <2>1. flat \in Seq(Nat) /\ buffer[s] \in Seq(Nat) /\ chunk \in Seq(Nat)
    BY <1>2, <1>3
  <2> QED
    BY <2>1, PointsAssociative
<1> QED
  BY <1>2, <1>4, <1>5, <1>6, <1>7 DEF chunk

\* Up to the first crash every open finds an empty wal.log: tsedge_close leaves it
\* so.  There is nothing to replay, and what a query sees is in order.
FirstRun ==
  crashes = 0 =>
    /\ op = "open" => pc = "replay"
    /\ pc = "closed" \/ op = "open" => wal = <<>> /\ rest = <<>> /\ \A s \in Series : buffer[s] = <<>>
    /\ \A s \in Series : Ascending(Visible(s))

SeenInv == OrderInv /\ FirstRun

LEMMA SameSeen ==
  ASSUME UNCHANGED <<blocks, buffer>>
  PROVE  \A s \in Series : Visible(s)' = Visible(s)
BY DEF Visible

LEMMA NextFirstRun ==
  ASSUME NoFaults, SeenInv, [Next]_vars
  PROVE  FirstRun'
<1> SUFFICES ASSUME crashes' = 0 PROVE FirstRun'
  BY DEF FirstRun
<1>1. TypeInv /\ CallOK /\ PathInv /\ PathOK /\ EmptiedOK /\ KeepInv /\ Good
  BY GoodFacts DEF SeenInv, OrderInv, LiveInv, TypeInv, PathInv
<1>2. UNCHANGED vars \/ Open \/ StartCall \/ Continue
  <2>1. ~Crash
    <3>1. crashes \in Nat
      <4>1. crashes \in 0..MaxCrashes /\ MaxCrashes \in Nat
        BY <1>1, StoreAssumption DEF TypeInv, TypeOK
      <4> QED
        BY <4>1
    <3> QED
      BY <3>1 DEF Crash
  <2> QED
    BY <1>1, <2>1, FaultlessSteps
<1>3. UNCHANGED crashes
  <2>1. CASE UNCHANGED vars \/ Open
    BY <2>1 DEF vars, bounds, Open
  <2>2. CASE StartCall
    BY <2>2 DEF StartCall, CreateSeries, SetDurability, StartAppend, StartFlush, StartFlushAll, bounds
  <2>3. CASE Continue
    <3>1. CASE ReplayRecord \/ ReplayPoints \/ ReplayEnds \/ Chunk \/ Log \/ Place \/ AppendDone
      BY <3>1 DEF ReplayRecord, ReplayPoints, ReplayEnds, Chunk, Log, Place, AppendDone, bounds
    <3>2. CASE WalFlush \/ FlushSeries \/ NextSeries \/ AppendBlock
      BY <3>2 DEF WalFlush, FlushSeries, NextSeries, AppendBlock, bounds
    <3>3. CASE TruncateWal \/ RewriteWal \/ RewriteEnds \/ UnlinkSegment \/ RemoveDirectory
      BY <3>3 DEF TruncateWal, RewriteWal, RewriteEnds, UnlinkSegment, RemoveDirectory, bounds
    <3> QED
      BY <2>3, <3>1, <3>2, <3>3 DEF Continue
  <2> QED
    BY <1>2, <2>1, <2>2, <2>3
<1>4. /\ op = "open" => pc = "replay"
      /\ pc = "closed" \/ op = "open" => wal = <<>> /\ rest = <<>> /\ \A s \in Series : buffer[s] = <<>>
      /\ \A s \in Series : Ascending(Visible(s))
  BY <1>3 DEF SeenInv, FirstRun
<1>5. ASSUME UNCHANGED <<blocks, buffer>>, pc' # "closed", op' # "open" PROVE FirstRun'
  <2>1. \A s \in Series : Visible(s)' = Visible(s)
    BY <1>5, SameSeen
  <2> QED
    BY <1>4, <1>5, <2>1 DEF FirstRun
<1>6. ASSUME NEW r, Return(r), UNCHANGED <<blocks, buffer>> PROVE FirstRun'
  BY <1>5, <1>6 DEF Return
<1>7. CASE UNCHANGED vars
  <2>1. UNCHANGED <<blocks, buffer, pc, op, wal, rest>>
    BY <1>7 DEF vars, disk, memory, call
  <2>2. \A s \in Series : Visible(s)' = Visible(s)
    BY <2>1, SameSeen
  <2> QED
    BY <1>4, <2>1, <2>2 DEF FirstRun
<1>8. CASE Open
  <2>1. pc = "closed" /\ pc' = "replay" /\ UNCHANGED <<blocks, buffer, wal, rest>>
    BY <1>8 DEF Open, Goto, disk
  <2>2. \A s \in Series : Visible(s)' = Visible(s)
    BY <2>1, SameSeen
  <2> QED
    BY <1>4, <2>1, <2>2 DEF FirstRun
<1>9. CASE StartCall
  <2>1. pc' # "closed" /\ op' # "open" /\ UNCHANGED <<blocks, buffer>>
    <3>1. CASE \E s \in Series : CreateSeries(s)
      BY <1>1, <3>1 DEF CreateSeries, call, CallOK
    <3>2. CASE \E s \in Series, n \in 1..MaxBatch : StartAppend(s, n)
      BY <3>2 DEF StartAppend, Call, Goto, disk, memory
    <3>3. CASE \E mode \in Selected : SetDurability(mode)
      BY <3>3, StoreAssumption DEF SetDurability, Goto, disk, memory
    <3>4. CASE \E s \in Series : StartFlush(s)
      BY <3>4 DEF StartFlush, Call, Goto, disk, memory
    <3>5. CASE \E name \in {"flush_all", "close", "delete"}, s \in Series \union {NoSeries} : StartFlushAll(name, s)
      BY <3>5 DEF StartFlushAll, Call, Goto, disk, memory
    <3> QED
      BY <1>9, <3>1, <3>2, <3>3, <3>4, <3>5 DEF StartCall
  <2> QED
    BY <1>5, <2>1
<1>10. CASE ReplayRecord \/ ReplayPoints
  <2>1. op = "open" /\ (ReplayPoints => rest # <<>>) /\ (ReplayRecord => cursor \in 1..Len(wal))
    BY <1>1, <1>10, ReplayedRecord DEF ReplayRecord, ReplayPoints, CallOK
  <2> QED
    BY <1>4, <1>10, <2>1
<1>11. CASE ReplayEnds
  BY <1>1, <1>6, <1>11, ReplayedAll DEF disk, memory
<1>12. CASE AppendDone \/ RemoveDirectory
  BY <1>6, <1>12 DEF AppendDone, RemoveDirectory, disk, memory
<1>13. CASE Chunk \/ NextSeries \/ Log
  <2>1. /\ pc \in {"chunk", "next", "log"} /\ pc' # "closed" /\ UNCHANGED <<blocks, buffer, op>>
    BY <1>13 DEF Chunk, NextSeries, Log, Goto, disk, memory, call
  <2> QED
    BY <1>4, <1>5, <2>1
<1>14. CASE Place
  <2>1. /\ pc = "place" /\ pc' = "chunk" /\ UNCHANGED <<blocks, op>>
        /\ buffer' = [buffer EXCEPT ![target] = @ \o SubSeq(rest, 1, ChunkLength)]
    BY <1>14 DEF Place, Goto, disk
  <2>2. op = "append" /\ target \in Series
    BY <1>1, <2>1 DEF CallOK
  <2> DEFINE chunk == SubSeq(rest, 1, ChunkLength)
  <2>3. \A s \in Series : Visible(s)' = IF s = target THEN Visible(s) \o chunk ELSE Visible(s)
    BY <1>1, <2>1, <2>2, ChunkIsSeen
  <2>4. Ascending(rest) /\ Below(Held(target), Range(rest)) /\ Ascending(buffer[target])
    BY <2>2 DEF SeenInv, OrderInv, RestNewer, BufAscending
  <2>5. rest \in Seq(Nat) /\ ChunkLength \in 0..Len(rest) /\ chunk \in Seq(Nat)
    BY <1>1, <2>2, ChunkFits, Typing DEF TypeInv
  <2>6. Ascending(chunk) /\ Range(chunk) \subseteq Range(rest)
    BY <2>4, <2>5, AscendingSplit, RangeSplit
  <2> HIDE DEF chunk
  <2>7. Visible(target) \in Seq(Nat) /\ Range(Visible(target)) \subseteq Held(target)
    BY <1>1, <2>2, VisibleIs, VisibleIsHeld
  <2>8. Below(Range(Visible(target)), Range(chunk))
    BY <2>4, <2>6, <2>7 DEF Below
  <2>9. Ascending(Visible(target) \o chunk)
    BY <1>4, <2>2, <2>5, <2>6, <2>7, <2>8, AscendingConcat
  <2>10. \A s \in Series : Ascending(Visible(s)')
    BY <1>4, <2>3, <2>9
  <2>11. op' # "open" /\ pc' # "closed"
    BY <2>1, <2>2
  <2> QED
    BY <2>10, <2>11 DEF FirstRun, Ascending
<1>15. CASE WalFlush
  <2>1. pc \in {"spill", "sync", "seal", "switch"} /\ UNCHANGED <<blocks, buffer>>
        /\ (Return("ok") \/ (pc' \in {"log", "place", "block"} /\ UNCHANGED op))
    BY <1>15 DEF WalFlush, Goto, AfterWalFlush, call
  <2> QED
    BY <1>4, <1>5, <1>6, <2>1
<1>16. CASE FlushSeries
  <2>1. pc = "flush" /\ UNCHANGED <<blocks, buffer>> /\ (Return("ok") \/ (pc' = "seal" /\ UNCHANGED op))
    BY <1>16 DEF FlushSeries, Goto, disk, memory, call
  <2> QED
    BY <1>4, <1>5, <1>6, <2>1
<1>17. CASE AppendBlock
  <2>1. pc = "block" /\ pc' \in {"truncate", "replay", "next"} /\ UNCHANGED op
    BY <1>17 DEF AppendBlock, Goto, call
  <2>2. \A s \in Series : Visible(s)' = Visible(s)
    BY <1>1, <1>17, BlockIsSeen
  <2> QED
    BY <1>4, <2>1, <2>2 DEF FirstRun
<1>18. CASE TruncateWal \/ RewriteWal
  <2>1. pc \in {"truncate", "rewrite"} /\ pc' = "rewrite" /\ UNCHANGED <<blocks, buffer, op>>
    BY <1>18 DEF TruncateWal, RewriteWal, Goto, memory
  <2> QED
    BY <1>4, <1>5, <2>1
<1>19. CASE RewriteEnds
  <2>1. CASE op = "close"
    <3>1. pc = "rewrite" /\ pc' = "closed" /\ op' = "none" /\ rest' = <<>> /\ UNCHANGED <<wal, blocks>> /\ buffer' = Empty
      BY <1>19, <2>1 DEF RewriteEnds, Forget, disk
    <3>2. wal = <<>> /\ \A s \in Series : buffer[s] = <<>> /\ buffer'[s] = <<>>
      BY <1>1, <2>1, <3>1, EmptyType DEF EmptiedOK, Bulk
    <3>3. \A s \in Series : Visible(s)' = Visible(s)
      BY <3>1, <3>2 DEF Visible
    <3> QED
      BY <1>4, <3>1, <3>2, <3>3 DEF FirstRun
  <2>2. CASE op # "close"
    <3>1. pc = "rewrite" /\ UNCHANGED <<blocks, buffer>> /\ (Return("ok") \/ (pc' \in {"chunk", "unlink"} /\ UNCHANGED op))
      BY <1>19, <2>2 DEF RewriteEnds, Goto, disk, memory
    <3> QED
      BY <1>4, <1>5, <1>6, <3>1
  <2> QED
    BY <2>1, <2>2
<1>20. CASE UnlinkSegment
  <2>1. pc = "unlink" /\ pc' = "rmdir" /\ UNCHANGED <<buffer, op>>
    BY <1>20 DEF UnlinkSegment, Goto, memory, call
  <2>2. /\ target \in Series /\ \A s \in Series : buffer[s] = <<>>
        /\ blocks'[target] = <<>> /\ \A s \in Series : s # target => blocks'[s] = blocks[s]
    BY <1>1, <1>20, UnlinkedPoints
  <2>3. op # "open"
    BY <1>4, <2>1
  <2>4. \A s \in Series : s # target => Visible(s)' = Visible(s)
    BY <2>1, <2>2 DEF Visible
  <2>5. ASSUME NEW s \in Series, s = target PROVE Visible(s)' = <<>>
    <3>1. Visible(s)' = FlattenSeq(Read(<<>>)) \o <<>>
      BY <2>1, <2>2, <2>5 DEF Visible, Read
    <3>2. Read(<<>>) = <<>>
      BY DEF Read
    <3>3. <<>> \o <<>> = <<>>
      OBVIOUS
    <3> QED
      BY <3>1, <3>2, <3>3, FlattenEmpty
  <2>6. \A s \in Series : Ascending(Visible(s)')
    BY <1>4, <2>4, <2>5 DEF Ascending
  <2> QED
    BY <2>1, <2>3, <2>6 DEF FirstRun, Ascending
<1> QED
  BY <1>2, <1>7, <1>8, <1>9, <1>10, <1>11, <1>12, <1>13, <1>14, <1>15, <1>16, <1>17, <1>18, <1>19, <1>20 DEF Continue

\* Until the first crash a query sees every acknowledged point exactly once and in
\* the order of the calls, across flushes, WAL rewrites, deletions, closes and
\* opens.
THEOREM SeenExactlyOnce ==
  ASSUME NoFaults
  PROVE  Spec => []ExactlyOnceInOrder
<1>1. Init => SeenInv
  <2> SUFFICES ASSUME Init PROVE FirstRun
    BY InitOrderInv DEF SeenInv
  <2>1. \A s \in Series : buffer[s] = <<>> /\ blocks[s] = <<>>
    BY EmptyType DEF Init
  <2>2. \A s \in Series : Visible(s) = FlattenSeq(Read(<<>>)) \o <<>>
    BY <2>1 DEF Visible, Read
  <2>3. Read(<<>>) = <<>> /\ <<>> \o <<>> = <<>>
    BY DEF Read
  <2>4. \A s \in Series : Visible(s) = <<>>
    BY <2>2, <2>3, FlattenEmpty
  <2> QED
    BY <2>1, <2>4 DEF Init, FirstRun, Ascending
<1>2. SeenInv /\ [Next]_vars => SeenInv'
  BY NextOrderInv, NextFirstRun DEF SeenInv
<1>3. SeenInv => ExactlyOnceInOrder
  <2> SUFFICES ASSUME SeenInv, pc = "idle", crashes = 0, NEW s \in Range(registry)
               PROVE  Range(Visible(s)) = Acknowledged(s) /\ Ascending(Visible(s))
    BY DEF ExactlyOnceInOrder, Ascending
  <2>0. s \in Series
    <3>1. registry \in Seq(Series)
      BY Typing, GoodFacts DEF SeenInv, OrderInv, LiveInv
    <3> QED
      BY <3>1, RangeMember, ElementOfSeq
  <2>1. TypeInv /\ KeepInv /\ op = "none" /\ rest = <<>>
    BY GoodFacts DEF SeenInv, OrderInv, LiveInv, TypeInv, CallOK
  <2>2. Range(Visible(s)) = Held(s)
    BY <2>0, <2>1, VisibleIs DEF KeepInv, Unbroken
  <2>3. Live(s) \subseteq Held(s)
    BY <2>0, <2>1, RangeEmpty DEF SeenInv, OrderInv, LiveInv, LiveWhere, Up, Remaining
  <2>4. Held(s) \subseteq Live(s)
    BY <2>0 DEF SeenInv, OrderInv, LiveInv, OnlyLive, Anywhere
  <2>5. PointsOf(s, {"pending"}) = {}
    BY <2>0, <2>1 DEF KeepInv, PendingHeld
  <2>6. Live(s) = Acknowledged(s)
    BY <2>5 DEF Live, Acknowledged, PointsOf
  <2>7. Ascending(Visible(s))
    BY <2>0 DEF SeenInv, FirstRun
  <2> QED
    BY <2>2, <2>3, <2>4, <2>6, <2>7
<1> QED
  BY <1>1, <1>2, <1>3, PTL DEF Spec

-----------------------------------------------------------------------------
(* TsedgeStore implements TsedgeContract *)

\* The contents that a crash would leave.
Stable(s) == IF Up THEN Contents(s) \intersect OnDisk(s) ELSE OnDisk(s)

\* The points of the running append that are not in a buffer yet.
Inflight(s) == IF Up /\ op = "append" /\ s = target THEN Range(rest) ELSE {}

\* The points of deletions.
Gone(s) == PointsOf(s, {"deleting", "deleted"})

\* What the contract's variables are, in the terms of the invariant.
Views ==
  \A s \in Series :
    /\ OnDisk(s) = InFiles(s)
    /\ Contents(s) = IF Up THEN Held(s) ELSE InFiles(s)
    /\ Stable(s) = IF Up THEN Held(s) \intersect InFiles(s) ELSE InFiles(s)

\* So they are in every state of the program.
LEMMA ViewsHold == LiveInv => Views
<1> SUFFICES ASSUME LiveInv, NEW s \in Series
             PROVE  /\ OnDisk(s) = InFiles(s)
                    /\ Contents(s) = IF Up THEN Held(s) ELSE InFiles(s)
                    /\ Stable(s) = IF Up THEN Held(s) \intersect InFiles(s) ELSE InFiles(s)
  BY DEF Views
<1>1. OnDisk(s) = InFiles(s) /\ Fragments(blocks[s]) = {} /\ blocks[s] \in Seq(AnyBlock)
  BY GoodFacts, Typing DEF LiveInv, KeepInv, Unbroken
<1>2. \A i \in 1..Len(blocks[s]) : IsWhole(blocks[s][i])
  BY <1>1, NoFragmentsMeans
<1>3. InBlocks(s) = PointsIn(blocks[s])
  <2>1. \A b : b \in Range(blocks[s]) <=> \E i \in 1..Len(blocks[s]) : b = blocks[s][i]
    BY <1>1 DEF Range
  <2> QED
    BY <1>2, <2>1 DEF InBlocks, PointsIn
<1> QED
  BY <1>1, <1>3 DEF Contents, Stable, Held

\* The same in the next state.
LEMMA NextViewsHold == LiveInv' => Views'
BY ViewsHold, PTL

\* What a step that the contract does not see leaves alone.
LEMMA AsStutter ==
  ASSUME Up' = Up, Up => (pc' = "idle" <=> pc = "idle"),
         \A s \in Series : /\ Contents(s)' = Contents(s) /\ Stable(s)' = Stable(s)
                           /\ PointsOf(s, {"durable"})' = PointsOf(s, {"durable"})
                           /\ Inflight(s)' = Inflight(s) /\ Gone(s)' = Gone(s)
  PROVE  UNCHANGED Contract!vars
BY DEF Contract!vars, Stable, Inflight, Gone

\* One lemma for each action of the contract: what a step has to do to its variables.
LEMMA AsOpen ==
  ASSUME ~Up, Up', pc' = "idle",
         \A s \in Series : /\ Contents(s)' = Contents(s) /\ Stable(s)' = Stable(s)
                           /\ PointsOf(s, {"durable"})' = PointsOf(s, {"durable"})
                           /\ Inflight(s)' = Inflight(s) /\ Gone(s)' = Gone(s)
  PROVE  Contract!Open
BY DEF Contract!Open, Stable, Inflight, Gone

LEMMA AsBegin ==
  ASSUME Up, Up', pc = "idle", pc' # "idle",
         \A s \in Series : /\ Contents(s)' = Contents(s) /\ Stable(s)' = Stable(s)
                           /\ PointsOf(s, {"durable"})' = PointsOf(s, {"durable"})
                           /\ Gone(s)' = Gone(s)
                           /\ Inflight(s)' \intersect (Contents(s) \union Gone(s)) = {}
  PROVE  Contract!Begin
<1>1. \A s, t \in Series : s # t => Inflight(s)' = {} \/ Inflight(t)' = {}
  BY DEF Inflight
<1> QED
  BY <1>1 DEF Contract!Begin, Stable, Inflight, Gone

LEMMA AsAdmit ==
  ASSUME Up, Up', pc # "idle", pc' # "idle",
         \A s \in Series : /\ Inflight(s)' \subseteq Inflight(s)
                           /\ Contents(s)' = Contents(s) \union (Inflight(s) \ Inflight(s)')
                           /\ Stable(s) \subseteq Stable(s)' /\ Stable(s)' \subseteq Contents(s)'
                           /\ PointsOf(s, {"durable"})' = PointsOf(s, {"durable"})
                           /\ Gone(s)' = Gone(s)
  PROVE  Contract!Admit
BY DEF Contract!Admit, Contract!Within, Stable, Inflight, Gone

LEMMA AsSave ==
  ASSUME Up, Up', pc # "idle", pc' # "idle",
         \A s \in Series : /\ Contents(s)' = Contents(s)
                           /\ Stable(s) \subseteq Stable(s)' /\ Stable(s)' \subseteq Contents(s)
                           /\ PointsOf(s, {"durable"})' = PointsOf(s, {"durable"})
                           /\ Inflight(s)' = Inflight(s) /\ Gone(s)' = Gone(s)
  PROVE  Contract!Save
BY DEF Contract!Save, Contract!Within, Stable, Inflight, Gone

LEMMA AsExpose ==
  ASSUME Up, Up', pc # "idle", pc' # "idle",
         \A s \in Series : /\ Contents(s)' = Contents(s) /\ Stable(s)' \subseteq Stable(s)
                           /\ PointsOf(s, {"durable"})' = PointsOf(s, {"durable"})
                           /\ Inflight(s)' = Inflight(s) /\ Gone(s)' = Gone(s)
  PROVE  Contract!Expose
BY DEF Contract!Expose, Contract!Within, Stable, Inflight, Gone

LEMMA AsDelete ==
  ASSUME Up, Up', pc # "idle", pc' # "idle", NEW d \in Series,
         \A s \in Series : Inflight(s) = {} /\ Inflight(s)' = {},
         Contents(d) \subseteq Gone(d)', Gone(d) \subseteq Gone(d)',
         Contents(d)' = {}, Stable(d)' = {}, PointsOf(d, {"durable"})' = {},
         \A s \in Series \ {d} : /\ Contents(s)' = Contents(s) /\ Stable(s)' = Stable(s)
                                 /\ PointsOf(s, {"durable"})' = PointsOf(s, {"durable"})
                                 /\ Gone(s)' = Gone(s)
  PROVE  Contract!Delete
BY DEF Contract!Delete, Contract!Nothing, Stable, Inflight, Gone

LEMMA AsReturn ==
  ASSUME Up, Up', pc # "idle", pc' = "idle",
         \A s \in Series : /\ Inflight(s) = {} /\ Inflight(s)' = {}
                           /\ Contents(s)' = Contents(s) /\ Gone(s)' = Gone(s)
                           /\ PointsOf(s, {"durable"}) \subseteq PointsOf(s, {"durable"})'
                           /\ PointsOf(s, {"durable"})' \subseteq Stable(s)'
                           /\ Stable(s) \subseteq Stable(s)' /\ Stable(s)' \subseteq Contents(s)
  PROVE  Contract!Return
BY DEF Contract!Return, Contract!Within, Contract!Nothing, Stable, Inflight, Gone

LEMMA AsClose ==
  ASSUME Up, ~Up', pc # "idle",
         \A s \in Series : /\ Inflight(s) = {} /\ Inflight(s)' = {}
                           /\ Stable(s) = Contents(s)
                           /\ Contents(s)' = Contents(s) /\ Stable(s)' = Stable(s)
                           /\ PointsOf(s, {"durable"})' = PointsOf(s, {"durable"})
                           /\ Gone(s)' = Gone(s)
  PROVE  Contract!Close
BY DEF Contract!Close, Contract!Nothing, Stable, Inflight, Gone

LEMMA AsCrash ==
  ASSUME Up, ~Up',
         \A s \in Series : /\ Stable(s) \subseteq Contents(s)' /\ Contents(s)' \subseteq Stable(s) \union Inflight(s)
                           /\ PointsOf(s, {"durable"})' = PointsOf(s, {"durable"}) \intersect Contents(s)'
                           /\ Stable(s)' = Contents(s)' /\ Inflight(s)' = {} /\ Gone(s)' = Gone(s)
  PROVE  Contract!Crash
BY DEF Contract!Crash, Contract!Nothing, Stable, Inflight, Gone

\* The parts of the invariant that the steps of the contract rest on: what is on
\* disk or in memory is live, a promised point is on disk outside of the window,
\* and nothing is left over of a call that is not an append.
LEMMA ContractFacts ==
  ASSUME LiveInv, NEW s \in Series
  PROVE  /\ InFiles(s) \subseteq Live(s) /\ Held(s) \subseteq Live(s) /\ Remaining(s) \subseteq Live(s)
         /\ Live(s) \subseteq IF Up THEN Held(s) \union Remaining(s) ELSE InFiles(s)
         /\ pc # "rewrite" => PointsOf(s, {"durable"}) \subseteq InFiles(s)
         /\ PointsOf(s, {"durable"}) \subseteq Live(s)
         /\ op \notin {"append", "open"} \/ rest = <<>> => Remaining(s) = {} /\ Inflight(s) = {}
         /\ op # "append" => Inflight(s) = {}
         /\ Live(s) \subseteq 1..Len(fate[s]) /\ Gone(s) \subseteq 1..Len(fate[s])
         /\ pc = "closed" => op = "none"
<1>1. Anywhere(s) = Logged(s) \union Held(s) \union Remaining(s)
  BY DEF Anywhere, Remaining
<1>2. Anywhere(s) \subseteq Live(s) /\ Live(s) \subseteq IF Up THEN Held(s) \union Remaining(s) ELSE InFiles(s)
  BY DEF LiveInv, OnlyLive, LiveWhere
<1>3. InFiles(s) \subseteq Logged(s) \union Held(s)
  BY DEF InFiles, Logged, Held
<1>4. pc # "rewrite" => PointsOf(s, {"durable"}) \subseteq InFiles(s)
  BY DEF LiveInv, DurableOnDisk
<1>5. op \notin {"append", "open"} \/ rest = <<>> => rest = <<>>
  BY GoodFacts DEF LiveInv
<1>6. rest = <<>> => Remaining(s) = {} /\ Inflight(s) = {}
  BY RangeEmpty DEF Remaining, Inflight
<1>7. op # "append" => Inflight(s) = {}
  BY DEF Inflight
<1>8. pc = "closed" => op = "none"
  BY GoodFacts DEF LiveInv, TypeInv, CallOK
<1>9. PointsOf(s, {"durable"}) \subseteq Live(s)
  BY DEF Live, PointsOf
<1>10. Live(s) \subseteq 1..Len(fate[s]) /\ Gone(s) \subseteq 1..Len(fate[s])
  BY DEF Live, Gone, PointsOf
<1> QED
  BY <1>1, <1>2, <1>3, <1>4, <1>5, <1>6, <1>7, <1>8, <1>9, <1>10

\* A step that changes nothing the contract speaks of.
LEMMA QuietContract ==
  ASSUME UNCHANGED <<wal, blocks, fate>>, Up' = Up,
         Up => UNCHANGED <<buffer, op, target, rest>> /\ (pc' = "idle" <=> pc = "idle")
  PROVE  UNCHANGED Contract!vars
<1>1. \A s \in Series : /\ Contents(s)' = Contents(s) /\ Stable(s)' = Stable(s)
                        /\ PointsOf(s, {"durable"})' = PointsOf(s, {"durable"})
                        /\ Gone(s)' = Gone(s)
  BY DEF Contents, Stable, OnDisk, InBlocks, PointsOf, Gone
<1>2. \A s \in Series : Inflight(s)' = Inflight(s)
  BY DEF Inflight
<1> QED
  BY <1>1, <1>2, AsStutter

\* The steps between those that the contract sees.
LEMMA QuietStepsContract ==
  ASSUME LiveInv,
         \/ UNCHANGED vars \/ Open \/ (\E s \in Series : CreateSeries(s))
         \/ ReplayRecord \/ ReplayPoints \/ Chunk \/ Log \/ NextSeries
         \/ FlushSeries /\ buffer[target] # <<>>
         \/ RewriteEnds /\ op \notin {"flush", "flush_all", "close"}
  PROVE  UNCHANGED Contract!vars
<1>1. TypeInv /\ CallOK /\ PathOK
  BY GoodFacts DEF LiveInv, TypeInv, PathInv
<1>2. CASE UNCHANGED vars
  BY <1>2, QuietContract DEF vars, disk, memory, call, Up
<1>3. CASE Open
  <2>1. UNCHANGED <<wal, blocks, fate>> /\ ~Up /\ ~Up'
    BY <1>3 DEF Open, disk, Up, Goto
  <2> QED
    BY <2>1, QuietContract DEF Up
<1>4. ASSUME NEW s \in Series, CreateSeries(s) PROVE UNCHANGED Contract!vars
  <2>1. UNCHANGED <<wal, blocks, fate, buffer, op, target, rest, pc>>
    BY <1>4 DEF CreateSeries, call
  <2> QED
    BY <2>1, QuietContract DEF Up
<1>5. CASE ReplayRecord \/ ReplayPoints
  <2>1. UNCHANGED <<wal, blocks, fate, op>> /\ pc = "replay"
    BY <1>5 DEF ReplayRecord, ReplayPoints, disk
  <2>2. ~Up /\ ~Up'
    BY <1>1, <2>1 DEF CallOK, Up
  <2> QED
    BY <2>1, <2>2, QuietContract DEF Up
<1>6. CASE Chunk \/ Log \/ NextSeries
  <2>1. UNCHANGED <<wal, blocks, fate, buffer, op, target, rest>> /\ pc \in {"chunk", "log", "next"}
    BY <1>6 DEF Chunk, Log, NextSeries, disk, memory, call
  <2>2. pc' \notin {"idle", "closed"}
    BY <1>6 DEF Chunk, Log, NextSeries, Goto
  <2> QED
    BY <2>1, <2>2, QuietContract DEF Up
<1>7. CASE FlushSeries /\ buffer[target] # <<>>
  BY <1>7, QuietContract DEF FlushSeries, disk, memory, call, Goto, Up
<1>8. CASE RewriteEnds /\ op \notin {"flush", "flush_all", "close"}
  <2>1. UNCHANGED <<wal, blocks, fate, buffer, op, target, rest>> /\ pc = "rewrite" /\ pc' \in {"chunk", "unlink"}
    BY <1>8 DEF RewriteEnds, disk, memory, Goto
  <2> QED
    BY <2>1, QuietContract DEF Up
<1> QED
  BY <1>2, <1>3, <1>4, <1>5, <1>6, <1>7, <1>8

\* The end of the replay is the contract's open.
LEMMA ReplayEndsContract ==
  ASSUME LiveInv, LiveInv', ReplayEnds
  PROVE  Contract!Open
<1>1. /\ Return("ok") /\ UNCHANGED <<disk, memory>> /\ op = "open" /\ pc = "replay" /\ rest = <<>>
      /\ \A s \in Series : InLog(wal, s) \subseteq Held(s)
  BY ReplayedAll, GoodFacts DEF LiveInv
<1>2. ~Up /\ Up' /\ pc' = "idle" /\ op' = "none" /\ UNCHANGED <<wal, blocks, buffer>> /\ TypeInv
  BY <1>1, GoodFacts DEF Return, Up, disk, memory, LiveInv
<1>3. \A s \in Series : Held(s)' = Held(s) /\ InFiles(s)' = InFiles(s)
  BY <1>2 DEF Held, InFiles
<1>4. \A s \in Series : Held(s) = InFiles(s)
  <2>1. \A s \in Series : Range(buffer[s]) \subseteq InLog(wal, s)
    BY <1>1, InLogMember DEF LiveInv, ReplayFrom
  <2> QED
    BY <1>1, <2>1 DEF Held, InFiles
<1>5. \A s \in Series : Contents(s)' = Contents(s) /\ Stable(s)' = Stable(s)
  BY <1>2, <1>3, <1>4, ViewsHold, NextViewsHold DEF Views
<1>6. \A s \in Series : PointsOf(s, {"durable"})' = PointsOf(s, {"durable"}) /\ Gone(s)' = Gone(s)
  BY <1>1, <1>2, ReturnedFates DEF Gone
<1>7. \A s \in Series : Inflight(s) = {} /\ Inflight(s)' = {}
  BY <1>1, <1>2 DEF Inflight
<1> QED
  BY <1>2, <1>5, <1>6, <1>7, AsOpen

\* A call starts: the contract's begin.
LEMMA BeginContract ==
  ASSUME LiveInv, LiveInv',
         \/ \E s \in Series, k \in 1..MaxBatch : StartAppend(s, k)
         \/ \E mode \in Selected : SetDurability(mode)
         \/ \E s \in Series : StartFlush(s)
         \/ \E name \in {"flush_all", "close", "delete"}, s \in Series \union {NoSeries} : StartFlushAll(name, s)
  PROVE  Contract!Begin
<1>1. /\ pc = "idle" /\ pc' \in {"chunk", "switch", "flush", "next"} /\ op' # "open"
      /\ UNCHANGED <<wal, blocks, buffer>>
  BY StoreAssumption DEF StartAppend, SetDurability, StartFlush, StartFlushAll, Call, Goto, disk, memory
<1>2. TypeInv /\ CallOK
  BY GoodFacts DEF LiveInv, TypeInv
<1>3. Up /\ Up'
  BY <1>1, <1>2 DEF CallOK, Up
<1>4. \A s \in Series : Contents(s)' = Contents(s) /\ Stable(s)' = Stable(s)
  BY <1>1, <1>3 DEF Contents, Stable, OnDisk, InBlocks
<1>5. \A s \in Series : Contents(s) \subseteq Live(s)
  BY <1>3, ViewsHold, ContractFacts DEF Views
<1>6. CASE \E s \in Series, k \in 1..MaxBatch : StartAppend(s, k)
  <2>1. PICK t \in Series, k \in 1..MaxBatch : StartAppend(t, k)
    BY <1>6
  <2>2. /\ Len(fate[t]) \in Nat /\ k \in Nat
        /\ Len(fate'[t]) = Len(fate[t]) + k
        /\ \A n \in 1..(Len(fate[t]) + k) : fate'[t][n] = IF n <= Len(fate[t]) THEN fate[t][n] ELSE "pending"
        /\ \A x \in Series : x # t => fate'[x] = fate[x]
        /\ \A n : n \in Range(rest') <=> n \in 1..(Len(fate[t]) + k) /\ ~(n <= Len(fate[t]))
    BY <1>2, <2>1, HandedOver
  <2>3. op' = "append" /\ target' = t
    BY <2>1 DEF StartAppend, Call
  <2>4. ASSUME NEW f, "pending" \notin f, NEW s \in Series PROVE PointsOf(s, f)' = PointsOf(s, f)
    <3>1. CASE s # t
      BY <2>2, <3>1 DEF PointsOf
    <3>2. CASE s = t
      <4>1. \A n : n \in 1..Len(fate[t]) => n \in 1..(Len(fate[t]) + k) /\ n <= Len(fate[t])
        BY <2>2
      <4>2. \A n : n \in 1..(Len(fate[t]) + k) /\ n <= Len(fate[t]) => n \in 1..Len(fate[t])
        BY <2>2
      <4> QED
        BY <2>2, <2>4, <3>2, <4>1, <4>2 DEF PointsOf
    <3> QED
      BY <3>1, <3>2
  <2>5. \A s \in Series : PointsOf(s, {"durable"})' = PointsOf(s, {"durable"}) /\ Gone(s)' = Gone(s)
    BY <2>4 DEF Gone
  <2>6. ASSUME NEW s \in Series PROVE Inflight(s)' \intersect (Contents(s) \union Gone(s)) = {}
    <3>1. CASE s # t
      BY <2>3, <3>1 DEF Inflight
    <3>2. CASE s = t
      <4>1. Inflight(s)' = Range(rest')
        BY <1>3, <2>3, <3>2 DEF Inflight
      <4>2. \A n \in Contents(s) \union Gone(s) : n \in 1..Len(fate[t])
        BY <1>5, <3>2, ContractFacts
      <4> QED
        BY <2>2, <4>1, <4>2
    <3> QED
      BY <3>1, <3>2
  <2> QED
    BY <1>1, <1>3, <1>4, <2>5, <2>6, AsBegin
<1>7. CASE ~\E s \in Series, k \in 1..MaxBatch : StartAppend(s, k)
  <2>1. op' # "append" /\ fate' = fate
    BY <1>7, StoreAssumption DEF SetDurability, StartFlush, StartFlushAll, Call
  <2>2. \A s \in Series : PointsOf(s, {"durable"})' = PointsOf(s, {"durable"}) /\ Gone(s)' = Gone(s) /\ Inflight(s)' = {}
    BY <2>1 DEF PointsOf, Gone, Inflight
  <2> QED
    BY <1>1, <1>3, <1>4, <2>2, AsBegin
<1> QED
  BY <1>6, <1>7

\* A chunk enters the buffer: the contract's admit.
LEMMA PlaceContract ==
  ASSUME OrderInv, LiveInv', Place
  PROVE  Contract!Admit
<1>1. /\ pc = "place" /\ pc' = "chunk" /\ UNCHANGED <<wal, walbuf, blocks, target, fate, op>>
      /\ buffer' = [buffer EXCEPT ![target] = @ \o SubSeq(rest, 1, ChunkLength)]
      /\ rest' = SubSeq(rest, ChunkLength + 1, Len(rest))
  BY DEF Place, disk, Goto
<1>2. LiveInv /\ TypeInv /\ CallOK
  BY GoodFacts DEF OrderInv, LiveInv, TypeInv
<1>3. op = "append" /\ target \in Series /\ Up /\ Up'
  BY <1>1, <1>2 DEF CallOK, Up
<1> DEFINE chunk == SubSeq(rest, 1, ChunkLength)
<1>4. Below(Range(chunk), Range(rest')) /\ Range(rest) = Range(chunk) \union Range(rest')
  <2>1. Ascending(rest) /\ Ascending(buffer[target]) /\ Below(Range(buffer[target]), Range(rest))
    BY <1>1, <1>3 DEF OrderInv, RestNewer, BufAscending, Below, Held
  <2> QED
    BY <1>1, <1>2, <1>3, <2>1, ChunkOrder
<1>5. /\ Range(buffer'[target]) = Range(buffer[target]) \union Range(chunk)
      /\ \A s \in Series : s # target => buffer'[s] = buffer[s]
  BY <1>1, <1>2, <1>3, ChunkIsHeld
<1> HIDE DEF chunk
<1>6. \A n \in Range(chunk) : n \notin Range(rest')
  <2>1. rest \in Seq(Nat) /\ chunk \in Seq(Nat)
    BY <1>2, <1>3, ChunkFits, Typing DEF TypeInv, chunk
  <2>2. Range(chunk) \subseteq Nat
    BY <2>1, RangeMember, ElementOfSeq
  <2> QED
    BY <1>4, <2>2 DEF Below
<1>7. \A s \in Series : /\ Held(s)' = Held(s) \union (IF s = target THEN Range(chunk) ELSE {})
                        /\ InFiles(s)' = InFiles(s)
  BY <1>1, <1>5 DEF Held, InFiles
<1>8. \A s \in Series : /\ Inflight(s) = IF s = target THEN Range(rest) ELSE {}
                        /\ Inflight(s)' = IF s = target THEN Range(rest') ELSE {}
  BY <1>1, <1>3 DEF Inflight
<1>9. \A s \in Series : /\ Contents(s) = Held(s) /\ Contents(s)' = Held(s)'
                        /\ Stable(s) = Held(s) \intersect InFiles(s)
                        /\ Stable(s)' = Held(s)' \intersect InFiles(s)'
  BY <1>2, <1>3, ViewsHold, NextViewsHold DEF Views
<1>10. \A s \in Series : PointsOf(s, {"durable"})' = PointsOf(s, {"durable"}) /\ Gone(s)' = Gone(s)
  BY <1>1 DEF PointsOf, Gone
<1>11. \A s \in Series : /\ Inflight(s)' \subseteq Inflight(s)
                         /\ Contents(s)' = Contents(s) \union (Inflight(s) \ Inflight(s)')
                         /\ Stable(s) \subseteq Stable(s)' /\ Stable(s)' \subseteq Contents(s)'
  BY <1>4, <1>6, <1>7, <1>8, <1>9
<1> QED
  BY <1>1, <1>3, <1>10, <1>11, AsAdmit

\* A call returns: all of its points are in, and what it promises is on disk.
LEMMA ReturnContract ==
  ASSUME LiveInv, LiveInv', Up, pc # "idle", Return("ok"), rest = <<>>, UNCHANGED <<blocks, buffer>>,
         \A s \in Series : InFiles(s) \subseteq InFiles(s)'
  PROVE  Contract!Return
<1>1. pc' = "idle" /\ op' = "none" /\ Up' /\ TypeInv
  BY GoodFacts DEF Return, Up, LiveInv
<1>2. \A s \in Series : /\ Contents(s) = Held(s) /\ Contents(s)' = Held(s)' /\ Held(s)' = Held(s)
                        /\ Stable(s) = Held(s) \intersect InFiles(s)
                        /\ Stable(s)' = Held(s)' \intersect InFiles(s)'
  BY <1>1, ViewsHold, NextViewsHold DEF Views, Held
<1>3. \A s \in Series : Inflight(s) = {} /\ Inflight(s)' = {}
  BY <1>1, ContractFacts DEF Inflight
<1>4. \A s \in Series : /\ PointsOf(s, {"durable"}) \subseteq PointsOf(s, {"durable"})'
                        /\ Gone(s)' = Gone(s) /\ Live(s)' = Live(s)
  BY <1>1, ReturnedFates DEF Gone
<1>5. \A s \in Series : Live(s) \subseteq Held(s)
  BY ContractFacts
<1>6. \A s \in Series : PointsOf(s, {"durable"})' \subseteq InFiles(s)' /\ PointsOf(s, {"durable"})' \subseteq Live(s)'
  <2>1. LiveInv' => \A s \in Series : PointsOf(s, {"durable"})' \subseteq Live(s)'
    BY DEF Live, PointsOf
  <2>2. LiveInv' /\ pc' # "rewrite" => \A s \in Series : PointsOf(s, {"durable"})' \subseteq InFiles(s)'
    BY DEF LiveInv, DurableOnDisk
  <2> QED
    BY <1>1, <2>1, <2>2
<1>7. \A s \in Series : /\ PointsOf(s, {"durable"})' \subseteq Stable(s)'
                        /\ Stable(s) \subseteq Stable(s)' /\ Stable(s)' \subseteq Contents(s)
                        /\ Contents(s)' = Contents(s)
  BY <1>2, <1>4, <1>5, <1>6
<1> QED
  BY <1>1, <1>3, <1>4, <1>7, AsReturn

\* Every return of a call but tsedge_close and tsedge_open.
LEMMA ReturnStepsContract ==
  ASSUME LiveInv, LiveInv', NoFaults,
         \/ AppendDone \/ RemoveDirectory
         \/ FlushSeries /\ buffer[target] = <<>>
         \/ RewriteEnds /\ op \in {"flush", "flush_all"}
         \/ WalFlush /\ pc = "switch"
  PROVE  Contract!Return
<1>1. TypeInv /\ CallOK /\ PathOK /\ KeepInv
  BY GoodFacts DEF LiveInv, TypeInv, PathInv
<1>2. ASSUME UNCHANGED <<wal, blocks>> PROVE \A s \in Series : InFiles(s) \subseteq InFiles(s)'
  BY <1>2 DEF InFiles
<1>3. CASE AppendDone
  <2>1. pc = "chunk" /\ rest = <<>> /\ Return("ok") /\ UNCHANGED <<wal, blocks, buffer>>
    BY <1>3 DEF AppendDone, disk, memory
  <2>2. Up
    BY <1>1, <2>1 DEF CallOK, Up
  <2> QED
    BY <1>2, <2>1, <2>2, ReturnContract
<1>4. CASE RemoveDirectory
  <2>1. pc = "rmdir" /\ UNCHANGED <<wal, blocks, buffer>> /\ Return("ok")
    <3>1. ~(faults < MaxFaults)
      BY <1>1 DEF NoFaults, TypeInv, TypeOK
    <3> QED
      BY <1>4, <3>1 DEF RemoveDirectory
  <2>2. op = "delete" /\ rest = <<>>
    BY <1>1, <2>1 DEF PathOK
  <2>3. Up
    BY <2>1, <2>2 DEF Up
  <2> QED
    BY <1>2, <2>1, <2>2, <2>3, ReturnContract
<1>5. CASE FlushSeries /\ buffer[target] = <<>>
  <2>1. pc = "flush" /\ Return("ok") /\ UNCHANGED <<wal, blocks, buffer>>
    BY <1>5 DEF FlushSeries, disk, memory
  <2>2. op = "flush" /\ rest = <<>>
    BY <1>1, <2>1 DEF PathOK
  <2>3. Up
    BY <2>1, <2>2 DEF Up
  <2> QED
    BY <1>2, <2>1, <2>2, <2>3, ReturnContract
<1>6. CASE RewriteEnds /\ op \in {"flush", "flush_all"}
  <2>1. pc = "rewrite" /\ Return("ok") /\ UNCHANGED <<wal, blocks, buffer>>
    BY <1>6 DEF RewriteEnds, disk, memory
  <2>2. rest = <<>> /\ Up
    BY <1>1, <1>6, <2>1 DEF PathOK, Up
  <2> QED
    BY <1>2, <2>1, <2>2, ReturnContract
<1>7. CASE WalFlush /\ pc = "switch"
  <2>1. pc = "switch" /\ wal' = wal \o walbuf /\ Return("ok") /\ UNCHANGED <<blocks, buffer>>
    BY <1>7 DEF WalFlush
  <2>2. op \in Modes /\ rest = <<>>
    BY <1>1, <2>1 DEF CallOK, PathOK, Modes
  <2>3. Up
    BY <2>1, <2>2 DEF Up, Modes
  <2>4. \A s \in Series : InLog(wal', s) = InLog(wal, s) \union InLog(walbuf, s)
    BY <1>1, <2>1, InLogConcat, Typing
  <2>5. \A s \in Series : InFiles(s) \subseteq InFiles(s)'
    BY <2>1, <2>4 DEF InFiles
  <2> QED
    BY <2>1, <2>2, <2>3, <2>5, ReturnContract
<1> QED
  BY <1>3, <1>4, <1>5, <1>6, <1>7

\* More gets on disk while a call runs: the contract's save.
LEMMA SaveContract ==
  ASSUME LiveInv, LiveInv', Up, Up', pc # "idle", pc' # "idle", UNCHANGED <<op, target, rest, fate>>,
         \A s \in Series : Held(s)' = Held(s) /\ InFiles(s) \subseteq InFiles(s)'
  PROVE  Contract!Save
<1>1. \A s \in Series : /\ Contents(s) = Held(s) /\ Contents(s)' = Held(s)'
                        /\ Stable(s) = Held(s) \intersect InFiles(s)
                        /\ Stable(s)' = Held(s)' \intersect InFiles(s)'
  BY ViewsHold, NextViewsHold DEF Views
<1>2. \A s \in Series : /\ PointsOf(s, {"durable"})' = PointsOf(s, {"durable"})
                        /\ Gone(s)' = Gone(s) /\ Inflight(s)' = Inflight(s)
  BY DEF PointsOf, Gone, Inflight
<1>3. \A s \in Series : /\ Contents(s)' = Contents(s)
                        /\ Stable(s) \subseteq Stable(s)' /\ Stable(s)' \subseteq Contents(s)
  BY <1>1
<1> QED
  BY <1>2, <1>3, AsSave

\* The WAL buffer, a block or a record of the rewrite gets on disk.  During an
\* open, a block holds what wal.log has as well, and the contract sees nothing.
LEMMA SaveStepsContract ==
  ASSUME LiveInv, LiveInv', (WalFlush /\ pc # "switch") \/ AppendBlock \/ RewriteWal
  PROVE  Contract!Save \/ UNCHANGED Contract!vars
<1>1. TypeInv /\ CallOK /\ PathOK /\ KeepInv /\ PathInv /\ CallShape
  BY GoodFacts DEF LiveInv, TypeInv, PathInv, KeepInv
<1>2. /\ UNCHANGED <<op, target, rest, fate>> /\ pc \notin {"idle", "closed"} /\ pc' \notin {"idle", "closed"}
  <2>1. CASE WalFlush /\ pc # "switch"
    BY <2>1 DEF WalFlush, AfterWalFlush, Goto, call
  <2>2. CASE AppendBlock
    BY <2>2 DEF AppendBlock, Goto, call
  <2>3. CASE RewriteWal
    BY <2>3 DEF RewriteWal
  <2> QED
    BY <2>1, <2>2, <2>3
<1>3. \A s \in Series : Held(s)' = Held(s)
  <2>1. CASE WalFlush \/ RewriteWal
    BY <2>1 DEF WalFlush, RewriteWal, memory, Held
  <2>2. CASE AppendBlock
    BY <1>1, <2>2, BlockHolds
  <2> QED
    BY <2>1, <2>2
<1>4. \A s \in Series : InFiles(s) \subseteq InFiles(s)'
  <2>1. CASE WalFlush
    <3>1. \A s \in Series : InLog(wal', s) = InLog(wal, s) \union InLog(walbuf, s)
      BY <1>1, <2>1, InLogConcat, Typing DEF WalFlush
    <3> QED
      BY <2>1, <3>1 DEF WalFlush, InFiles
  <2>2. CASE AppendBlock
    BY <1>1, <2>2, BlockHolds DEF AppendBlock, InFiles
  <2>3. CASE RewriteWal
    <3>1. pc = "rewrite" /\ cursor <= Len(registry) /\ UNCHANGED blocks
      BY <2>3 DEF RewriteWal
    <3>2. registry[cursor] \in Series /\ registry \in Seq(Series) /\ cursor \in 1..Len(registry)
      BY <1>1, <3>1, Typing
    <3> DEFINE t == registry[cursor]
               x == WalRecord(t, buffer[t])
    <3>3. wal' = wal \/ wal' = Append(wal, x)
      BY <2>3 DEF RewriteWal
    <3>4. buffer[t] \in Seq(Nat) /\ wal \in Seq(Record)
      BY <1>1, <3>2, Typing
    <3>5. x \in Record
      BY <3>2, <3>4, RecordType
    <3> HIDE DEF x, t
    <3>6. ASSUME NEW s \in Series PROVE InLog(wal, s) \subseteq InLog(Append(wal, x), s)
      BY <3>4, <3>5, InLogAppend
    <3>7. \A s \in Series : InLog(wal, s) \subseteq InLog(wal', s)
      BY <3>3, <3>6
    <3> QED
      BY <3>1, <3>7 DEF InFiles
  <2> QED
    BY <2>1, <2>2, <2>3
<1>5. CASE op # "open"
  <2>1. Up /\ Up'
    BY <1>2, <1>5 DEF Up
  <2> QED
    BY <1>2, <1>3, <1>4, <2>1, SaveContract
<1>6. CASE op = "open"
  <2>1. ~Up /\ ~Up' /\ Up' = Up
    BY <1>2, <1>6 DEF Up
  <2>2. pc # "rewrite" /\ walbuf = <<>>
    BY <1>1, <1>6 DEF PathOK, LiveInv, WbEmpty
  <2>3. \A s \in Series : InFiles(s)' = InFiles(s)
    <3>1. \A s \in Series : InFiles(s)' \subseteq InFiles(s) \union Held(s)
      <4>1. CASE WalFlush
        <5>1. \A s \in Series : InLog(wal', s) = InLog(wal, s) \union InLog(walbuf, s)
          BY <1>1, <4>1, InLogConcat, Typing DEF WalFlush
        <5> QED
          BY <2>2, <4>1, <5>1, InLogEmpty DEF WalFlush, InFiles
      <4>2. CASE AppendBlock
        BY <1>3, <4>2 DEF AppendBlock, InFiles, Held
      <4> QED
        BY <2>2, <4>1, <4>2 DEF RewriteWal
    <3>2. \A s \in Series : Held(s) \subseteq Live(s) /\ Live(s) \subseteq InFiles(s)
      BY <2>1, ContractFacts
    <3> QED
      BY <1>4, <3>1, <3>2
  <2>4. \A s \in Series : Contents(s)' = Contents(s) /\ Stable(s)' = Stable(s)
    BY <2>1, <2>3, ViewsHold, NextViewsHold DEF Views
  <2>5. \A s \in Series : /\ PointsOf(s, {"durable"})' = PointsOf(s, {"durable"})
                          /\ Gone(s)' = Gone(s) /\ Inflight(s)' = Inflight(s)
    BY <1>2, <2>1 DEF PointsOf, Gone, Inflight
  <2> QED
    BY <2>1, <2>4, <2>5, AsStutter
<1> QED
  BY <1>5, <1>6

\* tsedge_wal_truncate_to_buffers empties wal.log: the contract's window.
LEMMA TruncateContract ==
  ASSUME LiveInv, LiveInv', TruncateWal
  PROVE  Contract!Expose
<1>1. /\ pc = "truncate" /\ pc' = "rewrite" /\ wal' = <<>>
      /\ UNCHANGED <<blocks, buffer, op, target, rest, fate>>
  BY DEF TruncateWal, Goto
<1>2. Up /\ Up'
  BY <1>1, GoodFacts DEF LiveInv, PathInv, PathOK, Up
<1>3. \A s \in Series : Held(s)' = Held(s) /\ InFiles(s)' \subseteq InFiles(s)
  BY <1>1, InLogEmpty DEF Held, InFiles
<1>4. \A s \in Series : /\ Contents(s) = Held(s) /\ Contents(s)' = Held(s)'
                        /\ Stable(s) = Held(s) \intersect InFiles(s)
                        /\ Stable(s)' = Held(s)' \intersect InFiles(s)'
  BY <1>2, ViewsHold, NextViewsHold DEF Views
<1>5. \A s \in Series : /\ PointsOf(s, {"durable"})' = PointsOf(s, {"durable"})
                        /\ Gone(s)' = Gone(s) /\ Inflight(s)' = Inflight(s)
  BY <1>1, <1>2 DEF PointsOf, Gone, Inflight
<1>6. \A s \in Series : Contents(s)' = Contents(s) /\ Stable(s)' \subseteq Stable(s)
  BY <1>3, <1>4
<1> QED
  BY <1>1, <1>2, <1>5, <1>6, AsExpose

\* The segment file of a series is removed: the contract's delete.
LEMMA UnlinkContract ==
  ASSUME LiveInv, LiveInv', UnlinkSegment
  PROVE  Contract!Delete
<1>1. /\ target \in Series /\ wal = <<>> /\ \A s \in Series : buffer[s] = <<>>
      /\ blocks'[target] = <<>> /\ \A s \in Series : s # target => blocks'[s] = blocks[s] /\ fate'[s] = fate[s]
      /\ Len(fate'[target]) = Len(fate[target])
      /\ \A n \in 1..Len(fate[target]) : fate'[target][n] = "deleting"
  BY UnlinkedPoints, GoodFacts DEF LiveInv
<1>2. pc = "unlink" /\ pc' = "rmdir" /\ UNCHANGED <<wal, buffer, op, target, rest>>
  BY DEF UnlinkSegment, Goto, memory, call
<1>3. op = "delete" /\ Up /\ Up'
  BY <1>2, GoodFacts DEF LiveInv, PathInv, PathOK, Up
<1>4. \A s \in Series : Inflight(s) = {} /\ Inflight(s)' = {}
  BY <1>2, <1>3 DEF Inflight
<1>5. \A s \in Series : /\ Contents(s) = Held(s) /\ Contents(s)' = Held(s)'
                        /\ Stable(s) = Held(s) \intersect InFiles(s)
                        /\ Stable(s)' = Held(s)' \intersect InFiles(s)'
  BY <1>3, ViewsHold, NextViewsHold DEF Views
<1>6. \A s \in Series : s = target =>
        /\ Contents(s) \subseteq Gone(s)' /\ Gone(s) \subseteq Gone(s)'
        /\ Contents(s)' = {} /\ Stable(s)' = {} /\ PointsOf(s, {"durable"})' = {}
  <2> SUFFICES ASSUME NEW s \in Series, s = target
               PROVE  /\ Contents(s) \subseteq Gone(s)' /\ Gone(s) \subseteq Gone(s)'
                      /\ Contents(s)' = {} /\ Stable(s)' = {} /\ PointsOf(s, {"durable"})' = {}
    OBVIOUS
  <2>1. Gone(s)' = 1..Len(fate[s]) /\ PointsOf(s, {"durable"})' = {}
    BY <1>1 DEF Gone, PointsOf
  <2>2. Held(s) \subseteq 1..Len(fate[s]) /\ Gone(s) \subseteq 1..Len(fate[s])
    BY ContractFacts
  <2>3. Held(s)' = {}
    BY <1>1, <1>2, RangeEmpty DEF Held, PointsIn
  <2> QED
    BY <1>5, <2>1, <2>2, <2>3
<1>7. \A s \in Series : s # target => /\ Contents(s)' = Contents(s) /\ Stable(s)' = Stable(s)
                                      /\ PointsOf(s, {"durable"})' = PointsOf(s, {"durable"})
                                      /\ Gone(s)' = Gone(s)
  <2> SUFFICES ASSUME NEW s \in Series, s # target
               PROVE  /\ Contents(s)' = Contents(s) /\ Stable(s)' = Stable(s)
                      /\ PointsOf(s, {"durable"})' = PointsOf(s, {"durable"}) /\ Gone(s)' = Gone(s)
    OBVIOUS
  <2>1. Held(s)' = Held(s) /\ InFiles(s)' = InFiles(s)
    BY <1>1, <1>2 DEF Held, InFiles
  <2>2. PointsOf(s, {"durable"})' = PointsOf(s, {"durable"}) /\ Gone(s)' = Gone(s)
    BY <1>1 DEF PointsOf, Gone
  <2> QED
    BY <1>5, <2>1, <2>2
<1>8. PICK d \in Series : d = target
  BY <1>1
<1> QED
  BY <1>2, <1>3, <1>4, <1>6, <1>7, <1>8, AsDelete

\* tsedge_close ends with everything on disk.
LEMMA CloseContract ==
  ASSUME LiveInv, LiveInv', RewriteEnds, op = "close"
  PROVE  Contract!Close
<1>1. pc = "rewrite" /\ cursor > Len(registry) /\ Forget
  BY DEF RewriteEnds
<1>2. Up /\ ~Up' /\ op' = "none" /\ UNCHANGED <<wal, blocks>> /\ TypeInv
  BY <1>1, GoodFacts DEF Forget, Up, disk, LiveInv
<1>3. \A s \in Series : Held(s) \subseteq InFiles(s)
  BY <1>1, RewrittenAll DEF Held, InFiles
<1>4. \A s \in Series : InFiles(s) \subseteq Live(s) /\ Live(s) \subseteq Held(s) /\ PointsOf(s, {"durable"}) \subseteq Live(s)
  BY <1>2, ContractFacts
<1>5. \A s \in Series : InFiles(s)' = InFiles(s)
  BY <1>2 DEF InFiles
<1>6. \A s \in Series : /\ OnDisk(s) = InFiles(s) /\ Contents(s) = Held(s) /\ Contents(s)' = InFiles(s)'
                        /\ Stable(s) = Held(s) \intersect InFiles(s) /\ Stable(s)' = InFiles(s)'
  BY <1>2, ViewsHold, NextViewsHold DEF Views
<1>7. \A s \in Series : /\ Stable(s) = Contents(s) /\ Contents(s)' = Contents(s) /\ Stable(s)' = Stable(s)
  BY <1>3, <1>4, <1>5, <1>6
<1>8. \A s \in Series : PointsOf(s, {"durable"})' = PointsOf(s, {"durable"}) /\ Gone(s)' = Gone(s)
  <2>1. \A s \in Series : /\ PointsOf(s, {"durable"})' = PointsOf(s, {"durable"}) \intersect OnDisk(s)
                          /\ Gone(s)' = Gone(s)
    BY <1>1, <1>2, ForgottenFates DEF Gone
  <2> QED
    BY <1>3, <1>4, <1>6, <2>1
<1>9. \A s \in Series : Inflight(s) = {} /\ Inflight(s)' = {}
  BY <1>2 DEF Inflight
<1> QED
  BY <1>1, <1>2, <1>7, <1>8, <1>9, AsClose

\* The process dies: the contract's crash, or nothing when it dies in tsedge_open.
LEMMA CrashContract ==
  ASSUME LiveInv, LiveInv', Crash
  PROVE  Contract!Crash \/ UNCHANGED Contract!vars
<1>1. pc # "closed" /\ Forget /\ TypeInv
  BY GoodFacts DEF Crash, LiveInv
<1>2. ~Up' /\ op' = "none" /\ UNCHANGED <<wal, blocks>>
  BY <1>1 DEF Forget, Up, disk
<1>3. \A s \in Series : InFiles(s)' = InFiles(s)
  BY <1>2 DEF InFiles
<1>4. \A s \in Series : /\ OnDisk(s) = InFiles(s) /\ Contents(s)' = InFiles(s) /\ Stable(s)' = InFiles(s)
                        /\ Contents(s) = (IF Up THEN Held(s) ELSE InFiles(s))
                        /\ Stable(s) = (IF Up THEN Held(s) \intersect InFiles(s) ELSE InFiles(s))
  BY <1>2, <1>3, ViewsHold, NextViewsHold DEF Views
<1>5. \A s \in Series : /\ PointsOf(s, {"durable"})' = PointsOf(s, {"durable"}) \intersect InFiles(s)
                        /\ Gone(s)' = Gone(s)
  BY <1>1, <1>4, ForgottenFates DEF Gone
<1>6. \A s \in Series : Inflight(s)' = {}
  BY <1>2 DEF Inflight
<1>7. CASE Up
  <2>1. \A s \in Series : InFiles(s) \subseteq Held(s) \union Remaining(s)
    BY <1>7, ContractFacts
  <2>2. \A s \in Series : Remaining(s) = Inflight(s)
    <3>1. CASE op = "append"
      BY <1>7, <3>1 DEF Remaining, Inflight
    <3>2. CASE op # "append"
      BY <1>7, <3>2, ContractFacts DEF Up
    <3> QED
      BY <3>1, <3>2
  <2>3. \A s \in Series : /\ Stable(s) \subseteq Contents(s)' /\ Contents(s)' \subseteq Stable(s) \union Inflight(s)
                          /\ PointsOf(s, {"durable"})' = PointsOf(s, {"durable"}) \intersect Contents(s)'
                          /\ Stable(s)' = Contents(s)'
    BY <1>4, <1>5, <1>7, <2>1, <2>2
  <2> QED
    BY <1>2, <1>5, <1>6, <1>7, <2>3, AsCrash
<1>8. CASE ~Up
  <2>1. op = "open" /\ pc # "rewrite"
    BY <1>1, <1>8, GoodFacts DEF Up, LiveInv, PathInv, PathOK
  <2>2. \A s \in Series : PointsOf(s, {"durable"}) \subseteq InFiles(s) /\ Inflight(s) = {}
    BY <2>1, ContractFacts
  <2>3. Up' = Up
    BY <1>2, <1>8 DEF Up
  <2>4. \A s \in Series : /\ PointsOf(s, {"durable"})' = PointsOf(s, {"durable"})
                          /\ Contents(s)' = Contents(s) /\ Stable(s)' = Stable(s) /\ Inflight(s)' = Inflight(s)
    BY <1>4, <1>5, <1>6, <1>8, <2>2
  <2> QED
    BY <1>5, <1>8, <2>3, <2>4, AsStutter
<1> QED
  BY <1>7, <1>8

\* Every step is a step of the contract or changes nothing that it speaks of.
LEMMA StepContract ==
  ASSUME NoFaults, OrderInv, OrderInv', [Next]_vars
  PROVE  [Contract!Next]_Contract!vars
<1>1. LiveInv /\ LiveInv'
  BY DEF OrderInv
<1>2. UNCHANGED vars \/ Open \/ StartCall \/ Continue \/ Crash
  BY <1>1, FaultlessSteps DEF LiveInv
<1>3. CASE UNCHANGED vars \/ Open
  BY <1>1, <1>3, QuietStepsContract
<1>4. CASE Crash
  BY <1>1, <1>4, CrashContract DEF Contract!Next
<1>5. CASE StartCall
  BY <1>1, <1>5, QuietStepsContract, BeginContract DEF StartCall, Contract!Next
<1>6. CASE Continue
  <2>1. CASE ReplayRecord \/ ReplayPoints \/ ReplayEnds \/ Chunk \/ Log \/ NextSeries
    BY <1>1, <2>1, QuietStepsContract, ReplayEndsContract DEF Contract!Next
  <2>2. CASE Place \/ AppendDone \/ RemoveDirectory \/ FlushSeries
    BY <1>1, <2>2, PlaceContract, ReturnStepsContract, QuietStepsContract DEF Contract!Next
  <2>3. CASE WalFlush \/ AppendBlock \/ RewriteWal
    BY <1>1, <2>3, SaveStepsContract, ReturnStepsContract DEF Contract!Next
  <2>4. CASE TruncateWal \/ UnlinkSegment
    BY <1>1, <2>4, TruncateContract, UnlinkContract DEF Contract!Next
  <2>5. CASE RewriteEnds
    <3>1. op \in {"flush", "flush_all"} \/ op = "close" \/ op \notin {"flush", "flush_all", "close"}
      OBVIOUS
    <3> QED
      BY <1>1, <2>5, <3>1, ReturnStepsContract, CloseContract, QuietStepsContract DEF Contract!Next
  <2> QED
    BY <1>6, <2>1, <2>2, <2>3, <2>4, <2>5 DEF Continue
<1> QED
  BY <1>2, <1>3, <1>4, <1>5, <1>6

\* The empty directory is the contract's empty database.
LEMMA InitContract == Init => Contract!Init
<1> SUFFICES ASSUME Init PROVE Contract!Init
  OBVIOUS
<1>1. LiveInv
  BY InitLiveInv
<1>2. pc = "closed" /\ op = "none" /\ wal = <<>> /\ ~Up /\ \A s \in Series : blocks[s] = <<>> /\ fate[s] = <<>>
  BY EmptyType DEF Init, Up
<1>3. \A s \in Series : InFiles(s) = {}
  BY <1>2, InLogEmpty DEF InFiles, PointsIn
<1>4. \A s \in Series : Contents(s) = {} /\ OnDisk(s) = {}
  BY <1>1, <1>2, <1>3, ViewsHold DEF Views
<1>5. \A s \in Series : \A f : PointsOf(s, f) = {}
  BY <1>2 DEF PointsOf
<1> QED
  BY <1>2, <1>4, <1>5 DEF Contract!Init, Contract!Nothing, Up

\* The write path with its recovery, its WAL rewrites and its crashes at any step
\* implements the contract, as long as file operations succeed: an application
\* that relies on the contract relies on nothing the code does not do.
THEOREM KeepsContract ==
  ASSUME NoFaults
  PROVE  Spec => ImplementsContract
<1>1. OrderInv /\ [Next]_vars => OrderInv'
  BY NextOrderInv
<1>2. OrderInv /\ OrderInv' /\ [Next]_vars => [Contract!Next]_Contract!vars
  BY StepContract
<1> QED
  BY InitOrderInv, InitContract, <1>1, <1>2, PTL DEF Spec, ImplementsContract, Contract!Spec

-----------------------------------------------------------------------------
(* How often a file holds a point *)

\* The points of the records of series s, record by record.
RunsOf(file, s) == [i \in 1..Len(file) |-> IF file[i].series = s THEN file[i].points ELSE <<>>]

LogCopies(file, s, n) == Copies(FlattenSeq(RunsOf(file, s)), n)

BlockCopies(file, n) == Copies(FlattenSeq(Read(file)), n)

LEMMA RunsType ==
  ASSUME NEW file \in Seq(Record), NEW s
  PROVE  /\ RunsOf(file, s) \in Seq(Seq(Nat)) /\ Len(RunsOf(file, s)) = Len(file) /\ Len(file) \in Nat
         /\ \A i \in 1..Len(file) :
              RunsOf(file, s)[i] = IF file[i].series = s THEN file[i].points ELSE <<>>
<1>1. \A i \in 1..Len(file) : file[i].points \in Seq(Nat)
  <2>1. \A i \in 1..Len(file) : file[i] \in Record
    BY ElementOfSeq
  <2> QED
    BY <2>1 DEF Record
<1> QED
  BY <1>1 DEF RunsOf

\* A count of points in a log; it is 0 for a point that no record of s holds.
LEMMA LogCopiesType ==
  ASSUME NEW file \in Seq(Record), NEW s, NEW n
  PROVE  /\ FlattenSeq(RunsOf(file, s)) \in Seq(Nat)
         /\ LogCopies(file, s, n) \in Nat
         /\ n \notin InLog(file, s) => LogCopies(file, s, n) = 0
<1> DEFINE runs == RunsOf(file, s)
           flat == FlattenSeq(runs)
<1>1. /\ runs \in Seq(Seq(Nat)) /\ Len(runs) = Len(file)
      /\ \A i \in 1..Len(file) : runs[i] = IF file[i].series = s THEN file[i].points ELSE <<>>
  BY RunsType
<1> HIDE DEF runs
<1>2. flat \in Seq(Nat) /\ Range(flat) = UNION {Range(runs[i]) : i \in 1..Len(runs)}
  BY <1>1, FlattenRange
<1> HIDE DEF flat
<1>3. Copies(flat, n) \in Nat /\ (Copies(flat, n) = 0 <=> \A i \in 1..Len(flat) : flat[i] # n)
  BY <1>2, CopiesType
<1>4. ASSUME n \notin InLog(file, s), NEW i \in 1..Len(flat) PROVE flat[i] # n
  <2>1. SUFFICES ASSUME flat[i] = n PROVE FALSE
    OBVIOUS
  <2>2. n \in Range(flat)
    BY <1>2, <2>1, RangeMember
  <2>3. PICK j \in 1..Len(file) : n \in Range(runs[j])
    BY <1>1, <1>2, <2>2
  <2>4. file[j].series = s /\ n \in Range(file[j].points)
    BY <1>1, <2>3, RangeEmpty
  <2> QED
    BY <1>4, <2>4, InLogMember
<1> QED
  BY <1>2, <1>3, <1>4 DEF LogCopies, runs, flat

LEMMA LogCopiesEmpty ==
  ASSUME NEW s, NEW n
  PROVE  LogCopies(<<>>, s, n) = 0
<1>1. RunsOf(<<>>, s) = <<>>
  BY DEF RunsOf
<1> QED
  BY <1>1, FlattenEmpty, CopiesEmpty DEF LogCopies

\* A log after another one holds what either holds.
LEMMA LogCopiesConcat ==
  ASSUME NEW u \in Seq(Record), NEW v \in Seq(Record), NEW s, NEW n
  PROVE  LogCopies(u \o v, s, n) = LogCopies(u, s, n) + LogCopies(v, s, n)
<1> DEFINE w == u \o v
           p == RunsOf(u, s)
           q == RunsOf(v, s)
           r == RunsOf(w, s)
           k == Len(u)
<1>1. /\ w \in Seq(Record) /\ k \in Nat /\ Len(v) \in Nat
      /\ Len(w) = k + Len(v)
      /\ \A i \in 1 .. k + Len(v) : w[i] = IF i <= k THEN u[i] ELSE v[i - k]
  BY ConcatProperties
<1> HIDE DEF w
<1>2. /\ p \in Seq(Seq(Nat)) /\ Len(p) = k
      /\ \A i \in 1..k : p[i] = IF u[i].series = s THEN u[i].points ELSE <<>>
  BY RunsType
<1>3. /\ q \in Seq(Seq(Nat)) /\ Len(q) = Len(v)
      /\ \A i \in 1..Len(v) : q[i] = IF v[i].series = s THEN v[i].points ELSE <<>>
  BY RunsType
<1>4. /\ r \in Seq(Seq(Nat)) /\ Len(r) = Len(w)
      /\ \A i \in 1..Len(w) : r[i] = IF w[i].series = s THEN w[i].points ELSE <<>>
  BY <1>1, RunsType
<1> HIDE DEF p, q, r, k
<1>5. r = p \o q
  <2> DEFINE pq == p \o q
  <2>1. /\ pq \in Seq(Seq(Nat)) /\ Len(pq) = k + Len(v)
        /\ \A i \in 1 .. k + Len(v) : pq[i] = IF i <= k THEN p[i] ELSE q[i - k]
    <3> DEFINE T == Seq(Nat)
    <3> HIDE DEF T
    <3>1. p \in Seq(T) /\ q \in Seq(T) /\ Len(p) = k /\ Len(q) = Len(v)
      BY <1>2, <1>3 DEF T
    <3>2. /\ pq \in Seq(T) /\ Len(pq) = Len(p) + Len(q)
          /\ \A i \in 1 .. Len(p) + Len(q) : pq[i] = IF i <= Len(p) THEN p[i] ELSE q[i - Len(p)]
      BY <3>1, ConcatProperties
    <3> QED
      BY <3>1, <3>2 DEF T
  <2> HIDE DEF pq
  <2>2. ASSUME NEW i \in 1..Len(r) PROVE r[i] = pq[i]
    <3>0. i \in 1 .. k + Len(v) /\ i \in 1..Len(w)
      BY <1>1, <1>4
    <3>1. CASE i <= k
      <4>1. i \in 1..k
        BY <1>1, <3>0, <3>1
      <4> QED
        BY <1>1, <1>2, <1>4, <2>1, <3>0, <3>1, <4>1
    <3>2. CASE ~(i <= k)
      <4>1. i - k \in 1..Len(v)
        BY <1>1, <3>0, <3>2
      <4> QED
        BY <1>1, <1>3, <1>4, <2>1, <3>0, <3>2, <4>1
    <3> QED
      BY <3>1, <3>2
  <2>3. r = pq
    BY <1>1, <1>4, <2>1, <2>2, SeqEqual
  <2> QED
    BY <2>3 DEF pq
<1> DEFINE a == FlattenSeq(p)
           b == FlattenSeq(q)
<1>6. FlattenSeq(r) = a \o b /\ a \in Seq(Nat) /\ b \in Seq(Nat)
  BY <1>2, <1>3, <1>5, FlattenConcat, FlattenRange
<1> HIDE DEF a, b
<1>7. Copies(a \o b, n) = Copies(a, n) + Copies(b, n)
  BY <1>6, CopiesConcat
<1> QED
  BY <1>6, <1>7 DEF LogCopies, a, b, p, q, r, w

\* A log of one record.
LEMMA LogCopiesOne ==
  ASSUME NEW x \in Record, NEW s, NEW n
  PROVE  LogCopies(<<x>>, s, n) = IF x.series = s THEN Copies(x.points, n) ELSE 0
<1> DEFINE one == <<x>>
           y == IF x.series = s THEN x.points ELSE <<>>
           runs == RunsOf(one, s)
<1>1. one \in Seq(Record) /\ Len(one) = 1 /\ one[1] = x
  OBVIOUS
<1>2. y \in Seq(Nat)
  BY DEF Record
<1> HIDE DEF one
<1>3. runs \in Seq(Seq(Nat)) /\ Len(runs) = 1 /\ runs[1] = y
  BY <1>1, RunsType
<1> HIDE DEF runs, y
<1>4. runs = <<y>>
  <2> DEFINE ys == <<y>>
  <2>1. ys \in Seq(Seq(Nat)) /\ Len(ys) = 1 /\ ys[1] = y
    BY <1>2
  <2> HIDE DEF ys
  <2>2. \A i \in 1..Len(runs) : runs[i] = ys[i]
    BY <1>3, <2>1
  <2>3. runs = ys
    BY <1>3, <2>1, <2>2, SeqEqual
  <2> QED
    BY <2>3 DEF ys
<1>5. FlattenSeq(runs) = y
  BY <1>2, <1>4, FlattenOne
<1> QED
  BY <1>5, CopiesEmpty DEF LogCopies, one, runs, y

\* One more record.
LEMMA LogCopiesAppend ==
  ASSUME NEW u \in Seq(Record), NEW x \in Record, NEW s, NEW n
  PROVE  LogCopies(Append(u, x), s, n)
           = LogCopies(u, s, n) + (IF x.series = s THEN Copies(x.points, n) ELSE 0)
<1> DEFINE one == <<x>>
<1>1. Append(u, x) = u \o one /\ one \in Seq(Record)
  BY AppendAsConcat
<1>2. LogCopies(one, s, n) = IF x.series = s THEN Copies(x.points, n) ELSE 0
  BY LogCopiesOne
<1> HIDE DEF one
<1>3. LogCopies(u \o one, s, n) = LogCopies(u, s, n) + LogCopies(one, s, n)
  BY <1>1, LogCopiesConcat
<1> QED
  BY <1>1, <1>2, <1>3

\* What is left of a log from its record c on.
LEMMA LogCopiesFirst ==
  ASSUME NEW w \in Seq(Record), NEW c \in 1..Len(w), NEW s, NEW n
  PROVE  /\ SubSeq(w, c, Len(w)) \in Seq(Record) /\ SubSeq(w, c + 1, Len(w)) \in Seq(Record)
         /\ LogCopies(SubSeq(w, c, Len(w)), s, n)
              = (IF w[c].series = s THEN Copies(w[c].points, n) ELSE 0)
                  + LogCopies(SubSeq(w, c + 1, Len(w)), s, n)
<1> DEFINE N == Len(w)
           x == w[c]
           a == SubSeq(w, c, N)
           b == SubSeq(w, c + 1, N)
           one == <<x>>
<1>1. N \in Nat /\ c \in Nat /\ c >= 1 /\ c <= N /\ x \in Record
  OBVIOUS
<1>2. /\ a \in Seq(Record) /\ Len(a) = N - c + 1
      /\ \A i \in 1 .. N - c + 1 : a[i] = w[c + i - 1]
  <2>1. \A j \in c..N : w[j] \in Record
    OBVIOUS
  <2>2. /\ a \in Seq(Record) /\ Len(a) = (IF c <= N THEN N - c + 1 ELSE 0)
        /\ \A i \in 1 .. N - c + 1 : a[i] = w[c + i - 1]
    BY <1>1, <2>1, SubSeqProperties
  <2> QED
    BY <1>1, <2>2
<1>3. /\ b \in Seq(Record) /\ Len(b) = N - c
      /\ \A i \in 1 .. N - c : b[i] = w[c + i]
  <2>1. \A j \in (c + 1)..N : w[j] \in Record
    OBVIOUS
  <2>2. /\ b \in Seq(Record) /\ Len(b) = (IF c + 1 <= N THEN N - (c + 1) + 1 ELSE 0)
        /\ \A i \in 1 .. N - (c + 1) + 1 : b[i] = w[c + 1 + i - 1]
    BY <1>1, <2>1, SubSeqProperties
  <2> HIDE DEF b, N
  <2>3. N - (c + 1) + 1 = N - c /\ \A i \in 1 .. N - c : c + 1 + i - 1 = c + i
    BY <1>1
  <2> QED
    BY <1>1, <2>2, <2>3
<1>4. one \in Seq(Record) /\ Len(one) = 1 /\ one[1] = x
  BY <1>1
<1> HIDE DEF a, b, one, N
<1>5. a = one \o b
  <2> DEFINE ob == one \o b
  <2>1. /\ ob \in Seq(Record) /\ Len(ob) = 1 + (N - c)
        /\ \A i \in 1 .. 1 + (N - c) : ob[i] = IF i <= 1 THEN one[i] ELSE b[i - 1]
    <3>1. one \in Seq(Record) /\ b \in Seq(Record) /\ Len(one) = 1 /\ Len(b) = N - c
      BY <1>3, <1>4
    <3>2. /\ ob \in Seq(Record) /\ Len(ob) = Len(one) + Len(b)
          /\ \A i \in 1 .. Len(one) + Len(b) : ob[i] = IF i <= Len(one) THEN one[i] ELSE b[i - Len(one)]
      BY <3>1, ConcatProperties
    <3> QED
      BY <3>1, <3>2
  <2> HIDE DEF ob, x
  <2>2. ASSUME NEW i \in 1..Len(a) PROVE a[i] = ob[i]
    <3>1. i \in 1 .. N - c + 1 /\ i \in 1 .. 1 + (N - c)
      BY <1>1, <1>2
    <3>2. CASE i = 1
      <4>1. c + i - 1 = c
        BY <1>1, <3>2
      <4> QED
        BY <1>2, <1>4, <2>1, <3>1, <3>2, <4>1 DEF x
    <3>3. CASE i # 1
      <4>1. i - 1 \in 1 .. N - c /\ ~(i <= 1) /\ c + (i - 1) = c + i - 1
        BY <1>1, <3>1, <3>3
      <4> QED
        BY <1>2, <1>3, <2>1, <3>1, <4>1
    <3> QED
      BY <3>2, <3>3
  <2>3. Len(a) = Len(ob)
    BY <1>1, <1>2, <2>1
  <2>4. a = ob
    BY <1>2, <2>1, <2>2, <2>3, SeqEqual
  <2> QED
    BY <2>4 DEF ob
<1>6. LogCopies(one \o b, s, n) = LogCopies(one, s, n) + LogCopies(b, s, n)
  BY <1>3, <1>4, LogCopiesConcat
<1>7. LogCopies(one, s, n) = IF x.series = s THEN Copies(x.points, n) ELSE 0
  BY <1>1, LogCopiesOne DEF one
<1> QED
  BY <1>2, <1>3, <1>5, <1>6, <1>7 DEF a, b, N

\* What a write that stops leaves in a log is no more than what was to be written.
LEMMA LogCopiesPart ==
  ASSUME NEW items \in Seq(Record), NEW part \in PartialWrites(items), NEW s, NEW n
  PROVE  part \in Seq(Record) /\ LogCopies(part, s, n) <= LogCopies(items, s, n)
<1> DEFINE all == RunsOf(items, s)
           some == RunsOf(part, s)
           k == Len(part)
           a == SubSeq(all, 1, k)
           b == SubSeq(all, k + 1, Len(all))
<1>1. part \in Seq(Record)
  BY PartialRecords
<1>2. /\ k \in 0..Len(items)
      /\ \A i \in 1..k : i \in 1..Len(items) /\ (part[i] = items[i]
           \/ \E g \in 0..Len(items[i].points) : part[i] = Cut(items[i], g))
  BY <1>1, PartialShape
<1>3. \A i \in 1..k : part[i].points = items[i].points /\ part[i].series = items[i].series
  <2> TAKE i \in 1..k
  <2>1. items[i] \in Record /\ 0..Len(items[i].points) \subseteq Nat
    BY <1>2, ElementOfSeq
  <2> QED
    BY <1>2, <2>1 DEF Cut, Record
<1>4. /\ all \in Seq(Seq(Nat)) /\ Len(all) = Len(items)
      /\ \A i \in 1..Len(items) : all[i] = IF items[i].series = s THEN items[i].points ELSE <<>>
  BY RunsType
<1>5. /\ some \in Seq(Seq(Nat)) /\ Len(some) = k
      /\ \A i \in 1..k : some[i] = IF part[i].series = s THEN part[i].points ELSE <<>>
  BY <1>1, RunsType
<1> HIDE DEF all, some, k
<1>6. a \in Seq(Seq(Nat)) /\ Len(a) = k /\ \A i \in 1..k : a[i] = all[i]
  <2> DEFINE T == Seq(Nat)
  <2> HIDE DEF T
  <2>1. all \in Seq(T) /\ k \in Nat /\ k <= Len(all)
    BY <1>2, <1>4 DEF T
  <2>2. \A j \in 1..k : all[j] \in T
    BY <2>1
  <2>3. a \in Seq(T) /\ Len(a) = (IF 1 <= k THEN k - 1 + 1 ELSE 0) /\ \A i \in 1..(k - 1 + 1) : a[i] = all[1 + i - 1]
    BY <2>1, <2>2, SubSeqProperties
  <2>4. k - 1 + 1 = k /\ \A i \in 1..k : 1 + i - 1 = i
    BY <2>1
  <2> QED
    BY <2>1, <2>3, <2>4 DEF T
<1>7. some = a
  <2>1. \A i \in 1..Len(some) : some[i] = a[i]
    BY <1>2, <1>3, <1>4, <1>5, <1>6
  <2> HIDE DEF a
  <2> QED
    BY <1>5, <1>6, <2>1, SeqEqual
<1>8. b \in Seq(Seq(Nat)) /\ a \o b = all
  <2> DEFINE T == Seq(Nat)
  <2> HIDE DEF T
  <2>1. all \in Seq(T) /\ k \in 0..Len(all)
    BY <1>2, <1>4 DEF T
  <2>2. b \in Seq(T) /\ a \o b = all
    BY <2>1, CopiesSplit
  <2> QED
    BY <2>2 DEF T
<1> DEFINE fa == FlattenSeq(a)
           fb == FlattenSeq(b)
<1> HIDE DEF a, b
<1>9. fa \in Seq(Nat) /\ fb \in Seq(Nat) /\ FlattenSeq(all) = fa \o fb
  BY <1>6, <1>8, FlattenRange, FlattenConcat
<1> HIDE DEF fa, fb
<1>10. Copies(fa \o fb, n) = Copies(fa, n) + Copies(fb, n) /\ Copies(fa, n) \in Nat /\ Copies(fb, n) \in Nat
  <2>1. fa \in Seq(Nat) /\ fb \in Seq(Nat)
    BY <1>9
  <2>2. Copies(fa \o fb, n) = Copies(fa, n) + Copies(fb, n)
    BY <2>1, CopiesConcat
  <2>3. Copies(fa, n) \in Nat /\ Copies(fb, n) \in Nat
    BY <2>1, CopiesType
  <2> QED
    BY <2>2, <2>3
<1>11. LogCopies(part, s, n) = Copies(fa, n)
  BY <1>7 DEF LogCopies, some, fa
<1>12. LogCopies(items, s, n) = Copies(fa \o fb, n)
  BY <1>9 DEF LogCopies, all
<1> QED
  BY <1>1, <1>10, <1>11, <1>12

-----------------------------------------------------------------------------
(* The same for the blocks of a segment file *)

LEMMA BlockCopiesType ==
  ASSUME NEW file \in Seq(AnyBlock), NEW n
  PROVE  /\ FlattenSeq(Read(file)) \in Seq(Nat)
         /\ BlockCopies(file, n) \in Nat
         /\ n \notin PointsIn(file) => BlockCopies(file, n) = 0
<1> DEFINE read == Read(file)
           flat == FlattenSeq(read)
<1>1. /\ read \in Seq(Seq(Nat)) /\ Len(read) = Len(file)
      /\ \A i \in 1..Len(file) : read[i] = IF IsWhole(file[i]) THEN file[i].points ELSE <<>>
  BY ReadType DEF Read
<1> HIDE DEF read
<1>2. flat \in Seq(Nat) /\ Range(flat) = UNION {Range(read[i]) : i \in 1..Len(read)}
  BY <1>1, FlattenRange
<1> HIDE DEF flat
<1>3. Copies(flat, n) \in Nat /\ (Copies(flat, n) = 0 <=> \A i \in 1..Len(flat) : flat[i] # n)
  BY <1>2, CopiesType
<1>4. ASSUME n \notin PointsIn(file), NEW i \in 1..Len(flat) PROVE flat[i] # n
  <2>1. SUFFICES ASSUME flat[i] = n PROVE FALSE
    OBVIOUS
  <2>2. n \in Range(flat)
    BY <1>2, <2>1, RangeMember
  <2>3. PICK j \in 1..Len(file) : n \in Range(read[j])
    BY <1>1, <1>2, <2>2
  <2>4. n \in Range(file[j].points)
    BY <1>1, <2>3, RangeEmpty
  <2> QED
    BY <1>4, <2>4, PointsInMember
<1> QED
  BY <1>2, <1>3, <1>4 DEF BlockCopies, flat, read

LEMMA BlockCopiesEmpty == \A n : BlockCopies(<<>>, n) = 0
<1>1. Read(<<>>) = <<>>
  BY DEF Read
<1> QED
  BY <1>1, FlattenEmpty, CopiesEmpty DEF BlockCopies

\* One more block: it is read when it is whole.
LEMMA BlockCopiesAppend ==
  ASSUME NEW file \in Seq(AnyBlock), NEW x \in AnyBlock, NEW n
  PROVE  BlockCopies(Append(file, x), n)
           = BlockCopies(file, n) + (IF IsWhole(x) THEN Copies(x.points, n) ELSE 0)
<1> DEFINE w == Append(file, x)
           y == IF IsWhole(x) THEN x.points ELSE <<>>
           read == Read(file)
           rw == Read(w)
<1>1. w \in Seq(AnyBlock) /\ Len(w) = Len(file) + 1 /\ w[Len(file) + 1] = x /\ Len(file) \in Nat
      /\ \A i \in 1..Len(file) : w[i] = file[i]
  BY AppendProperties
<1>2. y \in Seq(Nat)
  BY DEF AnyBlock
<1> HIDE DEF w
<1>3. /\ rw \in Seq(Seq(Nat)) /\ Len(rw) = Len(file) + 1
      /\ \A i \in 1..(Len(file) + 1) : rw[i] = IF IsWhole(w[i]) THEN w[i].points ELSE <<>>
  BY <1>1, ReadType DEF Read
<1>4. /\ read \in Seq(Seq(Nat)) /\ Len(read) = Len(file)
      /\ \A i \in 1..Len(file) : read[i] = IF IsWhole(file[i]) THEN file[i].points ELSE <<>>
  BY ReadType DEF Read
<1>5. rw[Len(file) + 1] = y
  BY <1>1, <1>3
<1> HIDE DEF y, read, rw
<1>6. rw = Append(read, y)
  <2> DEFINE v == Append(read, y)
  <2>1. v \in Seq(Seq(Nat)) /\ Len(v) = Len(file) + 1 /\ v[Len(file) + 1] = y /\ \A i \in 1..Len(file) : v[i] = read[i]
    BY <1>2, <1>4, AppendProperties
  <2> HIDE DEF v
  <2>2. ASSUME NEW i \in 1..Len(rw) PROVE rw[i] = v[i]
    <3>1. i \in 1..Len(file) \/ i = Len(file) + 1
      BY <1>1, <1>3
    <3>2. CASE i \in 1..Len(file)
      <4>1. i \in 1..(Len(file) + 1)
        BY <1>1, <3>2
      <4> QED
        BY <1>1, <1>3, <1>4, <2>1, <3>2, <4>1
    <3>3. CASE i = Len(file) + 1
      BY <1>5, <2>1, <3>3
    <3> QED
      BY <3>1, <3>2, <3>3
  <2>3. rw = v
    BY <1>3, <2>1, <2>2, SeqEqual
  <2> QED
    BY <2>3 DEF v
<1> DEFINE flat == FlattenSeq(read)
<1>7. FlattenSeq(rw) = flat \o y /\ flat \in Seq(Nat)
  BY <1>2, <1>4, <1>6, FlattenAppend, FlattenRange
<1> HIDE DEF flat
<1>8. Copies(flat \o y, n) = Copies(flat, n) + Copies(y, n)
  BY <1>2, <1>7, CopiesConcat
<1>9. Copies(y, n) = IF IsWhole(x) THEN Copies(x.points, n) ELSE 0
  BY CopiesEmpty DEF y
<1> QED
  BY <1>7, <1>8, <1>9 DEF BlockCopies, flat, read, rw, w

\* A block that was written in part is either read or not.
LEMMA BlockCopiesPart ==
  ASSUME NEW file \in Seq(AnyBlock), NEW pts \in Seq(Nat), NEW part \in PartialWrites(<<Block(pts)>>), NEW n
  PROVE  /\ BlockCopies(file \o part, n) \in Nat
         /\ BlockCopies(file \o part, n) <= BlockCopies(file, n) + Copies(pts, n)
<1> DEFINE x == Block(pts)
           one == <<x>>
<1>1. x \in AnyBlock /\ x.points = pts
  BY BlockType DEF Block
<1>2. one \in Seq(AnyBlock) /\ Len(one) = 1 /\ one[1] = x
  BY <1>1
<1>3. BlockCopies(file, n) \in Nat /\ Copies(pts, n) \in Nat
  BY BlockCopiesType, CopiesType
<1>4. part \in PartialWrites(one)
  OBVIOUS
<1> HIDE DEF one, x
<1>5. /\ part \in Seq(AnyBlock) /\ Len(part) <= 1
      /\ \A i \in 1..Len(part) : i \in 1..1 /\ (part[i] = one[i]
           \/ \E g \in 0..Len(one[i].points) : part[i] = Cut(one[i], g))
  BY <1>2, <1>4, PartialBlocks, PartialShape
<1>6. CASE Len(part) = 0
  <2>1. part = <<>>
    BY <1>5, <1>6
  <2>2. file \o part = file
    BY <2>1, ConcatEmptySeq
  <2> QED
    BY <1>3, <2>2
<1>7. CASE Len(part) # 0
  <2> DEFINE y == part[1]
  <2>1. Len(part) = 1 /\ y \in AnyBlock
    BY <1>5, <1>7
  <2>2. y.points = pts
    <3>1. y = x \/ \E g \in 0..Len(x.points) : y = Cut(x, g)
      BY <1>2, <1>5, <2>1
    <3> HIDE DEF y
    <3> QED
      BY <1>1, <3>1 DEF Cut, AnyBlock
  <2>3. part = <<y>>
    <3> DEFINE ys == <<y>>
    <3>1. ys \in Seq(AnyBlock) /\ Len(ys) = 1 /\ ys[1] = part[1]
      BY <2>1
    <3> HIDE DEF ys, y
    <3>2. \A i \in 1..Len(part) : part[i] = ys[i]
      BY <2>1, <3>1
    <3>3. part = ys
      BY <1>5, <2>1, <3>1, <3>2, SeqEqual
    <3> QED
      BY <3>3 DEF ys
  <2> HIDE DEF y
  <2>4. file \o <<y>> = Append(file, y)
    BY <2>1, AppendAsConcat
  <2>5. BlockCopies(Append(file, y), n) = BlockCopies(file, n) + (IF IsWhole(y) THEN Copies(y.points, n) ELSE 0)
    BY <2>1, BlockCopiesAppend
  <2>6. BlockCopies(file \o part, n) = BlockCopies(file, n) + (IF IsWhole(y) THEN Copies(pts, n) ELSE 0)
    BY <2>2, <2>3, <2>4, <2>5
  <2> QED
    BY <1>3, <2>6
<1> QED
  BY <1>6, <1>7

-----------------------------------------------------------------------------
(* How many copies of a point there are *)

InWal(s, n)    == LogCopies(wal, s, n)
InWalbuf(s, n) == LogCopies(walbuf, s, n)
InSegment(s, n) == BlockCopies(blocks[s], n)
InBuffer(s, n) == Copies(buffer[s], n)
InRest(s, n)   == IF s = target THEN Copies(rest, n) ELSE 0
ToReplay(s, n) == LogCopies(SubSeq(wal, cursor, Len(wal)), s, n)

\* The chunk of the remaining points that comes next, and what follows it.
InChunk(s, n) == IF s = target THEN Copies(SubSeq(rest, 1, ChunkLength), n) ELSE 0
InTail(s, n)  == IF s = target THEN Copies(SubSeq(rest, ChunkLength + 1, Len(rest)), n) ELSE 0

CountTypes ==
  \A s \in Series, n \in Nat :
    /\ InWal(s, n) \in Nat /\ InWalbuf(s, n) \in Nat /\ InSegment(s, n) \in Nat
    /\ InBuffer(s, n) \in Nat /\ InRest(s, n) \in Nat /\ ToReplay(s, n) \in Nat

\* The database is open: r bounds the copies that one crash can add, and m the
\* copies that a query sees.
Running(r, m) ==
  \A s \in Series, n \in Nat :
    /\ InWalbuf(s, n) <= 1
    /\ InBuffer(s, n) <= r
    /\ InWal(s, n) + InWalbuf(s, n) <= r
    /\ InSegment(s, n) + InBuffer(s, n) <= m

\* The replay has taken some records of wal.log.
Replaying(r, m) ==
  \A s \in Series, n \in Nat :
    /\ InWal(s, n) <= r
    /\ InBuffer(s, n) + InRest(s, n) + ToReplay(s, n) <= r
    /\ WalCorrupt(wal) \/ InSegment(s, n) + InBuffer(s, n) + InRest(s, n) + ToReplay(s, n) <= m

Closed(r, m) ==
  \A s \in Series, n \in Nat :
    /\ InWal(s, n) <= r
    /\ WalCorrupt(wal) \/ InSegment(s, n) + InWal(s, n) <= m

\* A write stopped half-way: of wal.log, or of a segment file.
Stopped(r, m) ==
  /\ TornWrites
  /\ \A s \in Series, n \in Nat :
       /\ InWalbuf(s, n) <= 1 /\ InBuffer(s, n) <= r /\ InWal(s, n) <= r
       /\ (op = "open" /\ WalCorrupt(wal)) \/ InSegment(s, n) <= m
  /\ \/ \A s \in Series, n \in Nat : InSegment(s, n) + InBuffer(s, n) <= m
     \/ \A s \in Series, n \in Nat : InWal(s, n) + InWalbuf(s, n) <= r

CountsIn(r, m) ==
  /\ pc = "closed" => Closed(r, m)
  /\ pc = "broken" => Stopped(r, m)
  /\ op = "open" /\ pc # "broken" => Replaying(r, m)
  /\ op # "open" /\ pc \notin {"closed", "broken"} => Running(r, m)

\* A replay starts with an empty WAL buffer.
OpenEmpty == pc = "closed" \/ op = "open" => walbuf = <<>>

\* The points of an append are new: what is left of it is not in the files or in
\* the buffer, and not in the WAL either before its chunk is logged.
FreshCounts ==
  op = "append" /\ pc # "broken" => \A s \in Series, n \in Nat : InRest(s, n) # 0 =>
    /\ InRest(s, n) = 1 /\ InSegment(s, n) = 0 /\ InBuffer(s, n) = 0
    /\ pc \notin {"sync", "place"} \/ InTail(s, n) # 0 => InWal(s, n) = 0 /\ InWalbuf(s, n) = 0

\* While wal.log is rewritten it holds nothing that a buffer does not hold, and
\* nothing of the series that the loop has not reached.
RewriteCounts ==
  pc = "rewrite" =>
    /\ walbuf = <<>>
    /\ \A s \in Series, n \in Nat :
         /\ InWal(s, n) <= InBuffer(s, n)
         /\ (\E j \in 1..Len(registry) : j >= cursor /\ registry[j] = s) => InWal(s, n) = 0

CountFacts(r, m) == OpenEmpty /\ FreshCounts /\ RewriteCounts /\ CountsIn(r, m)

LEMMA TypedCounts == TypeInv => CountTypes
<1> SUFFICES ASSUME TypeInv, NEW s \in Series, NEW n \in Nat
             PROVE  /\ InWal(s, n) \in Nat /\ InWalbuf(s, n) \in Nat /\ InSegment(s, n) \in Nat
                    /\ InBuffer(s, n) \in Nat /\ InRest(s, n) \in Nat /\ ToReplay(s, n) \in Nat
  BY DEF CountTypes
<1>1. /\ wal \in Seq(Record) /\ walbuf \in Seq(Record) /\ blocks[s] \in Seq(AnyBlock)
      /\ buffer[s] \in Seq(Nat) /\ rest \in Seq(Nat) /\ cursor \in Nat \ {0}
  BY Typing
<1>2. SubSeq(wal, cursor, Len(wal)) \in Seq(Record)
  <2>1. \A j \in cursor..Len(wal) : wal[j] \in Record
    BY <1>1
  <2> QED
    BY <1>1, <2>1, SubSeqProperties
<1>3. InWal(s, n) \in Nat /\ InWalbuf(s, n) \in Nat
  BY <1>1, LogCopiesType DEF InWal, InWalbuf
<1>4. ToReplay(s, n) \in Nat
  BY <1>2, LogCopiesType DEF ToReplay
<1>5. InSegment(s, n) \in Nat
  BY <1>1, BlockCopiesType DEF InSegment
<1>6. InBuffer(s, n) \in Nat /\ Copies(rest, n) \in Nat
  BY <1>1, CopiesType DEF InBuffer
<1> QED
  BY <1>3, <1>4, <1>5, <1>6 DEF InRest

LEMMA NextTypedCounts == TypeInv' => CountTypes'
BY TypedCounts, PTL

\* Where files and buffers stay as they are, so do the counts.
LEMMA SameCounts ==
  ASSUME UNCHANGED <<wal, walbuf, blocks, buffer>>
  PROVE  \A s \in Series, n \in Nat :
           /\ InWal(s, n)' = InWal(s, n) /\ InWalbuf(s, n)' = InWalbuf(s, n)
           /\ InSegment(s, n)' = InSegment(s, n) /\ InBuffer(s, n)' = InBuffer(s, n)
BY DEF InWal, InWalbuf, InSegment, InBuffer

\* More copies may be allowed.
LEMMA MoreCopies ==
  ASSUME TypeInv, NEW r \in Nat, NEW m \in Nat, NEW k \in Nat, CountsIn(r, m), m <= k
  PROVE  CountsIn(r, k)
<1>1. \A s \in Series, n \in Nat :
        /\ InWal(s, n) \in Nat /\ InWalbuf(s, n) \in Nat /\ InSegment(s, n) \in Nat
        /\ InBuffer(s, n) \in Nat /\ InRest(s, n) \in Nat /\ ToReplay(s, n) \in Nat
  BY TypedCounts DEF CountTypes
<1>2. Running(r, m) => Running(r, k)
  BY <1>1 DEF Running
<1>3. Replaying(r, m) => Replaying(r, k)
  BY <1>1 DEF Replaying
<1>4. Closed(r, m) => Closed(r, k)
  BY <1>1 DEF Closed
<1>5. ASSUME Stopped(r, m) PROVE Stopped(r, k)
  <2>1. ASSUME NEW s \in Series, NEW n \in Nat
        PROVE  /\ InWalbuf(s, n) <= 1 /\ InBuffer(s, n) <= r /\ InWal(s, n) <= r
               /\ (op = "open" /\ WalCorrupt(wal)) \/ InSegment(s, n) <= k
    <3>1. /\ InWalbuf(s, n) <= 1 /\ InBuffer(s, n) <= r /\ InWal(s, n) <= r
          /\ (op = "open" /\ WalCorrupt(wal)) \/ InSegment(s, n) <= m
      BY <1>5 DEF Stopped
    <3>2. InSegment(s, n) \in Nat
      BY <1>1
    <3>3. InSegment(s, n) <= m => InSegment(s, n) <= k
      BY <3>2
    <3> QED
      BY <3>1, <3>3
  <2>2. ASSUME NEW s \in Series, NEW n \in Nat, InSegment(s, n) + InBuffer(s, n) <= m
        PROVE  InSegment(s, n) + InBuffer(s, n) <= k
    BY <1>1, <2>2
  <2>3. TornWrites
    BY <1>5 DEF Stopped
  <2>4. \/ \A s \in Series, n \in Nat : InSegment(s, n) + InBuffer(s, n) <= m
        \/ \A s \in Series, n \in Nat : InWal(s, n) + InWalbuf(s, n) <= r
    BY <1>5 DEF Stopped
  <2>5. \/ \A s \in Series, n \in Nat : InSegment(s, n) + InBuffer(s, n) <= k
        \/ \A s \in Series, n \in Nat : InWal(s, n) + InWalbuf(s, n) <= r
    BY <2>2, <2>4
  <2> QED
    BY <2>1, <2>3, <2>5 DEF Stopped
<1> QED
  BY <1>2, <1>3, <1>4, <1>5 DEF CountsIn

\* What the steps of an open database may assume, and what they have to show.
LEMMA RunningNow ==
  ASSUME NEW r, NEW m, CountsIn(r, m), pc \notin {"closed", "broken"}, op # "open"
  PROVE  Running(r, m)
BY DEF CountsIn

LEMMA RunningNext ==
  ASSUME NEW r \in Nat, NEW m, Running(r, m)', pc' \notin {"closed", "broken"}, op' # "open"
  PROVE  CountsIn(r, m)' /\ OpenEmpty'
BY DEF CountsIn, OpenEmpty

\* Steps of an open database that move no point.
LEMMA QuietCounts ==
  ASSUME NEW r \in Nat, NEW m \in Nat, CountFacts(r, m), UNCHANGED <<wal, walbuf, blocks, buffer>>,
         pc \notin {"closed", "broken"}, op # "open", pc' \notin {"closed", "broken", "rewrite"}, op' # "open",
         op' = "append" => UNCHANGED <<op, target, rest>> /\ (pc \in {"sync", "place"} => pc' \in {"sync", "place"})
  PROVE  CountFacts(r, m)'
<1>1. Running(r, m)
  BY RunningNow DEF CountFacts
<1>2. \A s \in Series, n \in Nat :
        /\ InWal(s, n)' = InWal(s, n) /\ InWalbuf(s, n)' = InWalbuf(s, n)
        /\ InSegment(s, n)' = InSegment(s, n) /\ InBuffer(s, n)' = InBuffer(s, n)
  BY SameCounts
<1>3. Running(r, m)'
  BY <1>1, <1>2 DEF Running
<1>4. CountsIn(r, m)' /\ OpenEmpty'
  BY <1>3, RunningNext
<1>5. FreshCounts'
  <2>1. CASE op' = "append"
    <3>1. op = "append" /\ target' = target /\ rest' = rest
          /\ (pc \in {"sync", "place"} => pc' \in {"sync", "place"})
      BY <2>1
    <3>2. ChunkLength' = ChunkLength
      BY <3>1 DEF ChunkLength
    <3>3. \A s \in Series, n \in Nat : InRest(s, n)' = InRest(s, n) /\ InTail(s, n)' = InTail(s, n)
      BY <3>1, <3>2 DEF InRest, InTail
    <3>4. FreshCounts /\ pc # "broken"
      BY DEF CountFacts
    <3> SUFFICES ASSUME NEW s \in Series, NEW n \in Nat, InRest(s, n)' # 0
                 PROVE  /\ InRest(s, n)' = 1 /\ InSegment(s, n)' = 0 /\ InBuffer(s, n)' = 0
                        /\ pc' \notin {"sync", "place"} \/ InTail(s, n)' # 0 =>
                             InWal(s, n)' = 0 /\ InWalbuf(s, n)' = 0
      BY DEF FreshCounts
    <3>5. /\ InRest(s, n) = 1 /\ InSegment(s, n) = 0 /\ InBuffer(s, n) = 0
          /\ pc \notin {"sync", "place"} \/ InTail(s, n) # 0 => InWal(s, n) = 0 /\ InWalbuf(s, n) = 0
      BY <3>1, <3>3, <3>4 DEF FreshCounts
    <3> QED
      BY <1>2, <3>1, <3>3, <3>5
  <2>2. CASE op' # "append"
    BY <2>2 DEF FreshCounts
  <2> QED
    BY <2>1, <2>2
<1>6. RewriteCounts'
  BY DEF RewriteCounts
<1> QED
  BY <1>4, <1>5, <1>6 DEF CountFacts

\* The steps of an open database that move no point.
LEMMA QuietStepsCounts ==
  ASSUME PathInv, NEW r \in Nat, NEW m \in Nat, CountFacts(r, m),
         \/ \E s \in Series : CreateSeries(s) \/ CreateFails(s) \/ StartFlush(s)
         \/ \E mode \in Selected : SetDurability(mode)
         \/ \E name \in {"flush_all", "close", "delete"}, s \in Series \union {NoSeries} : StartFlushAll(name, s)
         \/ Chunk \/ AppendDone \/ FlushSeries \/ NextSeries \/ RemoveDirectory
         \/ (RewriteEnds /\ op # "close")
  PROVE  CountFacts(r, m)'
<1>1. Selected \subseteq {"FAST", "BALANCED", "STRICT"}
  BY StoreAssumption
<1>2. CallOK /\ PathOK
  BY DEF PathInv, TypeInv
<1>3. ASSUME NEW s \in Series, CreateSeries(s) \/ CreateFails(s) PROVE CountFacts(r, m)'
  <2>1. pc = "idle" /\ UNCHANGED <<wal, walbuf, blocks, buffer, pc, op>>
    BY <1>3 DEF CreateSeries, CreateFails, call
  <2>2. op = "none"
    BY <1>2, <2>1 DEF CallOK
  <2> QED
    BY <2>1, <2>2, QuietCounts
<1>4. ASSUME NEW s \in Series, StartFlush(s) PROVE CountFacts(r, m)'
  <2>1. pc = "idle" /\ pc' = "flush" /\ op' = "flush" /\ UNCHANGED <<wal, walbuf, blocks, buffer>>
    BY <1>4 DEF StartFlush, Call, Goto, disk, memory
  <2>2. op = "none"
    BY <1>2, <2>1 DEF CallOK
  <2> QED
    BY <2>1, <2>2, QuietCounts
<1>5. ASSUME NEW mode \in Selected, SetDurability(mode) PROVE CountFacts(r, m)'
  <2>1. pc = "idle" /\ pc' = "switch" /\ op' \in {"FAST", "BALANCED", "STRICT"} /\ UNCHANGED <<wal, walbuf, blocks, buffer>>
    BY <1>1, <1>5 DEF SetDurability, Goto, disk, memory
  <2>2. op = "none"
    BY <1>2, <2>1 DEF CallOK
  <2> QED
    BY <2>1, <2>2, QuietCounts
<1>6. ASSUME NEW name \in {"flush_all", "close", "delete"}, NEW s, StartFlushAll(name, s) PROVE CountFacts(r, m)'
  <2>1. pc = "idle" /\ pc' = "next" /\ op' \in {"flush_all", "close", "delete"} /\ UNCHANGED <<wal, walbuf, blocks, buffer>>
    BY <1>6 DEF StartFlushAll, Call, Goto, disk, memory
  <2>2. op = "none"
    BY <1>2, <2>1 DEF CallOK
  <2> QED
    BY <2>1, <2>2, QuietCounts
<1>7. CASE Chunk
  <2>1. pc = "chunk" /\ pc' \in {"seal", "spill", "log"} /\ UNCHANGED <<wal, walbuf, blocks, buffer, op, target, rest>>
    BY <1>7 DEF Chunk, Goto, disk, memory, call
  <2>2. op = "append"
    BY <1>2, <2>1 DEF CallOK
  <2> QED
    BY <2>1, <2>2, QuietCounts
<1>8. ASSUME NEW a, Return(a), pc \notin {"closed", "broken"}, op # "open", UNCHANGED <<wal, walbuf, blocks, buffer>>
      PROVE  CountFacts(r, m)'
  <2>1. pc' = "idle" /\ op' = "none"
    BY <1>8 DEF Return
  <2> QED
    BY <1>8, <2>1, QuietCounts
<1>9. CASE AppendDone
  <2>1. pc = "chunk" /\ Return("ok") /\ UNCHANGED <<wal, walbuf, blocks, buffer>>
    BY <1>9 DEF AppendDone, disk, memory
  <2>2. op = "append"
    BY <1>2, <2>1 DEF CallOK
  <2> QED
    BY <1>8, <2>1, <2>2
<1>10. CASE FlushSeries
  <2>1. pc = "flush" /\ op = "flush" /\ UNCHANGED <<wal, walbuf, blocks, buffer>>
    BY <1>2, <1>10 DEF FlushSeries, disk, memory, PathOK
  <2>2. Return("ok") \/ (pc' = "seal" /\ op' = op)
    BY <1>10 DEF FlushSeries, Goto, call
  <2> QED
    BY <1>8, <2>1, <2>2, QuietCounts
<1>11. CASE NextSeries
  <2>1. pc = "next" /\ op \in Bulk /\ op' = op /\ UNCHANGED <<wal, walbuf, blocks, buffer>>
    BY <1>2, <1>11 DEF NextSeries, disk, memory, PathOK
  <2>2. pc' \in {"next", "seal", "truncate"}
    <3>1. cursor > Len(registry) \/ (cursor <= Len(registry) /\ buffer[registry[cursor]] # <<>>)
            \/ ~(cursor > Len(registry) \/ (cursor <= Len(registry) /\ buffer[registry[cursor]] # <<>>))
      OBVIOUS
    <3> QED
      BY <1>11, <2>1, <3>1 DEF NextSeries, Goto
  <2> QED
    BY <2>1, <2>2, QuietCounts DEF Bulk
<1>12. CASE RemoveDirectory
  <2>1. pc = "rmdir" /\ op = "delete" /\ (Return("ok") \/ Return("error")) /\ UNCHANGED <<wal, walbuf, blocks, buffer>>
    BY <1>2, <1>12 DEF RemoveDirectory, PathOK
  <2> QED
    BY <1>8, <2>1
<1>13. CASE RewriteEnds /\ op # "close"
  <2>1. pc = "rewrite" /\ op \in {"append", "flush"} \union Bulk
    BY <1>2, <1>13 DEF RewriteEnds, PathOK
  <2>2. CASE op \in {"flush", "flush_all"}
    <3>1. Return("ok") /\ UNCHANGED <<wal, walbuf, blocks, buffer>>
      BY <1>13, <2>2 DEF RewriteEnds, disk, memory
    <3> QED
      BY <1>8, <2>1, <2>2, <3>1
  <2>3. CASE op \notin {"flush", "flush_all"}
    <3>1. pc' \in {"chunk", "unlink"} /\ UNCHANGED <<op, target, rest, wal, walbuf, blocks, buffer>>
      BY <1>13, <2>3 DEF RewriteEnds, Goto, disk, memory
    <3> QED
      BY <2>1, <3>1, QuietCounts DEF Bulk
  <2> QED
    BY <2>2, <2>3
<1> QED
  BY <1>3, <1>4, <1>5, <1>6, <1>7, <1>9, <1>10, <1>11, <1>12, <1>13

\* tsedge_append hands over points that are nowhere yet.
LEMMA StartAppendCounts ==
  ASSUME GoneInv, NEW r \in Nat, NEW m \in Nat, CountFacts(r, m),
         NEW s \in Series, NEW k \in 1..MaxBatch, StartAppend(s, k)
  PROVE  CountFacts(r, m)'
<1>1. TypeInv /\ CallOK /\ PathOK
  BY DEF GoneInv, PathInv, TypeInv
<1>2. /\ pc = "idle" /\ pc' = "chunk" /\ op' = "append" /\ target' = s
      /\ rest' = [i \in 1..k |-> Len(fate[s]) + i]
      /\ UNCHANGED <<wal, walbuf, blocks, buffer>>
  BY DEF StartAppend, Call, Goto, disk, memory
<1>3. op = "none"
  BY <1>1, <1>2 DEF CallOK
<1>4. \A t \in Series, n \in Nat :
        /\ InWal(t, n)' = InWal(t, n) /\ InWalbuf(t, n)' = InWalbuf(t, n)
        /\ InSegment(t, n)' = InSegment(t, n) /\ InBuffer(t, n)' = InBuffer(t, n)
  BY <1>2, SameCounts
<1>5. Running(r, m)
  BY <1>2, <1>3, RunningNow DEF CountFacts
<1>6. Running(r, m)'
  BY <1>4, <1>5 DEF Running
<1>7. CountsIn(r, m)' /\ OpenEmpty'
  BY <1>2, <1>6, RunningNext
<1>8. k \in Nat /\ Len(fate[s]) \in Nat
  BY <1>1, Typing, StoreAssumption
<1>9. rest' \in Seq(Nat) /\ Len(rest') = k /\ \A i \in 1..k : rest'[i] = Len(fate[s]) + i
  <2>1. \A i \in 1..k : Len(fate[s]) + i \in Nat
    BY <1>8
  <2> QED
    BY <1>2, <1>8, <2>1
<1>10. ASSUME NEW n \in Nat, Copies(rest', n) # 0
       PROVE  Copies(rest', n) = 1 /\ InWal(s, n) = 0 /\ InWalbuf(s, n) = 0 /\ InSegment(s, n) = 0 /\ InBuffer(s, n) = 0
  <2>1. \A i, j \in 1..Len(rest') : rest'[i] = rest'[j] => i = j
    BY <1>8, <1>9
  <2>2. Copies(rest', n) \in Nat /\ Copies(rest', n) <= 1
    BY <1>9, <2>1, CopiesType, CopiesOnce
  <2>3. PICK i \in 1..k : n = Len(fate[s]) + i
    BY <1>9, <1>10, CopiesType
  <2>4. n \notin 1..Len(fate[s])
    BY <1>8, <2>3
  <2>5. n \notin Anywhere(s)
    BY <2>4 DEF GoneInv, Undeleted
  <2>6. n \notin InLog(wal, s) /\ n \notin InLog(walbuf, s) /\ n \notin Range(buffer[s]) /\ n \notin PointsIn(blocks[s])
    BY <2>5 DEF Anywhere, Logged, Held
  <2>7. /\ wal \in Seq(Record) /\ walbuf \in Seq(Record) /\ blocks[s] \in Seq(AnyBlock) /\ buffer[s] \in Seq(Nat)
    BY <1>1, Typing
  <2>8. InWal(s, n) = 0 /\ InWalbuf(s, n) = 0
    BY <2>6, <2>7, LogCopiesType DEF InWal, InWalbuf
  <2>9. InSegment(s, n) = 0
    BY <2>6, <2>7, BlockCopiesType DEF InSegment
  <2>10. InBuffer(s, n) = 0
    <3>1. \A i1 \in 1..Len(buffer[s]) : buffer[s][i1] # n
      BY <2>6, <2>7, RangeMember
    <3> QED
      BY <2>7, <3>1, CopiesType DEF InBuffer
  <2> QED
    BY <1>10, <2>2, <2>8, <2>9, <2>10
<1>11. FreshCounts'
  <2>1. \A t \in Series, n \in Nat : InRest(t, n)' = IF t = s THEN Copies(rest', n) ELSE 0
    BY <1>2 DEF InRest
  <2> QED
    BY <1>4, <1>10, <2>1 DEF FreshCounts
<1>12. RewriteCounts'
  BY <1>2 DEF RewriteCounts
<1> QED
  BY <1>7, <1>11, <1>12 DEF CountFacts

\* The chunk and the tail of the remaining points.
LEMMA ChunkCounts ==
  ASSUME TypeInv, target \in Series
  PROVE  \A s \in Series, n \in Nat :
           InChunk(s, n) \in Nat /\ InTail(s, n) \in Nat /\ InRest(s, n) = InChunk(s, n) + InTail(s, n)
<1>1. rest \in Seq(Nat) /\ ChunkLength \in 0..Len(rest)
  <2>1. ChunkLength \in Nat /\ ChunkLength <= Len(rest) /\ rest \in Seq(Nat)
    BY ChunkFits, Typing DEF TypeInv
  <2> QED
    BY <2>1
<1> DEFINE k == ChunkLength
           a == SubSeq(rest, 1, k)
           b == SubSeq(rest, k + 1, Len(rest))
<1>2. ASSUME NEW n \in Nat
      PROVE  Copies(a, n) \in Nat /\ Copies(b, n) \in Nat /\ Copies(rest, n) = Copies(a, n) + Copies(b, n)
  <2> HIDE DEF k
  <2>1. rest \in Seq(Nat) /\ k \in 0..Len(rest)
    BY <1>1 DEF k
  <2>2. a \in Seq(Nat) /\ b \in Seq(Nat) /\ Copies(rest, n) = Copies(a, n) + Copies(b, n)
    BY <2>1, CopiesSplit
  <2> HIDE DEF a, b
  <2> QED
    BY <2>2, CopiesType
<1> QED
  BY <1>2 DEF InChunk, InTail, InRest

\* The chunk is copied to the WAL buffer.
LEMMA LogCounts ==
  ASSUME PathInv, TypeInv', NEW r \in Nat \ {0}, NEW m \in Nat \ {0}, CountFacts(r, m), Log
  PROVE  CountFacts(r, m)'
<1>1. TypeInv /\ CallOK /\ PathOK
  BY DEF PathInv, TypeInv
<1>2. /\ pc = "log" /\ walbuf' = Append(walbuf, NextRecord) /\ pc' \in {"sync", "place"}
      /\ UNCHANGED <<wal, blocks, buffer, op, target, rest>>
  BY DEF Log, Goto, disk, call
<1>3. op = "append" /\ target \in Series
  BY <1>1, <1>2 DEF CallOK
<1> DEFINE chunk == SubSeq(rest, 1, ChunkLength)
<1>4. walbuf \in Seq(Record) /\ chunk \in Seq(Nat) /\ NextRecord \in Record
      /\ NextRecord.series = target /\ NextRecord.points = chunk
  BY <1>1, <1>3, Typing, ChunkFits, RecordType DEF TypeInv, NextRecord, WalRecord
<1>5. \A s \in Series, n \in Nat : InWalbuf(s, n)' = InWalbuf(s, n) + InChunk(s, n)
  <2> TAKE s \in Series, n \in Nat
  <2> DEFINE x == NextRecord
  <2>1. x \in Record /\ x.series = target /\ x.points = chunk
    BY <1>4
  <2> HIDE DEF x, chunk
  <2>2. LogCopies(Append(walbuf, x), s, n)
           = LogCopies(walbuf, s, n) + (IF x.series = s THEN Copies(x.points, n) ELSE 0)
    BY <1>4, <2>1, LogCopiesAppend
  <2> QED
    BY <1>2, <2>1, <2>2 DEF InWalbuf, InChunk, chunk, x
<1>6. \A s \in Series, n \in Nat :
        /\ InWal(s, n)' = InWal(s, n) /\ InSegment(s, n)' = InSegment(s, n) /\ InBuffer(s, n)' = InBuffer(s, n)
        /\ InRest(s, n)' = InRest(s, n) /\ InTail(s, n)' = InTail(s, n)
  <2>1. ChunkLength' = ChunkLength
    BY <1>2 DEF ChunkLength
  <2> QED
    BY <1>2, <2>1 DEF InWal, InSegment, InBuffer, InRest, InTail
<1>7. \A s \in Series, n \in Nat :
        InChunk(s, n) \in Nat /\ InTail(s, n) \in Nat /\ InRest(s, n) = InChunk(s, n) + InTail(s, n)
  BY <1>1, <1>3, ChunkCounts
<1>8. Running(r, m) /\ FreshCounts
  BY <1>2, <1>3, RunningNow DEF CountFacts
<1>9. \A s \in Series, n \in Nat : InRest(s, n) # 0 =>
        /\ InRest(s, n) = 1 /\ InSegment(s, n) = 0 /\ InBuffer(s, n) = 0
        /\ InWal(s, n) = 0 /\ InWalbuf(s, n) = 0
  BY <1>2, <1>3, <1>8 DEF FreshCounts
<1>10. Running(r, m)'
  <2> SUFFICES ASSUME NEW s \in Series, NEW n \in Nat
               PROVE  /\ InWalbuf(s, n)' <= 1 /\ InBuffer(s, n)' <= r
                      /\ InWal(s, n)' + InWalbuf(s, n)' <= r
                      /\ InSegment(s, n)' + InBuffer(s, n)' <= m
    BY DEF Running
  <2>1. /\ InWalbuf(s, n) <= 1 /\ InBuffer(s, n) <= r
        /\ InWal(s, n) + InWalbuf(s, n) <= r
        /\ InSegment(s, n) + InBuffer(s, n) <= m
    BY <1>8 DEF Running
  <2>2. /\ InWalbuf(s, n)' = InWalbuf(s, n) + InChunk(s, n)
        /\ InWal(s, n)' = InWal(s, n) /\ InSegment(s, n)' = InSegment(s, n) /\ InBuffer(s, n)' = InBuffer(s, n)
        /\ InChunk(s, n) \in Nat /\ InTail(s, n) \in Nat /\ InRest(s, n) = InChunk(s, n) + InTail(s, n)
    BY <1>5, <1>6, <1>7
  <2>3. InRest(s, n) # 0 => InRest(s, n) = 1 /\ InWal(s, n) = 0 /\ InWalbuf(s, n) = 0
    BY <1>9
  <2>4. InWal(s, n) \in Nat /\ InWalbuf(s, n) \in Nat /\ InWalbuf(s, n)' \in Nat
    BY <1>1, TypedCounts, NextTypedCounts DEF CountTypes
  <2>5. CASE InRest(s, n) = 0
    <3>1. InChunk(s, n) = 0
      BY <2>2, <2>5
    <3> QED
      BY <2>1, <2>2, <2>4, <3>1
  <2>6. CASE InRest(s, n) # 0
    <3>1. InChunk(s, n) <= 1
      BY <2>2, <2>3, <2>6
    <3> QED
      BY <2>1, <2>2, <2>3, <2>4, <2>6, <3>1
  <2> QED
    BY <2>5, <2>6
<1>11. CountsIn(r, m)' /\ OpenEmpty'
  <2>1. op' = "append"
    BY <1>2, <1>3
  <2> QED
    BY <1>2, <1>10, <2>1, RunningNext
<1>12. FreshCounts'
  <2> SUFFICES ASSUME NEW s \in Series, NEW n \in Nat, InRest(s, n)' # 0
               PROVE  /\ InRest(s, n)' = 1 /\ InSegment(s, n)' = 0 /\ InBuffer(s, n)' = 0
                      /\ pc' \notin {"sync", "place"} \/ InTail(s, n)' # 0 =>
                           InWal(s, n)' = 0 /\ InWalbuf(s, n)' = 0
    BY DEF FreshCounts
  <2>1. InRest(s, n) = 1 /\ InSegment(s, n) = 0 /\ InBuffer(s, n) = 0 /\ InWal(s, n) = 0 /\ InWalbuf(s, n) = 0
    BY <1>6, <1>9
  <2>2. InTail(s, n) # 0 => InChunk(s, n) = 0
    <3>1. InChunk(s, n) \in Nat /\ InTail(s, n) \in Nat /\ InRest(s, n) = InChunk(s, n) + InTail(s, n)
      BY <1>7
    <3> QED
      BY <2>1, <3>1
  <2>3. /\ InWalbuf(s, n)' = InWalbuf(s, n) + InChunk(s, n)
        /\ InWal(s, n)' = InWal(s, n) /\ InSegment(s, n)' = InSegment(s, n) /\ InBuffer(s, n)' = InBuffer(s, n)
        /\ InRest(s, n)' = InRest(s, n) /\ InTail(s, n)' = InTail(s, n)
    BY <1>5, <1>6
  <2> QED
    BY <1>2, <2>1, <2>2, <2>3
<1>13. RewriteCounts'
  BY <1>2 DEF RewriteCounts
<1> QED
  BY <1>11, <1>12, <1>13 DEF CountFacts

\* The chunk enters the buffer: what each count becomes.
LEMMA TakenCounts ==
  ASSUME TypeInv, target \in Series,
         buffer' = [buffer EXCEPT ![target] = @ \o SubSeq(rest, 1, ChunkLength)],
         rest' = SubSeq(rest, ChunkLength + 1, Len(rest)), target' = target
  PROVE  \A s \in Series, n \in Nat :
           InBuffer(s, n)' = InBuffer(s, n) + InChunk(s, n) /\ InRest(s, n)' = InTail(s, n)
<1> DEFINE chunk == SubSeq(rest, 1, ChunkLength)
<1>1. buffer \in [Series -> Seq(Nat)] /\ chunk \in Seq(Nat)
  BY Typing, ChunkFits DEF TypeInv
<1>2. buffer' = [buffer EXCEPT ![target] = @ \o chunk]
  OBVIOUS
<1> TAKE s \in Series, n \in Nat
<1>3. InRest(s, n)' = InTail(s, n)
  BY DEF InRest, InTail
<1>4. CASE s = target
  <2>1. buffer'[s] = buffer[s] \o chunk
    BY <1>1, <1>2, <1>4
  <2>2. buffer[s] \in Seq(Nat)
    BY <1>1
  <2> HIDE DEF chunk
  <2>3. Copies(buffer[s] \o chunk, n) = Copies(buffer[s], n) + Copies(chunk, n)
    BY <1>1, <2>2, CopiesConcat
  <2> QED
    BY <1>3, <1>4, <2>1, <2>3 DEF InBuffer, InChunk, chunk
<1>5. CASE s # target
  <2>1. buffer'[s] = buffer[s]
    BY <1>1, <1>2, <1>5
  <2>2. InChunk(s, n) = 0 /\ InBuffer(s, n) \in Nat
    BY <1>5, TypedCounts DEF InChunk, CountTypes
  <2> QED
    BY <1>3, <2>1, <2>2 DEF InBuffer
<1> QED
  BY <1>4, <1>5

LEMMA PlaceCounts ==
  ASSUME PathInv, TypeInv', NEW r \in Nat \ {0}, NEW m \in Nat \ {0}, CountFacts(r, m), Place
  PROVE  CountFacts(r, m)'
<1>1. TypeInv /\ CallOK /\ PathOK
  BY DEF PathInv, TypeInv
<1>2. /\ pc = "place" /\ pc' = "chunk"
      /\ buffer' = [buffer EXCEPT ![target] = @ \o SubSeq(rest, 1, ChunkLength)]
      /\ rest' = SubSeq(rest, ChunkLength + 1, Len(rest))
      /\ UNCHANGED <<wal, walbuf, blocks, op, target>>
  BY DEF Place, Goto, disk
<1>3. op = "append" /\ target \in Series
  BY <1>1, <1>2 DEF CallOK
<1>4. \A s \in Series, n \in Nat :
        /\ InBuffer(s, n)' = InBuffer(s, n) + InChunk(s, n) /\ InRest(s, n)' = InTail(s, n)
        /\ InChunk(s, n) \in Nat /\ InTail(s, n) \in Nat /\ InRest(s, n) = InChunk(s, n) + InTail(s, n)
  BY <1>1, <1>2, <1>3, TakenCounts, ChunkCounts
<1>5. \A s \in Series, n \in Nat :
        /\ InWal(s, n)' = InWal(s, n) /\ InWalbuf(s, n)' = InWalbuf(s, n) /\ InSegment(s, n)' = InSegment(s, n)
  BY <1>2 DEF InWal, InWalbuf, InSegment
<1>6. Running(r, m) /\ FreshCounts
  BY <1>2, <1>3, RunningNow DEF CountFacts
<1>7. \A s \in Series, n \in Nat : InRest(s, n) # 0 =>
        /\ InRest(s, n) = 1 /\ InSegment(s, n) = 0 /\ InBuffer(s, n) = 0
        /\ InTail(s, n) # 0 => InWal(s, n) = 0 /\ InWalbuf(s, n) = 0
  BY <1>2, <1>3, <1>6 DEF FreshCounts
<1>8. ASSUME NEW s \in Series, NEW n \in Nat
      PROVE  /\ InWalbuf(s, n)' <= 1 /\ InBuffer(s, n)' <= r
             /\ InWal(s, n)' + InWalbuf(s, n)' <= r
             /\ InSegment(s, n)' + InBuffer(s, n)' <= m
             /\ InRest(s, n)' # 0 => /\ InRest(s, n)' = 1 /\ InSegment(s, n)' = 0 /\ InBuffer(s, n)' = 0
                                     /\ InWal(s, n)' = 0 /\ InWalbuf(s, n)' = 0
  <2>1. /\ InWalbuf(s, n) <= 1 /\ InBuffer(s, n) <= r
        /\ InWal(s, n) + InWalbuf(s, n) <= r
        /\ InSegment(s, n) + InBuffer(s, n) <= m
    BY <1>6 DEF Running
  <2>2. /\ InBuffer(s, n)' = InBuffer(s, n) + InChunk(s, n) /\ InRest(s, n)' = InTail(s, n)
        /\ InChunk(s, n) \in Nat /\ InTail(s, n) \in Nat /\ InRest(s, n) = InChunk(s, n) + InTail(s, n)
        /\ InWal(s, n)' = InWal(s, n) /\ InWalbuf(s, n)' = InWalbuf(s, n) /\ InSegment(s, n)' = InSegment(s, n)
    BY <1>4, <1>5
  <2>3. InRest(s, n) # 0 =>
        /\ InRest(s, n) = 1 /\ InSegment(s, n) = 0 /\ InBuffer(s, n) = 0
        /\ InTail(s, n) # 0 => InWal(s, n) = 0 /\ InWalbuf(s, n) = 0
    BY <1>7
  <2>4. InSegment(s, n) \in Nat /\ InBuffer(s, n) \in Nat
    BY <1>1, TypedCounts DEF CountTypes
  <2>5. CASE InRest(s, n) = 0
    <3>1. InChunk(s, n) = 0 /\ InTail(s, n) = 0
      BY <2>2, <2>5
    <3> QED
      BY <2>1, <2>2, <2>4, <3>1
  <2>6. CASE InRest(s, n) # 0
    <3>1. InChunk(s, n) <= 1 /\ (InTail(s, n) # 0 => InTail(s, n) = 1 /\ InChunk(s, n) = 0)
      BY <2>2, <2>3, <2>6
    <3> QED
      BY <2>1, <2>2, <2>3, <2>4, <2>6, <3>1
  <2> QED
    BY <2>5, <2>6
<1>9. Running(r, m)'
  BY <1>8 DEF Running
<1>10. CountsIn(r, m)' /\ OpenEmpty'
  <2>1. op' = "append"
    BY <1>2, <1>3
  <2> QED
    BY <1>2, <1>9, <2>1, RunningNext
<1>11. FreshCounts'
  BY <1>8 DEF FreshCounts
<1>12. RewriteCounts'
  BY <1>2 DEF RewriteCounts
<1> QED
  BY <1>10, <1>11, <1>12 DEF CountFacts

\* The WAL buffer goes to the end of wal.log; during a replay it is empty.
LEMMA WalFlushCounts ==
  ASSUME PathInv, TypeInv', NEW r \in Nat \ {0}, NEW m \in Nat \ {0}, CountFacts(r, m), WalFlush
  PROVE  CountFacts(r, m)'
<1>1. TypeInv /\ CallOK /\ PathOK
  BY DEF PathInv, TypeInv
<1>2. /\ pc \in {"spill", "sync", "seal", "switch"} /\ wal' = wal \o walbuf /\ walbuf' = <<>>
      /\ UNCHANGED <<blocks, buffer>>
  BY DEF WalFlush, AfterWalFlush
<1>3. \/ pc = "switch" /\ op # "open" /\ pc' = "idle" /\ op' = "none"
      \/ /\ pc' \in {"log", "place", "block"} /\ (pc' = "place" <=> pc = "sync")
         /\ (pc = "seal" => pc' = "block")
         /\ UNCHANGED <<op, target, rest, cursor>>
  BY <1>1, <1>2 DEF WalFlush, Return, CallOK, Modes, AfterWalFlush, Goto, call
<1>4. \A s \in Series, n \in Nat :
        /\ InWal(s, n)' = InWal(s, n) + InWalbuf(s, n) /\ InWalbuf(s, n)' = 0
        /\ InSegment(s, n)' = InSegment(s, n) /\ InBuffer(s, n)' = InBuffer(s, n)
  <2> TAKE s \in Series, n \in Nat
  <2>1. wal \in Seq(Record) /\ walbuf \in Seq(Record)
    BY <1>1, Typing
  <2>2. LogCopies(wal \o walbuf, s, n) = LogCopies(wal, s, n) + LogCopies(walbuf, s, n)
    BY <2>1, LogCopiesConcat
  <2> QED
    BY <1>2, <2>2, LogCopiesEmpty DEF InWal, InWalbuf, InSegment, InBuffer
<1>5. OpenEmpty' /\ RewriteCounts'
  <2>1. walbuf' = <<>> /\ pc' # "rewrite"
    BY <1>2, <1>3
  <2> QED
    BY <2>1 DEF OpenEmpty, RewriteCounts
<1>6. CASE op = "open"
  <2>1. pc # "broken" /\ pc # "closed" /\ op' = "open" /\ pc' = "block" /\ UNCHANGED <<target, rest, cursor>>
    BY <1>1, <1>2, <1>3, <1>6 DEF PathOK
  <2>2. walbuf = <<>> /\ wal \in Seq(Record)
    BY <1>1, <1>6, Typing DEF CountFacts, OpenEmpty
  <2>3. wal' = wal
    BY <1>2, <2>2, ConcatEmptySeq
  <2>4. Replaying(r, m)
    BY <1>6, <2>1 DEF CountFacts, CountsIn
  <2>5. \A s \in Series, n \in Nat :
          /\ InWal(s, n)' = InWal(s, n) /\ InRest(s, n)' = InRest(s, n) /\ ToReplay(s, n)' = ToReplay(s, n)
    BY <2>1, <2>3 DEF InWal, InRest, ToReplay
  <2>6. Replaying(r, m)'
    <3>1. WalCorrupt(wal') = WalCorrupt(wal)
      BY <2>3
    <3> QED
      BY <1>4, <2>4, <2>5, <3>1 DEF Replaying
  <2>7. CountsIn(r, m)' /\ FreshCounts'
    BY <2>1, <2>6 DEF CountsIn, FreshCounts
  <2> QED
    BY <1>5, <2>7 DEF CountFacts
<1>7. CASE op # "open"
  <2>1. Running(r, m)
    BY <1>2, <1>7, RunningNow DEF CountFacts
  <2>2. \A s \in Series, n \in Nat : InWal(s, n) \in Nat /\ InWalbuf(s, n) \in Nat
    BY <1>1, TypedCounts DEF CountTypes
  <2>3. Running(r, m)'
    BY <1>4, <2>1, <2>2 DEF Running
  <2>4. CountsIn(r, m)'
    BY <1>3, <1>7, <2>3, RunningNext
  <2>5. CASE op' # "append"
    BY <1>5, <2>4, <2>5 DEF FreshCounts, CountFacts
  <2>6. CASE op' = "append"
    <3>1. /\ op = "append" /\ UNCHANGED <<target, rest>> /\ pc # "broken"
          /\ (pc' = "place" <=> pc = "sync") /\ pc' \in {"log", "place", "block"} /\ pc # "place"
      BY <1>2, <1>3, <2>6
    <3>2. ChunkLength' = ChunkLength
      BY <1>2, <3>1 DEF ChunkLength
    <3>3. \A s \in Series, n \in Nat : InRest(s, n)' = InRest(s, n) /\ InTail(s, n)' = InTail(s, n)
      BY <3>1, <3>2 DEF InRest, InTail
    <3> SUFFICES ASSUME NEW s \in Series, NEW n \in Nat, InRest(s, n)' # 0
                 PROVE  /\ InRest(s, n)' = 1 /\ InSegment(s, n)' = 0 /\ InBuffer(s, n)' = 0
                        /\ pc' \notin {"sync", "place"} \/ InTail(s, n)' # 0 =>
                             InWal(s, n)' = 0 /\ InWalbuf(s, n)' = 0
      BY <1>5, <2>4 DEF FreshCounts, CountFacts
    <3>4. /\ InRest(s, n) = 1 /\ InSegment(s, n) = 0 /\ InBuffer(s, n) = 0
          /\ pc \notin {"sync", "place"} \/ InTail(s, n) # 0 => InWal(s, n) = 0 /\ InWalbuf(s, n) = 0
      BY <3>1, <3>3 DEF CountFacts, FreshCounts
    <3> QED
      BY <1>4, <3>1, <3>3, <3>4
  <2> QED
    BY <2>5, <2>6
<1> QED
  BY <1>6, <1>7

\* The block of a buffer is whole.
LEMMA BlockCounts ==
  ASSUME PathInv, AppendBlock
  PROVE  \A s \in Series, n \in Nat :
           /\ InSegment(s, n) \in Nat /\ InBuffer(s, n) \in Nat
           /\ InSegment(s, n)' + InBuffer(s, n)' = InSegment(s, n) + InBuffer(s, n)
           /\ InSegment(s, n)' \in Nat /\ InBuffer(s, n)' <= InBuffer(s, n)
<1>1. TypeInv /\ PathOK
  BY DEF PathInv
<1>2. pc = "block"
  BY DEF AppendBlock
<1> DEFINE f == Flushed
           b == Block(buffer[f])
<1>3. f \in Series
  BY <1>2, FlushedSeries
<1>4. blocks' = [blocks EXCEPT ![f] = Append(@, b)] /\ buffer' = [buffer EXCEPT ![f] = <<>>]
  BY DEF AppendBlock
<1>5. blocks \in [Series -> Seq(AnyBlock)] /\ buffer \in [Series -> Seq(Nat)]
  BY <1>1, Typing
<1>6. b \in AnyBlock /\ IsWhole(b) /\ b.points = buffer[f]
  BY <1>3, <1>5, BlockType, NewItemsAreWhole DEF Block
<1> HIDE DEF b, f
<1> TAKE s \in Series, n \in Nat
<1>7. InSegment(s, n) \in Nat /\ InBuffer(s, n) \in Nat
  BY <1>1, TypedCounts DEF CountTypes
<1>8. CASE s = f
  <2>1. blocks'[s] = Append(blocks[s], b) /\ buffer'[s] = <<>> /\ blocks[s] \in Seq(AnyBlock)
    BY <1>3, <1>4, <1>5, <1>8
  <2>2. BlockCopies(Append(blocks[s], b), n) = BlockCopies(blocks[s], n) + Copies(b.points, n)
    BY <1>6, <2>1, BlockCopiesAppend
  <2>3. InSegment(s, n)' = InSegment(s, n) + InBuffer(s, n)
    BY <1>6, <1>8, <2>1, <2>2 DEF InSegment, InBuffer
  <2>4. InBuffer(s, n)' = 0
    BY <2>1, CopiesEmpty DEF InBuffer
  <2> QED
    BY <1>7, <2>3, <2>4
<1>9. CASE s # f
  <2>1. blocks'[s] = blocks[s] /\ buffer'[s] = buffer[s]
    BY <1>3, <1>4, <1>5, <1>9
  <2>2. InSegment(s, n)' = InSegment(s, n) /\ InBuffer(s, n)' = InBuffer(s, n)
    BY <2>1 DEF InSegment, InBuffer
  <2> QED
    BY <1>7, <2>2
<1> QED
  BY <1>8, <1>9

LEMMA AppendBlockCounts ==
  ASSUME PathInv, TypeInv', NEW r \in Nat \ {0}, NEW m \in Nat \ {0}, CountFacts(r, m), AppendBlock
  PROVE  CountFacts(r, m)'
<1>1. TypeInv /\ PathOK
  BY DEF PathInv
<1>2. /\ pc = "block" /\ pc' \in {"truncate", "replay", "next"}
      /\ op \in {"append", "flush"} => pc' = "truncate"
      /\ UNCHANGED <<wal, walbuf, op, target, rest, cursor>>
  <2>1. pc' = CASE op \in {"append", "flush"} -> "truncate"
                [] op = "open" -> "replay"
                [] OTHER -> "next"
    BY DEF AppendBlock, Goto
  <2>2. /\ pc = "block" /\ UNCHANGED <<wal, walbuf, op, target, rest, cursor>>
    BY DEF AppendBlock, call
  <2>3. CASE op \in {"append", "flush"}
    BY <2>1, <2>2, <2>3
  <2>4. CASE op = "open"
    BY <2>1, <2>2, <2>4
  <2>5. CASE op \notin {"append", "flush", "open"}
    BY <2>1, <2>2, <2>5
  <2> QED
    BY <2>3, <2>4, <2>5
<1>3. \A s \in Series, n \in Nat :
        /\ InSegment(s, n) \in Nat /\ InBuffer(s, n) \in Nat
        /\ InSegment(s, n)' + InBuffer(s, n)' = InSegment(s, n) + InBuffer(s, n)
        /\ InSegment(s, n)' \in Nat /\ InBuffer(s, n)' <= InBuffer(s, n)
        /\ InBuffer(s, n)' \in Nat
  BY BlockCounts, NextTypedCounts DEF CountTypes
<1>4. \A s \in Series, n \in Nat :
        /\ InWal(s, n)' = InWal(s, n) /\ InWalbuf(s, n)' = InWalbuf(s, n)
        /\ InRest(s, n)' = InRest(s, n) /\ ToReplay(s, n)' = ToReplay(s, n)
        /\ InRest(s, n) \in Nat /\ ToReplay(s, n) \in Nat
  BY <1>1, <1>2, TypedCounts DEF InWal, InWalbuf, InRest, ToReplay, CountTypes
<1>5. OpenEmpty' /\ RewriteCounts'
  BY <1>2 DEF OpenEmpty, RewriteCounts, CountFacts
<1>6. FreshCounts'
  <2> SUFFICES ASSUME op = "append", NEW s \in Series, NEW n \in Nat, InRest(s, n)' # 0
               PROVE  /\ InRest(s, n)' = 1 /\ InSegment(s, n)' = 0 /\ InBuffer(s, n)' = 0
                      /\ InWal(s, n)' = 0 /\ InWalbuf(s, n)' = 0
    BY <1>2 DEF FreshCounts
  <2>1. /\ InRest(s, n) = 1 /\ InSegment(s, n) = 0 /\ InBuffer(s, n) = 0
        /\ InWal(s, n) = 0 /\ InWalbuf(s, n) = 0
    BY <1>2, <1>4 DEF CountFacts, FreshCounts
  <2>2. InSegment(s, n)' + InBuffer(s, n)' = 0 /\ InSegment(s, n)' \in Nat /\ InBuffer(s, n)' \in Nat
    BY <1>3, <2>1
  <2>3. InSegment(s, n)' = 0 /\ InBuffer(s, n)' = 0
    BY <2>2
  <2> QED
    BY <1>4, <2>1, <2>3
<1>7. CASE op = "open"
  <2>1. Replaying(r, m)
    BY <1>2, <1>7 DEF CountFacts, CountsIn
  <2>2. Replaying(r, m)'
    <3> SUFFICES ASSUME NEW s \in Series, NEW n \in Nat
                 PROVE  /\ InWal(s, n)' <= r
                        /\ InBuffer(s, n)' + InRest(s, n)' + ToReplay(s, n)' <= r
                        /\ WalCorrupt(wal') \/
                             InSegment(s, n)' + InBuffer(s, n)' + InRest(s, n)' + ToReplay(s, n)' <= m
      BY DEF Replaying
    <3>1. /\ InWal(s, n) <= r
          /\ InBuffer(s, n) + InRest(s, n) + ToReplay(s, n) <= r
          /\ WalCorrupt(wal) \/ InSegment(s, n) + InBuffer(s, n) + InRest(s, n) + ToReplay(s, n) <= m
      BY <2>1 DEF Replaying
    <3>2. WalCorrupt(wal') = WalCorrupt(wal)
      BY <1>2
    <3>3. InBuffer(s, n)' + InRest(s, n)' + ToReplay(s, n)' <= r
      BY <1>3, <1>4, <3>1
    <3>4. InSegment(s, n)' + InBuffer(s, n)' + InRest(s, n)' + ToReplay(s, n)'
            = InSegment(s, n) + InBuffer(s, n) + InRest(s, n) + ToReplay(s, n)
      BY <1>3, <1>4
    <3> QED
      BY <1>4, <3>1, <3>2, <3>3, <3>4
  <2>3. CountsIn(r, m)'
    BY <1>2, <1>7, <2>2 DEF CountsIn
  <2> QED
    BY <1>5, <1>6, <2>3 DEF CountFacts
<1>8. CASE op # "open"
  <2>1. Running(r, m)
    BY <1>2, <1>8, RunningNow DEF CountFacts
  <2>2. Running(r, m)'
    <3> SUFFICES ASSUME NEW s \in Series, NEW n \in Nat
                 PROVE  /\ InWalbuf(s, n)' <= 1 /\ InBuffer(s, n)' <= r
                        /\ InWal(s, n)' + InWalbuf(s, n)' <= r
                        /\ InSegment(s, n)' + InBuffer(s, n)' <= m
      BY DEF Running
    <3>1. /\ InWalbuf(s, n) <= 1 /\ InBuffer(s, n) <= r
          /\ InWal(s, n) + InWalbuf(s, n) <= r
          /\ InSegment(s, n) + InBuffer(s, n) <= m
      BY <2>1 DEF Running
    <3>2. InBuffer(s, n)' <= r
      BY <1>3, <3>1
    <3> QED
      BY <1>3, <1>4, <3>1, <3>2
  <2>3. CountsIn(r, m)'
    BY <1>2, <1>8, <2>2, RunningNext
  <2> QED
    BY <1>5, <1>6, <2>3 DEF CountFacts
<1> QED
  BY <1>7, <1>8

\* wal.log starts anew.
LEMMA TruncateWalCounts ==
  ASSUME PathInv, TypeInv', NEW r \in Nat \ {0}, NEW m \in Nat \ {0}, CountFacts(r, m), TruncateWal
  PROVE  CountFacts(r, m)'
<1>1. TypeInv /\ PathOK
  BY DEF PathInv
<1>2. /\ pc = "truncate" /\ pc' = "rewrite" /\ wal' = <<>> /\ walbuf' = <<>>
      /\ UNCHANGED <<blocks, buffer, op, target, rest>>
  BY DEF TruncateWal, Goto
<1>3. op # "open"
  BY <1>1, <1>2 DEF PathOK, Bulk
<1>4. \A s \in Series, n \in Nat :
        /\ InWal(s, n)' = 0 /\ InWalbuf(s, n)' = 0 /\ InRest(s, n)' = InRest(s, n)
        /\ InSegment(s, n)' = InSegment(s, n) /\ InBuffer(s, n)' = InBuffer(s, n)
  BY <1>2, LogCopiesEmpty DEF InWal, InWalbuf, InRest, InSegment, InBuffer
<1>5. \A s \in Series, n \in Nat : InBuffer(s, n) \in Nat
  BY <1>1, TypedCounts DEF CountTypes
<1>6. Running(r, m)
  BY <1>2, <1>3, RunningNow DEF CountFacts
<1>7. Running(r, m)'
  BY <1>4, <1>6 DEF Running
<1>8. CountsIn(r, m)' /\ OpenEmpty'
  BY <1>2, <1>3, <1>7, RunningNext
<1>9. FreshCounts'
  <2> SUFFICES ASSUME op = "append", NEW s \in Series, NEW n \in Nat, InRest(s, n)' # 0
               PROVE  /\ InRest(s, n)' = 1 /\ InSegment(s, n)' = 0 /\ InBuffer(s, n)' = 0
                      /\ InWal(s, n)' = 0 /\ InWalbuf(s, n)' = 0
    BY <1>2 DEF FreshCounts
  <2>1. InRest(s, n) = 1 /\ InSegment(s, n) = 0 /\ InBuffer(s, n) = 0
    BY <1>2, <1>4 DEF CountFacts, FreshCounts
  <2> QED
    BY <1>4, <2>1
<1>10. RewriteCounts'
  <2>1. \A s \in Series, n \in Nat : InWal(s, n)' <= InBuffer(s, n)'
    BY <1>4, <1>5
  <2> QED
    BY <1>2, <1>4, <2>1 DEF RewriteCounts
<1> QED
  BY <1>8, <1>9, <1>10 DEF CountFacts

\* The record of one buffer goes to the new wal.log: what each count becomes.
LEMMA RewrittenCounts ==
  ASSUME TypeInv, cursor \in 1..Len(registry),
         wal' = LET s == registry[cursor]
                IN  IF buffer[s] = <<>> THEN wal ELSE Append(wal, WalRecord(s, buffer[s]))
  PROVE  \A s \in Series, n \in Nat :
           InWal(s, n)' = InWal(s, n) + (IF s = registry[cursor] THEN InBuffer(s, n) ELSE 0)
<1> DEFINE f == registry[cursor]
           x == WalRecord(f, buffer[f])
<1>1. wal \in Seq(Record) /\ buffer \in [Series -> Seq(Nat)] /\ f \in Series
  BY Typing, ElementOfSeq
<1>2. x \in Record /\ x.series = f /\ x.points = buffer[f]
  BY <1>1, RecordType DEF WalRecord
<1>3. wal' = IF buffer[f] = <<>> THEN wal ELSE Append(wal, x)
  OBVIOUS
<1> HIDE DEF f, x
<1> SUFFICES ASSUME NEW s \in Series, NEW n \in Nat
             PROVE  InWal(s, n)' = InWal(s, n) + (IF s = f THEN InBuffer(s, n) ELSE 0)
  BY DEF f
<1>4. InWal(s, n) \in Nat
  BY TypedCounts DEF CountTypes
<1>5. CASE buffer[f] = <<>>
  <2>1. InWal(s, n)' = InWal(s, n)
    BY <1>3, <1>5 DEF InWal
  <2>2. s = f => InBuffer(s, n) = 0
    BY <1>5, CopiesEmpty DEF InBuffer
  <2> QED
    BY <1>4, <2>1, <2>2
<1>6. CASE buffer[f] # <<>>
  <2>1. wal' = Append(wal, x)
    BY <1>3, <1>6
  <2>2. LogCopies(Append(wal, x), s, n)
          = LogCopies(wal, s, n) + (IF x.series = s THEN Copies(x.points, n) ELSE 0)
    BY <1>1, <1>2, LogCopiesAppend
  <2>3. s = f => InBuffer(s, n) = Copies(x.points, n)
    BY <1>2 DEF InBuffer
  <2> QED
    BY <1>2, <2>1, <2>2, <2>3 DEF InWal
<1> QED
  BY <1>5, <1>6

LEMMA RewriteWalCounts ==
  ASSUME PathInv, TypeInv', Distinct, NEW r \in Nat \ {0}, NEW m \in Nat \ {0}, CountFacts(r, m), RewriteWal
  PROVE  CountFacts(r, m)'
<1>1. TypeInv /\ PathOK /\ registry \in Seq(Series) /\ cursor \in Nat \ {0}
  BY Typing DEF PathInv
<1>2. /\ pc = "rewrite" /\ pc' = "rewrite" /\ cursor <= Len(registry) /\ cursor' = cursor + 1
      /\ UNCHANGED <<blocks, buffer, walbuf, registry, op, target, rest>>
      /\ wal' = LET s == registry[cursor]
                IN  IF buffer[s] = <<>> THEN wal ELSE Append(wal, WalRecord(s, buffer[s]))
  BY DEF RewriteWal, memory
<1>3. op # "open"
  BY <1>1, <1>2 DEF PathOK, Bulk
<1>4. cursor \in 1..Len(registry)
  BY <1>1, <1>2
<1>5. \A s \in Series, n \in Nat :
        InWal(s, n)' = InWal(s, n) + (IF s = registry[cursor] THEN InBuffer(s, n) ELSE 0)
  BY <1>1, <1>2, <1>4, RewrittenCounts
<1>6. \A s \in Series, n \in Nat :
        /\ InWalbuf(s, n)' = InWalbuf(s, n) /\ InRest(s, n)' = InRest(s, n)
        /\ InSegment(s, n)' = InSegment(s, n) /\ InBuffer(s, n)' = InBuffer(s, n)
  BY <1>2 DEF InWalbuf, InRest, InSegment, InBuffer
<1>7. \A s \in Series, n \in Nat : InWal(s, n) \in Nat /\ InBuffer(s, n) \in Nat
  BY <1>1, TypedCounts DEF CountTypes
<1>8. /\ walbuf = <<>>
      /\ \A s \in Series, n \in Nat :
           /\ InWal(s, n) <= InBuffer(s, n)
           /\ (\E j \in 1..Len(registry) : j >= cursor /\ registry[j] = s) => InWal(s, n) = 0
  BY <1>2 DEF CountFacts, RewriteCounts
<1>9. \A n \in Nat : InWal(registry[cursor], n) = 0
  <2>1. registry[cursor] \in Series /\ cursor >= cursor
    BY <1>1, <1>4, ElementOfSeq
  <2> QED
    BY <1>4, <1>8, <2>1
<1>10. \A s \in Series, n \in Nat : InWal(s, n)' <= InBuffer(s, n)' /\ InWalbuf(s, n)' = 0
  <2> TAKE s \in Series, n \in Nat
  <2>1. InWalbuf(s, n)' = 0
    BY <1>2, <1>8, LogCopiesEmpty DEF InWalbuf
  <2>2. InWal(s, n)' = InWal(s, n) + (IF s = registry[cursor] THEN InBuffer(s, n) ELSE 0)
    BY <1>5
  <2>3. CASE s = registry[cursor]
    <3>1. InWal(s, n) = 0
      BY <1>9, <2>3
    <3> QED
      BY <1>6, <1>7, <2>1, <2>2, <2>3, <3>1
  <2>4. CASE s # registry[cursor]
    <3>1. InWal(s, n) <= InBuffer(s, n)
      BY <1>8
    <3> QED
      BY <1>6, <1>7, <2>1, <2>2, <2>4, <3>1
  <2> QED
    BY <2>3, <2>4
<1>11. RewriteCounts'
  <2> SUFFICES ASSUME NEW s \in Series, NEW n \in Nat, NEW j \in 1..Len(registry), j >= cursor + 1, registry[j] = s
               PROVE  InWal(s, n)' = 0
    BY <1>2, <1>8, <1>10 DEF RewriteCounts
  <2>1. registry[j] # registry[cursor] /\ j >= cursor
    BY <1>4 DEF Distinct
  <2>2. InWal(s, n) = 0
    BY <1>8, <2>1
  <2> QED
    BY <1>5, <2>1, <2>2
<1>12. Running(r, m)
  BY <1>2, <1>3, RunningNow DEF CountFacts
<1>13. Running(r, m)'
  <2> SUFFICES ASSUME NEW s \in Series, NEW n \in Nat
               PROVE  /\ InWalbuf(s, n)' <= 1 /\ InBuffer(s, n)' <= r
                      /\ InWal(s, n)' + InWalbuf(s, n)' <= r
                      /\ InSegment(s, n)' + InBuffer(s, n)' <= m
    BY DEF Running
  <2>1. InBuffer(s, n) <= r /\ InSegment(s, n) + InBuffer(s, n) <= m
    BY <1>12 DEF Running
  <2>2. InWal(s, n)' <= InBuffer(s, n)' /\ InWalbuf(s, n)' = 0 /\ InWal(s, n)' \in Nat
    BY <1>10, NextTypedCounts DEF CountTypes
  <2> QED
    BY <1>6, <1>7, <2>1, <2>2
<1>14. CountsIn(r, m)' /\ OpenEmpty'
  BY <1>2, <1>3, <1>13, RunningNext
<1>15. FreshCounts'
  <2> SUFFICES ASSUME op = "append", NEW s \in Series, NEW n \in Nat, InRest(s, n)' # 0
               PROVE  /\ InRest(s, n)' = 1 /\ InSegment(s, n)' = 0 /\ InBuffer(s, n)' = 0
                      /\ InWal(s, n)' = 0 /\ InWalbuf(s, n)' = 0
    BY <1>2 DEF FreshCounts
  <2>1. InRest(s, n) = 1 /\ InSegment(s, n) = 0 /\ InBuffer(s, n) = 0
    BY <1>2, <1>6 DEF CountFacts, FreshCounts
  <2>2. InWal(s, n)' <= InBuffer(s, n)' /\ InWalbuf(s, n)' = 0 /\ InWal(s, n)' \in Nat
    BY <1>10, NextTypedCounts DEF CountTypes
  <2> QED
    BY <1>6, <2>1, <2>2
<1> QED
  BY <1>11, <1>14, <1>15 DEF CountFacts

\* The segment file of a deleted series goes.
LEMMA UnlinkSegmentCounts ==
  ASSUME PathInv, TypeInv', NEW r \in Nat \ {0}, NEW m \in Nat \ {0}, CountFacts(r, m), UnlinkSegment
  PROVE  CountFacts(r, m)'
<1>1. TypeInv /\ PathOK
  BY DEF PathInv
<1>2. /\ pc = "unlink" /\ pc' = "rmdir" /\ blocks' = [blocks EXCEPT ![target] = <<>>]
      /\ UNCHANGED <<wal, walbuf, buffer, op>>
  BY DEF UnlinkSegment, Goto, memory, call
<1>3. op = "delete" /\ blocks \in [Series -> Seq(AnyBlock)]
  BY <1>1, <1>2, Typing DEF PathOK
<1>4. \A s \in Series, n \in Nat :
        /\ InWal(s, n)' = InWal(s, n) /\ InWalbuf(s, n)' = InWalbuf(s, n) /\ InBuffer(s, n)' = InBuffer(s, n)
  BY <1>2 DEF InWal, InWalbuf, InBuffer
<1>5. ASSUME NEW s \in Series, NEW n \in Nat
      PROVE  InSegment(s, n)' = 0 \/ InSegment(s, n)' = InSegment(s, n)
  <2>1. blocks'[s] = <<>> \/ blocks'[s] = blocks[s]
    BY <1>2, <1>3
  <2> QED
    BY <2>1, BlockCopiesEmpty DEF InSegment
<1>6. Running(r, m)
  BY <1>2, <1>3, RunningNow DEF CountFacts
<1>7. Running(r, m)'
  <2> SUFFICES ASSUME NEW s \in Series, NEW n \in Nat
               PROVE  /\ InWalbuf(s, n)' <= 1 /\ InBuffer(s, n)' <= r
                      /\ InWal(s, n)' + InWalbuf(s, n)' <= r
                      /\ InSegment(s, n)' + InBuffer(s, n)' <= m
    BY DEF Running
  <2>1. /\ InWalbuf(s, n) <= 1 /\ InBuffer(s, n) <= r
        /\ InWal(s, n) + InWalbuf(s, n) <= r
        /\ InSegment(s, n) + InBuffer(s, n) <= m
    BY <1>6 DEF Running
  <2>2. InSegment(s, n) \in Nat /\ InBuffer(s, n) \in Nat
    BY <1>1, TypedCounts DEF CountTypes
  <2>3. InSegment(s, n)' = 0 \/ InSegment(s, n)' = InSegment(s, n)
    BY <1>5
  <2> QED
    BY <1>4, <2>1, <2>2, <2>3
<1>8. CountsIn(r, m)' /\ OpenEmpty'
  BY <1>2, <1>3, <1>7, RunningNext
<1>9. FreshCounts' /\ RewriteCounts'
  BY <1>2, <1>3 DEF FreshCounts, RewriteCounts
<1> QED
  BY <1>8, <1>9 DEF CountFacts

\* Part of a run of records after wal.log.
LEMMA PartCounts ==
  ASSUME TypeInv, NEW items \in Seq(Record), NEW part \in PartialWrites(items), wal' = wal \o part
  PROVE  \A s \in Series, n \in Nat : InWal(s, n)' <= InWal(s, n) + LogCopies(items, s, n)
<1> TAKE s \in Series, n \in Nat
<1>1. part \in Seq(Record) /\ LogCopies(part, s, n) <= LogCopies(items, s, n)
  BY LogCopiesPart
<1>2. wal \in Seq(Record)
  BY Typing
<1>3. LogCopies(wal \o part, s, n) = LogCopies(wal, s, n) + LogCopies(part, s, n)
  BY <1>1, <1>2, LogCopiesConcat
<1>4. LogCopies(wal, s, n) \in Nat /\ LogCopies(part, s, n) \in Nat /\ LogCopies(items, s, n) \in Nat
  BY <1>1, <1>2, LogCopiesType
<1> QED
  BY <1>1, <1>3, <1>4 DEF InWal

\* A write that stops half-way adds no copy that the whole write would not add.
LEMMA PartialWriteCounts ==
  ASSUME PathInv, NEW r \in Nat \ {0}, NEW m \in Nat \ {0}, CountFacts(r, m), PartialWrite
  PROVE  CountFacts(r, m)'
<1>1. TypeInv /\ PathOK
  BY DEF PathInv
<1>2. TornWrites /\ pc' = "broken" /\ UNCHANGED <<buffer, walbuf, op>>
  BY DEF PartialWrite, Goto, memory, call
<1>3. \A s \in Series, n \in Nat :
        /\ InWal(s, n) \in Nat /\ InWalbuf(s, n) \in Nat /\ InSegment(s, n) \in Nat
        /\ InBuffer(s, n) \in Nat /\ InRest(s, n) \in Nat /\ ToReplay(s, n) \in Nat
  BY <1>1, TypedCounts DEF CountTypes
<1>4. \A s \in Series, n \in Nat : InWalbuf(s, n)' = InWalbuf(s, n) /\ InBuffer(s, n)' = InBuffer(s, n)
  BY <1>2 DEF InWalbuf, InBuffer
<1>5. ASSUME Stopped(r, m)' PROVE CountFacts(r, m)'
  <2>1. CountsIn(r, m)' /\ FreshCounts' /\ RewriteCounts'
    BY <1>2, <1>5 DEF CountsIn, FreshCounts, RewriteCounts
  <2>2. OpenEmpty'
    BY <1>2 DEF OpenEmpty, CountFacts
  <2> QED
    BY <2>1, <2>2 DEF CountFacts
<1>6. CASE /\ pc \in DOMAIN AfterWalFlush \union {"switch"} /\ walbuf # <<>>
           /\ \E part \in PartialWrites(walbuf) : wal' = wal \o part
           /\ UNCHANGED blocks
  <2>1. op # "open" /\ pc \notin {"closed", "broken"}
    BY <1>6 DEF CountFacts, OpenEmpty, AfterWalFlush
  <2>2. Running(r, m)
    BY <2>1, RunningNow DEF CountFacts
  <2>3. PICK part \in PartialWrites(walbuf) : wal' = wal \o part
    BY <1>6
  <2>4. walbuf \in Seq(Record)
    BY <1>1, Typing
  <2>5. \A s \in Series, n \in Nat : InWal(s, n)' <= InWal(s, n) + InWalbuf(s, n)
    BY <1>1, <2>3, <2>4, PartCounts DEF InWalbuf
  <2>6. \A s \in Series, n \in Nat : InSegment(s, n)' = InSegment(s, n)
    BY <1>6 DEF InSegment
  <2>7. ASSUME NEW s \in Series, NEW n \in Nat
        PROVE  /\ InWalbuf(s, n)' <= 1 /\ InBuffer(s, n)' <= r /\ InWal(s, n)' <= r
               /\ InSegment(s, n)' <= m /\ InSegment(s, n)' + InBuffer(s, n)' <= m
    <3>1. /\ InWalbuf(s, n) <= 1 /\ InBuffer(s, n) <= r
          /\ InWal(s, n) + InWalbuf(s, n) <= r
          /\ InSegment(s, n) + InBuffer(s, n) <= m
      BY <2>2 DEF Running
    <3>2. wal' \in Seq(Record)
      <4>1. wal \in Seq(Record) /\ part \in Seq(Record)
        BY <1>1, <2>4, Typing, PartialRecords
      <4> QED
        BY <2>3, <4>1
    <3>3. InWal(s, n)' \in Nat
      BY <3>2, LogCopiesType DEF InWal
    <3>4. InWal(s, n)' <= InWal(s, n) + InWalbuf(s, n)
      BY <2>5
    <3>5. InWal(s, n)' <= r /\ InSegment(s, n) <= m
      BY <1>3, <3>1, <3>3, <3>4
    <3> QED
      BY <1>4, <2>6, <3>1, <3>5
  <2>8. Stopped(r, m)'
    BY <1>2, <2>7 DEF Stopped
  <2> QED
    BY <1>5, <2>8
<1>7. CASE /\ pc = "block"
           /\ \E part \in PartialWrites(<<Block(buffer[Flushed])>>) :
                blocks' = [blocks EXCEPT ![Flushed] = @ \o part]
           /\ UNCHANGED wal
  <2> DEFINE f == Flushed
  <2>1. PICK part \in PartialWrites(<<Block(buffer[f])>>) : blocks' = [blocks EXCEPT ![f] = @ \o part]
    BY <1>7
  <2>2. f \in Series /\ blocks \in [Series -> Seq(AnyBlock)] /\ buffer \in [Series -> Seq(Nat)]
    BY <1>1, <1>7, FlushedSeries, Typing
  <2> HIDE DEF f
  <2>3. ASSUME NEW s \in Series, NEW n \in Nat
        PROVE  InSegment(s, n)' \in Nat /\ InSegment(s, n)' <= InSegment(s, n) + InBuffer(s, n)
    <3>1. CASE s = f
      <4>1. blocks'[s] = blocks[s] \o part /\ blocks[s] \in Seq(AnyBlock) /\ buffer[s] \in Seq(Nat)
        BY <2>1, <2>2, <3>1
      <4>2. part \in PartialWrites(<<Block(buffer[s])>>)
        BY <3>1, <2>1
      <4>3. /\ BlockCopies(blocks[s] \o part, n) \in Nat
            /\ BlockCopies(blocks[s] \o part, n) <= BlockCopies(blocks[s], n) + Copies(buffer[s], n)
        BY <4>1, <4>2, BlockCopiesPart
      <4> QED
        BY <4>1, <4>3 DEF InSegment, InBuffer
    <3>2. CASE s # f
      <4>1. blocks'[s] = blocks[s]
        BY <2>1, <2>2, <3>2
      <4>2. InSegment(s, n)' = InSegment(s, n)
        BY <4>1 DEF InSegment
      <4> QED
        BY <1>3, <4>2
    <3> QED
      BY <3>1, <3>2
  <2>4. \A s \in Series, n \in Nat : InWal(s, n)' = InWal(s, n)
    BY <1>7 DEF InWal
  <2>5. CASE op = "open"
    <3>1. Replaying(r, m) /\ walbuf = <<>>
      BY <1>7, <2>5 DEF CountFacts, CountsIn, OpenEmpty
    <3>2. WalCorrupt(wal') = WalCorrupt(wal)
      BY <1>7
    <3>3. ASSUME NEW s \in Series, NEW n \in Nat
          PROVE  /\ InWalbuf(s, n)' <= 1 /\ InBuffer(s, n)' <= r /\ InWal(s, n)' <= r
                 /\ (op' = "open" /\ WalCorrupt(wal')) \/ InSegment(s, n)' <= m
                 /\ InWal(s, n)' + InWalbuf(s, n)' <= r
      <4>1. /\ InWal(s, n) <= r
            /\ InBuffer(s, n) + InRest(s, n) + ToReplay(s, n) <= r
            /\ WalCorrupt(wal) \/ InSegment(s, n) + InBuffer(s, n) + InRest(s, n) + ToReplay(s, n) <= m
        BY <3>1 DEF Replaying
      <4>2. InWalbuf(s, n) = 0
        BY <3>1, LogCopiesEmpty DEF InWalbuf
      <4>3. InBuffer(s, n) <= r
        BY <1>3, <4>1
      <4>4. CASE WalCorrupt(wal)
        BY <1>2, <1>3, <1>4, <2>4, <2>5, <3>2, <4>1, <4>2, <4>3, <4>4
      <4>5. CASE InSegment(s, n) + InBuffer(s, n) + InRest(s, n) + ToReplay(s, n) <= m
        <5>1. InSegment(s, n)' <= m
          BY <1>3, <2>3, <4>5
        <5> QED
          BY <1>3, <1>4, <2>4, <4>1, <4>2, <4>3, <5>1
      <4> QED
        BY <4>1, <4>4, <4>5
    <3>4. Stopped(r, m)'
      BY <1>2, <3>3 DEF Stopped
    <3> QED
      BY <1>5, <3>4
  <2>6. CASE op # "open"
    <3>1. Running(r, m)
      BY <1>7, <2>6, RunningNow DEF CountFacts
    <3>2. ASSUME NEW s \in Series, NEW n \in Nat
          PROVE  /\ InWalbuf(s, n)' <= 1 /\ InBuffer(s, n)' <= r /\ InWal(s, n)' <= r
                 /\ InSegment(s, n)' <= m /\ InWal(s, n)' + InWalbuf(s, n)' <= r
      <4>1. /\ InWalbuf(s, n) <= 1 /\ InBuffer(s, n) <= r
            /\ InWal(s, n) + InWalbuf(s, n) <= r
            /\ InSegment(s, n) + InBuffer(s, n) <= m
        BY <3>1 DEF Running
      <4>2. InWal(s, n) <= r /\ InSegment(s, n)' <= m
        BY <1>3, <2>3, <4>1
      <4> QED
        BY <1>4, <2>4, <4>1, <4>2
    <3>3. Stopped(r, m)'
      BY <1>2, <3>2 DEF Stopped
    <3> QED
      BY <1>5, <3>3
  <2> QED
    BY <2>5, <2>6
<1>8. CASE /\ pc = "rewrite" /\ cursor <= Len(registry) /\ buffer[registry[cursor]] # <<>>
           /\ \E part \in PartialWrites(<<WalRecord(registry[cursor], buffer[registry[cursor]])>>) :
                wal' = wal \o part
           /\ UNCHANGED blocks
  <2> DEFINE f == registry[cursor]
             x == WalRecord(f, buffer[f])
             items == <<x>>
  <2>1. registry \in Seq(Series) /\ cursor \in 1..Len(registry) /\ wal \in Seq(Record)
        /\ buffer \in [Series -> Seq(Nat)]
    <3>1. cursor \in Nat \ {0} /\ registry \in Seq(Series) /\ wal \in Seq(Record)
          /\ buffer \in [Series -> Seq(Nat)]
      BY <1>1, Typing
    <3> QED
      BY <1>8, <3>1
  <2>2. f \in Series
    BY <2>1, ElementOfSeq
  <2>3. x \in Record /\ x.series = f /\ x.points = buffer[f]
    BY <2>1, <2>2, RecordType DEF WalRecord
  <2>4. PICK part \in PartialWrites(items) : wal' = wal \o part
    BY <1>8
  <2> HIDE DEF x
  <2>5. items \in Seq(Record)
    BY <2>3
  <2>6. \A s \in Series, n \in Nat :
          LogCopies(items, s, n) = IF f = s THEN InBuffer(s, n) ELSE 0
    BY <2>3, LogCopiesOne DEF InBuffer
  <2> HIDE DEF items
  <2>7. \A s \in Series, n \in Nat : InWal(s, n)' <= InWal(s, n) + LogCopies(items, s, n)
    BY <1>1, <2>4, <2>5, PartCounts
  <2>8. wal' \in Seq(Record)
    <3>1. part \in Seq(Record)
      BY <2>4, <2>5, PartialRecords
    <3> QED
      BY <2>1, <2>4, <3>1
  <2>9. op # "open" /\ walbuf = <<>>
    BY <1>1, <1>8 DEF PathOK, Bulk, CountFacts, RewriteCounts
  <2>10. Running(r, m)
    BY <1>8, <2>9, RunningNow DEF CountFacts
  <2>11. \A s \in Series, n \in Nat :
           /\ InWal(s, n) <= InBuffer(s, n)
           /\ (\E j \in 1..Len(registry) : j >= cursor /\ registry[j] = s) => InWal(s, n) = 0
    BY <1>8 DEF CountFacts, RewriteCounts
  <2>12. \A n \in Nat : InWal(f, n) = 0
    <3>1. cursor >= cursor
      BY <2>1
    <3> QED
      BY <2>1, <2>2, <2>11, <3>1
  <2>13. \A s \in Series, n \in Nat : InSegment(s, n)' = InSegment(s, n)
    BY <1>8 DEF InSegment
  <2>14. ASSUME NEW s \in Series, NEW n \in Nat
        PROVE  /\ InWalbuf(s, n)' <= 1 /\ InBuffer(s, n)' <= r /\ InWal(s, n)' <= r
               /\ InSegment(s, n)' <= m /\ InSegment(s, n)' + InBuffer(s, n)' <= m
    <3>1. /\ InWalbuf(s, n) <= 1 /\ InBuffer(s, n) <= r
          /\ InSegment(s, n) + InBuffer(s, n) <= m
      BY <2>10 DEF Running
    <3>2. InWal(s, n)' \in Nat
      BY <2>8, LogCopiesType DEF InWal
    <3>3. InWal(s, n)' <= InBuffer(s, n)
      <4>1. InWal(s, n)' <= InWal(s, n) + (IF f = s THEN InBuffer(s, n) ELSE 0)
        BY <2>6, <2>7
      <4>2. CASE f = s
        <5>1. InWal(s, n) = 0
          BY <2>12, <4>2
        <5> QED
          BY <1>3, <3>2, <4>1, <4>2, <5>1
      <4>3. CASE f # s
        <5>1. InWal(s, n) <= InBuffer(s, n)
          BY <2>11
        <5> QED
          BY <1>3, <3>2, <4>1, <4>3, <5>1
      <4> QED
        BY <4>2, <4>3
    <3>4. InWal(s, n)' <= r /\ InSegment(s, n) <= m
      BY <1>3, <3>1, <3>2, <3>3
    <3> QED
      BY <1>4, <2>13, <3>1, <3>4
  <2>15. Stopped(r, m)'
    BY <1>2, <2>14 DEF Stopped
  <2> QED
    BY <1>5, <2>15
<1> QED
  BY <1>6, <1>7, <1>8 DEF PartialWrite

\* The tsedge_db object goes, and the files stay.
LEMMA ForgetCounts ==
  ASSUME Forget, NEW r \in Nat, NEW m \in Nat, Closed(r, m)
  PROVE  CountFacts(r, m)'
<1>1. pc' = "closed" /\ op' = "none" /\ walbuf' = <<>> /\ UNCHANGED <<wal, blocks>>
  BY DEF Forget, disk
<1>2. \A s \in Series, n \in Nat : InWal(s, n)' = InWal(s, n) /\ InSegment(s, n)' = InSegment(s, n)
  BY <1>1 DEF InWal, InSegment
<1>3. WalCorrupt(wal') = WalCorrupt(wal)
  BY <1>1
<1>4. Closed(r, m)'
  BY <1>2, <1>3 DEF Closed
<1>5. CountsIn(r, m)' /\ FreshCounts' /\ RewriteCounts'
  BY <1>1, <1>4 DEF CountsIn, FreshCounts, RewriteCounts
<1>6. OpenEmpty'
  BY <1>1 DEF OpenEmpty
<1> QED
  BY <1>5, <1>6 DEF CountFacts

\* The steps of a replay.
LEMMA ReplayingNext ==
  ASSUME NEW r \in Nat, NEW m \in Nat, Replaying(r, m)', op' = "open", pc' \in {"replay", "seal"}, walbuf' = <<>>
  PROVE  CountFacts(r, m)'
<1>1. CountsIn(r, m)' /\ FreshCounts' /\ RewriteCounts'
  BY DEF CountsIn, FreshCounts, RewriteCounts
<1> QED
  BY <1>1 DEF CountFacts, OpenEmpty

LEMMA OpenCounts ==
  ASSUME PathInv, NEW r \in Nat \ {0}, NEW m \in Nat \ {0}, CountFacts(r, m), Open
  PROVE  CountFacts(r, m)'
<1>1. TypeInv /\ PathOK /\ CallOK
  BY DEF PathInv, TypeInv
<1>2. /\ pc = "closed" /\ pc' = "replay" /\ op' = "open"
      /\ UNCHANGED <<wal, blocks, buffer, walbuf, target, rest, cursor>>
  BY DEF Open, Goto, disk
<1>3. cursor = 1 /\ rest = <<>> /\ walbuf = <<>> /\ \A s \in Series : buffer[s] = <<>>
  BY <1>1, <1>2 DEF PathOK, CallOK, CountFacts, OpenEmpty
<1>4. Closed(r, m)
  BY <1>2 DEF CountFacts, CountsIn
<1>5. wal \in Seq(Record)
  BY <1>1, Typing
<1>6. SubSeq(wal, 1, Len(wal)) = wal
  BY <1>5, SubSeqFull
<1>7. WalCorrupt(wal') = WalCorrupt(wal)
  BY <1>2
<1>8. \A s \in Series, n \in Nat :
        /\ InWal(s, n)' = InWal(s, n) /\ InSegment(s, n)' = InSegment(s, n)
        /\ InBuffer(s, n)' = 0 /\ InRest(s, n)' = 0 /\ ToReplay(s, n)' = InWal(s, n)
        /\ InWal(s, n) \in Nat /\ InSegment(s, n) \in Nat
  <2> TAKE s \in Series, n \in Nat
  <2>1. InWal(s, n)' = InWal(s, n) /\ InSegment(s, n)' = InSegment(s, n) /\ ToReplay(s, n)' = InWal(s, n)
    BY <1>2, <1>3, <1>6 DEF InWal, InSegment, ToReplay
  <2>2. InBuffer(s, n)' = 0 /\ InRest(s, n)' = 0
    BY <1>2, <1>3, CopiesEmpty DEF InBuffer, InRest
  <2>3. InWal(s, n) \in Nat /\ InSegment(s, n) \in Nat
    BY <1>1, TypedCounts DEF CountTypes
  <2> QED
    BY <2>1, <2>2, <2>3
<1>9. Replaying(r, m)'
  <2> SUFFICES ASSUME NEW s \in Series, NEW n \in Nat
               PROVE  /\ InWal(s, n)' <= r
                      /\ InBuffer(s, n)' + InRest(s, n)' + ToReplay(s, n)' <= r
                      /\ WalCorrupt(wal') \/
                           InSegment(s, n)' + InBuffer(s, n)' + InRest(s, n)' + ToReplay(s, n)' <= m
    BY DEF Replaying
  <2>1. InWal(s, n) <= r /\ (WalCorrupt(wal) \/ InSegment(s, n) + InWal(s, n) <= m)
    BY <1>4 DEF Closed
  <2>2. InWal(s, n)' <= r /\ InBuffer(s, n)' + InRest(s, n)' + ToReplay(s, n)' <= r
    BY <1>8, <2>1
  <2>3. InSegment(s, n)' + InBuffer(s, n)' + InRest(s, n)' + ToReplay(s, n)' = InSegment(s, n) + InWal(s, n)
    BY <1>8
  <2> QED
    BY <1>7, <2>1, <2>2, <2>3
<1> QED
  BY <1>2, <1>3, <1>9, ReplayingNext

\* What the steps of a replay may assume.
LEMMA ReplayingNow ==
  ASSUME PathInv, NEW r \in Nat, NEW m \in Nat, CountFacts(r, m), pc = "replay"
  PROVE  /\ op = "open" /\ walbuf = <<>>
         /\ \A s \in Series, n \in Nat :
              /\ InWal(s, n) <= r
              /\ InBuffer(s, n) + InRest(s, n) + ToReplay(s, n) <= r
              /\ WalCorrupt(wal) \/ InSegment(s, n) + InBuffer(s, n) + InRest(s, n) + ToReplay(s, n) <= m
              /\ InWal(s, n) \in Nat /\ InSegment(s, n) \in Nat /\ InBuffer(s, n) \in Nat
              /\ InRest(s, n) \in Nat /\ ToReplay(s, n) \in Nat
<1>1. TypeInv /\ op = "open"
  BY DEF PathInv, TypeInv, CallOK
<1>2. walbuf = <<>> /\ Replaying(r, m)
  BY <1>1 DEF CountFacts, OpenEmpty, CountsIn
<1> QED
  BY <1>1, <1>2, TypedCounts DEF Replaying, CountTypes

LEMMA ReplayRecordCounts ==
  ASSUME PathInv, NEW r \in Nat \ {0}, NEW m \in Nat \ {0}, CountFacts(r, m), ReplayRecord
  PROVE  CountFacts(r, m)'
<1>1. TypeInv /\ wal \in Seq(Record)
  BY Typing DEF PathInv
<1>2. /\ pc = "replay" /\ pc' = "replay" /\ rest = <<>> /\ UNCHANGED <<wal, blocks, buffer, walbuf, op>>
      /\ target' = wal[cursor].series /\ rest' = wal[cursor].points /\ cursor' = cursor + 1
  BY DEF ReplayRecord
<1>3. cursor \in 1..Len(wal)
  BY <1>1, ReplayedRecord
<1>4. /\ op = "open" /\ walbuf = <<>>
      /\ \A s \in Series, n \in Nat :
           /\ InWal(s, n) <= r
           /\ InBuffer(s, n) + InRest(s, n) + ToReplay(s, n) <= r
           /\ WalCorrupt(wal) \/ InSegment(s, n) + InBuffer(s, n) + InRest(s, n) + ToReplay(s, n) <= m
           /\ InWal(s, n) \in Nat /\ InSegment(s, n) \in Nat /\ InBuffer(s, n) \in Nat
           /\ InRest(s, n) \in Nat /\ ToReplay(s, n) \in Nat
  BY <1>2, ReplayingNow
<1>5. \A s \in Series, n \in Nat :
        /\ InWal(s, n)' = InWal(s, n) /\ InSegment(s, n)' = InSegment(s, n) /\ InBuffer(s, n)' = InBuffer(s, n)
        /\ InRest(s, n) = 0 /\ InRest(s, n)' + ToReplay(s, n)' = ToReplay(s, n)
  <2> TAKE s \in Series, n \in Nat
  <2>1. InWal(s, n)' = InWal(s, n) /\ InSegment(s, n)' = InSegment(s, n) /\ InBuffer(s, n)' = InBuffer(s, n)
    BY <1>2 DEF InWal, InSegment, InBuffer
  <2>2. InRest(s, n) = 0
    BY <1>2, CopiesEmpty DEF InRest
  <2> DEFINE x == wal[cursor]
  <2>3. LogCopies(SubSeq(wal, cursor, Len(wal)), s, n)
          = (IF x.series = s THEN Copies(x.points, n) ELSE 0)
              + LogCopies(SubSeq(wal, cursor + 1, Len(wal)), s, n)
    BY <1>1, <1>3, LogCopiesFirst
  <2>4. ToReplay(s, n)' = LogCopies(SubSeq(wal, cursor + 1, Len(wal)), s, n)
    BY <1>2 DEF ToReplay
  <2>5. InRest(s, n)' = IF x.series = s THEN Copies(x.points, n) ELSE 0
    BY <1>2 DEF InRest
  <2> QED
    BY <2>1, <2>2, <2>3, <2>4, <2>5 DEF ToReplay
<1>6. WalCorrupt(wal') = WalCorrupt(wal)
  BY <1>2
<1>7. \A s \in Series, n \in Nat : InRest(s, n)' \in Nat /\ ToReplay(s, n)' \in Nat
  <2> TAKE s \in Series, n \in Nat
  <2>1. wal[cursor] \in Record
    BY <1>1, <1>3, ElementOfSeq
  <2>2. rest' \in Seq(Nat)
    BY <1>2, <2>1 DEF Record
  <2>3. Copies(rest', n) \in Nat
    BY <2>2, CopiesType
  <2>4. InRest(s, n)' = IF s = target' THEN Copies(rest', n) ELSE 0
    BY DEF InRest
  <2>5. SubSeq(wal, cursor + 1, Len(wal)) \in Seq(Record)
    BY <1>1, <1>3, LogCopiesFirst
  <2>6. ToReplay(s, n)' = LogCopies(SubSeq(wal, cursor + 1, Len(wal)), s, n)
    BY <1>2 DEF ToReplay
  <2>7. ToReplay(s, n)' \in Nat
    BY <2>5, <2>6, LogCopiesType
  <2> QED
    BY <2>3, <2>4, <2>7
<1>8. Replaying(r, m)'
  <2> SUFFICES ASSUME NEW s \in Series, NEW n \in Nat
               PROVE  /\ InWal(s, n)' <= r
                      /\ InBuffer(s, n)' + InRest(s, n)' + ToReplay(s, n)' <= r
                      /\ WalCorrupt(wal') \/
                           InSegment(s, n)' + InBuffer(s, n)' + InRest(s, n)' + ToReplay(s, n)' <= m
    BY DEF Replaying
  <2>1. /\ InWal(s, n) <= r
        /\ InBuffer(s, n) + InRest(s, n) + ToReplay(s, n) <= r
        /\ WalCorrupt(wal) \/ InSegment(s, n) + InBuffer(s, n) + InRest(s, n) + ToReplay(s, n) <= m
    BY <1>4
  <2>2. /\ InSegment(s, n) \in Nat /\ InBuffer(s, n) \in Nat /\ ToReplay(s, n) \in Nat
        /\ InRest(s, n)' \in Nat /\ ToReplay(s, n)' \in Nat
    BY <1>4, <1>7
  <2>3. /\ InWal(s, n)' = InWal(s, n) /\ InSegment(s, n)' = InSegment(s, n) /\ InBuffer(s, n)' = InBuffer(s, n)
        /\ InRest(s, n) = 0 /\ InRest(s, n)' + ToReplay(s, n)' = ToReplay(s, n)
    BY <1>5
  <2>4. InBuffer(s, n)' + InRest(s, n)' + ToReplay(s, n)' = InBuffer(s, n) + InRest(s, n) + ToReplay(s, n)
    BY <2>2, <2>3
  <2>5. InSegment(s, n)' + InBuffer(s, n)' + InRest(s, n)' + ToReplay(s, n)'
          = InSegment(s, n) + InBuffer(s, n) + InRest(s, n) + ToReplay(s, n)
    BY <2>2, <2>3
  <2> QED
    BY <1>6, <2>1, <2>3, <2>4, <2>5
<1> QED
  BY <1>2, <1>4, <1>8, ReplayingNext

LEMMA ReplayPointsCounts ==
  ASSUME PathInv, TypeInv', NEW r \in Nat \ {0}, NEW m \in Nat \ {0}, CountFacts(r, m), ReplayPoints
  PROVE  CountFacts(r, m)'
<1>1. TypeInv /\ CallOK
  BY DEF PathInv, TypeInv
<1>2. /\ pc = "replay" /\ pc' \in {"replay", "seal"} /\ rest # <<>>
      /\ UNCHANGED <<wal, blocks, walbuf, op, target, cursor>>
      /\ \/ UNCHANGED <<buffer, rest>>
         \/ /\ buffer' = [buffer EXCEPT ![target] = @ \o SubSeq(rest, 1, ChunkLength)]
            /\ rest' = SubSeq(rest, ChunkLength + 1, Len(rest))
  BY DEF ReplayPoints, Goto, disk
<1>3. op = "open" /\ walbuf = <<>> /\ target \in Series /\ Replaying(r, m)
  BY <1>1, <1>2, ReplayingNow DEF CallOK, CountFacts, CountsIn
<1>4. \A s \in Series, n \in Nat :
        /\ InWal(s, n)' = InWal(s, n) /\ InSegment(s, n)' = InSegment(s, n) /\ ToReplay(s, n)' = ToReplay(s, n)
  BY <1>2 DEF InWal, InSegment, ToReplay
<1>5. \A s \in Series, n \in Nat : InBuffer(s, n)' + InRest(s, n)' = InBuffer(s, n) + InRest(s, n)
  <2> TAKE s \in Series, n \in Nat
  <2>1. CASE UNCHANGED <<buffer, rest>>
    BY <1>2, <2>1 DEF InBuffer, InRest
  <2>2. CASE /\ buffer' = [buffer EXCEPT ![target] = @ \o SubSeq(rest, 1, ChunkLength)]
             /\ rest' = SubSeq(rest, ChunkLength + 1, Len(rest))
    <3>1. /\ InBuffer(s, n)' = InBuffer(s, n) + InChunk(s, n) /\ InRest(s, n)' = InTail(s, n)
          /\ InChunk(s, n) \in Nat /\ InTail(s, n) \in Nat /\ InRest(s, n) = InChunk(s, n) + InTail(s, n)
      BY <1>1, <1>2, <1>3, <2>2, TakenCounts, ChunkCounts
    <3>2. InBuffer(s, n) \in Nat
      BY <1>1, TypedCounts DEF CountTypes
    <3> QED
      BY <3>1, <3>2
  <2> QED
    BY <1>2, <2>1, <2>2
<1>6. WalCorrupt(wal') = WalCorrupt(wal)
  BY <1>2
<1>7. Replaying(r, m)'
  <2> SUFFICES ASSUME NEW s \in Series, NEW n \in Nat
               PROVE  /\ InWal(s, n)' <= r
                      /\ InBuffer(s, n)' + InRest(s, n)' + ToReplay(s, n)' <= r
                      /\ WalCorrupt(wal') \/
                           InSegment(s, n)' + InBuffer(s, n)' + InRest(s, n)' + ToReplay(s, n)' <= m
    BY DEF Replaying
  <2>1. /\ InWal(s, n) <= r
        /\ InBuffer(s, n) + InRest(s, n) + ToReplay(s, n) <= r
        /\ WalCorrupt(wal) \/ InSegment(s, n) + InBuffer(s, n) + InRest(s, n) + ToReplay(s, n) <= m
    BY <1>3 DEF Replaying
  <2>2. /\ InSegment(s, n) \in Nat /\ InBuffer(s, n) \in Nat /\ InRest(s, n) \in Nat /\ ToReplay(s, n) \in Nat
        /\ InBuffer(s, n)' \in Nat /\ InRest(s, n)' \in Nat
    BY <1>1, TypedCounts, NextTypedCounts DEF CountTypes
  <2>3. InBuffer(s, n)' + InRest(s, n)' = InBuffer(s, n) + InRest(s, n)
    BY <1>5
  <2>4. InBuffer(s, n)' + InRest(s, n)' + ToReplay(s, n)' = InBuffer(s, n) + InRest(s, n) + ToReplay(s, n)
    BY <1>4, <2>2, <2>3
  <2>5. InSegment(s, n)' + InBuffer(s, n)' + InRest(s, n)' + ToReplay(s, n)'
          = InSegment(s, n) + InBuffer(s, n) + InRest(s, n) + ToReplay(s, n)
    BY <1>4, <2>2, <2>3
  <2> QED
    BY <1>4, <1>6, <2>1, <2>4, <2>5
<1> QED
  BY <1>2, <1>3, <1>7, ReplayingNext

\* The end of a replay: tsedge_open returns, or gives up.
LEMMA ReplayEndsCounts ==
  ASSUME PathInv, NEW r \in Nat \ {0}, NEW m \in Nat \ {0}, CountFacts(r, m), ReplayEnds
  PROVE  CountFacts(r, m)'
<1>1. pc = "replay"
  BY DEF ReplayEnds
<1>2. /\ op = "open" /\ walbuf = <<>>
      /\ \A s \in Series, n \in Nat :
           /\ InWal(s, n) <= r
           /\ InBuffer(s, n) + InRest(s, n) + ToReplay(s, n) <= r
           /\ WalCorrupt(wal) \/ InSegment(s, n) + InBuffer(s, n) + InRest(s, n) + ToReplay(s, n) <= m
           /\ InWal(s, n) \in Nat /\ InSegment(s, n) \in Nat /\ InBuffer(s, n) \in Nat
           /\ InRest(s, n) \in Nat /\ ToReplay(s, n) \in Nat
  BY <1>1, ReplayingNow
<1>3. CASE WalCorrupt(wal)
  <2>1. Forget
    BY <1>3 DEF ReplayEnds
  <2>2. Closed(r, m)
    BY <1>2, <1>3 DEF Closed
  <2> QED
    BY <2>1, <2>2, ForgetCounts
<1>4. CASE ~WalCorrupt(wal)
  <2>1. pc' = "idle" /\ op' = "none" /\ UNCHANGED <<wal, walbuf, blocks, buffer>>
    BY <1>4 DEF ReplayEnds, Return, disk, memory
  <2>2. \A s \in Series, n \in Nat :
          /\ InWal(s, n)' = InWal(s, n) /\ InWalbuf(s, n)' = InWalbuf(s, n)
          /\ InSegment(s, n)' = InSegment(s, n) /\ InBuffer(s, n)' = InBuffer(s, n)
    BY <2>1, SameCounts
  <2>3. Running(r, m)'
    <3> SUFFICES ASSUME NEW s \in Series, NEW n \in Nat
                 PROVE  /\ InWalbuf(s, n)' <= 1 /\ InBuffer(s, n)' <= r
                        /\ InWal(s, n)' + InWalbuf(s, n)' <= r
                        /\ InSegment(s, n)' + InBuffer(s, n)' <= m
      BY DEF Running
    <3>1. /\ InWal(s, n) <= r
          /\ InBuffer(s, n) + InRest(s, n) + ToReplay(s, n) <= r
          /\ InSegment(s, n) + InBuffer(s, n) + InRest(s, n) + ToReplay(s, n) <= m
          /\ InWal(s, n) \in Nat /\ InSegment(s, n) \in Nat /\ InBuffer(s, n) \in Nat
          /\ InRest(s, n) \in Nat /\ ToReplay(s, n) \in Nat
      BY <1>2, <1>4
    <3>2. InWalbuf(s, n) = 0
      BY <1>2, LogCopiesEmpty DEF InWalbuf
    <3>3. InBuffer(s, n) <= r /\ InSegment(s, n) + InBuffer(s, n) <= m
      BY <3>1
    <3> QED
      BY <2>2, <3>1, <3>2, <3>3
  <2>4. CountsIn(r, m)' /\ OpenEmpty'
    BY <2>1, <2>3, RunningNext
  <2>5. FreshCounts' /\ RewriteCounts'
    BY <2>1 DEF FreshCounts, RewriteCounts
  <2> QED
    BY <2>4, <2>5 DEF CountFacts
<1> QED
  BY <1>3, <1>4

\* The object goes away: what was in memory is only in wal.log, and the next replay
\* adds it to what the blocks hold.
LEMMA EndCounts ==
  ASSUME TypeInv, NEW r \in Nat \ {0}, NEW m \in Nat \ {0}, CountFacts(r, m), pc # "closed", Forget
  PROVE  CountFacts(r, m + r)'
<1>1. \A s \in Series, n \in Nat :
        /\ InWal(s, n) \in Nat /\ InWalbuf(s, n) \in Nat /\ InSegment(s, n) \in Nat
        /\ InBuffer(s, n) \in Nat /\ InRest(s, n) \in Nat /\ ToReplay(s, n) \in Nat
  BY TypedCounts DEF CountTypes
<1>2. ASSUME NEW s \in Series, NEW n \in Nat
      PROVE  InWal(s, n) <= r /\ (WalCorrupt(wal) \/ InSegment(s, n) <= m)
  <2>1. /\ InWal(s, n) \in Nat /\ InWalbuf(s, n) \in Nat /\ InSegment(s, n) \in Nat
        /\ InBuffer(s, n) \in Nat /\ InRest(s, n) \in Nat /\ ToReplay(s, n) \in Nat
    BY <1>1
  <2>2. CASE pc = "broken"
    <3>1. InWal(s, n) <= r /\ ((op = "open" /\ WalCorrupt(wal)) \/ InSegment(s, n) <= m)
      BY <2>2 DEF CountFacts, CountsIn, Stopped
    <3> QED
      BY <3>1
  <2>3. CASE pc # "broken" /\ op = "open"
    <3>1. /\ InWal(s, n) <= r
          /\ WalCorrupt(wal) \/ InSegment(s, n) + InBuffer(s, n) + InRest(s, n) + ToReplay(s, n) <= m
      BY <2>3 DEF CountFacts, CountsIn, Replaying
    <3> QED
      BY <2>1, <3>1
  <2>4. CASE pc # "broken" /\ op # "open"
    <3>1. InWal(s, n) + InWalbuf(s, n) <= r /\ InSegment(s, n) + InBuffer(s, n) <= m
      BY <2>4 DEF CountFacts, CountsIn, Running
    <3> QED
      BY <2>1, <3>1
  <2> QED
    BY <2>2, <2>3, <2>4
<1>3. ASSUME NEW s \in Series, NEW n \in Nat
      PROVE  InWal(s, n) <= r /\ (WalCorrupt(wal) \/ InSegment(s, n) + InWal(s, n) <= m + r)
  <2>1. InWal(s, n) <= r /\ (WalCorrupt(wal) \/ InSegment(s, n) <= m)
    BY <1>2
  <2>2. InWal(s, n) \in Nat /\ InSegment(s, n) \in Nat
    BY <1>1
  <2> QED
    BY <2>1, <2>2
<1>4. Closed(r, m + r)
  BY <1>3 DEF Closed
<1>5. m + r \in Nat
  OBVIOUS
<1> QED
  BY <1>4, <1>5, ForgetCounts

\* tsedge_close has emptied wal.log and the buffers.
LEMMA CloseCounts ==
  ASSUME PathInv, NEW r \in Nat \ {0}, NEW m \in Nat \ {0}, CountFacts(r, m), RewriteEnds, op = "close"
  PROVE  CountFacts(r, m)'
<1>1. TypeInv /\ EmptiedOK
  BY DEF PathInv
<1>2. pc = "rewrite" /\ Forget
  BY DEF RewriteEnds
<1>3. wal = <<>>
  BY <1>1, <1>2 DEF EmptiedOK, Bulk
<1>4. Running(r, m)
  BY <1>2, RunningNow DEF CountFacts
<1>5. ASSUME NEW s \in Series, NEW n \in Nat
      PROVE  InWal(s, n) <= r /\ InSegment(s, n) + InWal(s, n) <= m
  <2>1. InWal(s, n) = 0
    BY <1>3, LogCopiesEmpty DEF InWal
  <2>2. InSegment(s, n) + InBuffer(s, n) <= m
    BY <1>4 DEF Running
  <2>3. InSegment(s, n) \in Nat /\ InBuffer(s, n) \in Nat
    BY <1>1, TypedCounts DEF CountTypes
  <2> QED
    BY <2>1, <2>2, <2>3
<1>6. Closed(r, m)
  BY <1>5 DEF Closed
<1> QED
  BY <1>2, <1>6, ForgetCounts

\* A call returns an error and the database stays open.  Where a WAL flush stopped
\* half-way, its records stay in the WAL buffer as well.
LEMMA FaultCounts ==
  ASSUME PathInv, NEW r \in Nat \ {0}, NEW m \in Nat \ {0}, NEW k \in Nat, m <= k, CountFacts(r, m), Fault
  PROVE  CountFacts(r, m + r)' \/ (TornWrites /\ CountFacts(r + 1, k)')
<1>1. TypeInv /\ PathOK /\ CallOK
  BY DEF PathInv, TypeInv
<1>2. pc \in FileSteps \union {"broken"}
  BY DEF Fault
<1>3. CASE op \in {"open", "close"}
  <2>1. Forget /\ pc # "closed"
    BY <1>2, <1>3 DEF Fault, FileSteps
  <2> QED
    BY <1>1, <2>1, EndCounts
<1>4. CASE op \notin {"open", "close"}
  <2>1. /\ pc' = "idle" /\ op' = "none" /\ UNCHANGED <<wal, blocks, buffer>>
        /\ walbuf' = <<>> \/ walbuf' = walbuf
    BY <1>4 DEF Fault, Return, disk
  <2>2. \A s \in Series, n \in Nat :
          /\ InWal(s, n)' = InWal(s, n) /\ InSegment(s, n)' = InSegment(s, n) /\ InBuffer(s, n)' = InBuffer(s, n)
          /\ InWalbuf(s, n)' = InWalbuf(s, n) \/ InWalbuf(s, n)' = 0
    BY <2>1, LogCopiesEmpty DEF InWal, InSegment, InBuffer, InWalbuf
  <2>3. \A s \in Series, n \in Nat :
          InWal(s, n) \in Nat /\ InWalbuf(s, n) \in Nat /\ InSegment(s, n) \in Nat /\ InBuffer(s, n) \in Nat
    BY <1>1, TypedCounts DEF CountTypes
  <2>4. ASSUME NEW a \in Nat, NEW b \in Nat, Running(a, b)' PROVE CountFacts(a, b)'
    <3>1. CountsIn(a, b)' /\ OpenEmpty'
      BY <2>1, <2>4, RunningNext
    <3>2. FreshCounts' /\ RewriteCounts'
      BY <2>1 DEF FreshCounts, RewriteCounts
    <3> QED
      BY <3>1, <3>2 DEF CountFacts
  <2>5. ASSUME NEW a \in Nat, NEW b \in Nat,
               \A s \in Series, n \in Nat :
                 /\ InWalbuf(s, n) <= 1 /\ InBuffer(s, n) <= a
                 /\ InWal(s, n) + InWalbuf(s, n) <= a
                 /\ InSegment(s, n) + InBuffer(s, n) <= b
        PROVE  CountFacts(a, b)'
    <3>1. Running(a, b)'
      <4> SUFFICES ASSUME NEW s \in Series, NEW n \in Nat
                   PROVE  /\ InWalbuf(s, n)' <= 1 /\ InBuffer(s, n)' <= a
                          /\ InWal(s, n)' + InWalbuf(s, n)' <= a
                          /\ InSegment(s, n)' + InBuffer(s, n)' <= b
        BY DEF Running
      <4>1. /\ InWalbuf(s, n) <= 1 /\ InBuffer(s, n) <= a
            /\ InWal(s, n) + InWalbuf(s, n) <= a
            /\ InSegment(s, n) + InBuffer(s, n) <= b
        BY <2>5
      <4>2. /\ InWal(s, n)' = InWal(s, n) /\ InSegment(s, n)' = InSegment(s, n) /\ InBuffer(s, n)' = InBuffer(s, n)
            /\ InWalbuf(s, n)' = InWalbuf(s, n) \/ InWalbuf(s, n)' = 0
        BY <2>2
      <4>3. InWal(s, n) \in Nat /\ InWalbuf(s, n) \in Nat
        BY <2>3
      <4>4. InWalbuf(s, n)' <= 1 /\ InWal(s, n)' + InWalbuf(s, n)' <= a
        BY <4>1, <4>2, <4>3
      <4> QED
        BY <4>1, <4>2, <4>4
    <3> QED
      BY <2>4, <3>1
  <2>6. m + r \in Nat /\ r + 1 \in Nat
    OBVIOUS
  <2>7. CASE pc # "broken"
    <3>1. Running(r, m)
      BY <1>2, <1>4, <2>7, RunningNow DEF FileSteps, CountFacts
    <3>2. ASSUME NEW s \in Series, NEW n \in Nat
          PROVE  /\ InWalbuf(s, n) <= 1 /\ InBuffer(s, n) <= r
                 /\ InWal(s, n) + InWalbuf(s, n) <= r
                 /\ InSegment(s, n) + InBuffer(s, n) <= m + r
      <4>1. /\ InWalbuf(s, n) <= 1 /\ InBuffer(s, n) <= r
            /\ InWal(s, n) + InWalbuf(s, n) <= r
            /\ InSegment(s, n) + InBuffer(s, n) <= m
        BY <3>1 DEF Running
      <4>2. InSegment(s, n) + InBuffer(s, n) <= m + r
        BY <2>3, <4>1
      <4> QED
        BY <4>1, <4>2
    <3> QED
      BY <2>5, <2>6, <3>2
  <2>8. CASE pc = "broken"
    <3>1. /\ TornWrites
          /\ \A s \in Series, n \in Nat :
               InWalbuf(s, n) <= 1 /\ InBuffer(s, n) <= r /\ InWal(s, n) <= r /\ InSegment(s, n) <= m
      BY <1>4, <2>8 DEF CountFacts, CountsIn, Stopped
    <3>2. \/ \A s \in Series, n \in Nat : InSegment(s, n) + InBuffer(s, n) <= m
          \/ \A s \in Series, n \in Nat : InWal(s, n) + InWalbuf(s, n) <= r
      BY <2>8 DEF CountFacts, CountsIn, Stopped
    <3>3. CASE \A s \in Series, n \in Nat : InWal(s, n) + InWalbuf(s, n) <= r
      <4>1. ASSUME NEW s \in Series, NEW n \in Nat
            PROVE  InSegment(s, n) + InBuffer(s, n) <= m + r
        <5>1. InBuffer(s, n) <= r /\ InSegment(s, n) <= m /\ InSegment(s, n) \in Nat /\ InBuffer(s, n) \in Nat
          BY <2>3, <3>1
        <5> QED
          BY <5>1
      <4> QED
        BY <2>5, <2>6, <3>1, <3>3, <4>1
    <3>4. CASE \A s \in Series, n \in Nat : InSegment(s, n) + InBuffer(s, n) <= m
      <4>1. ASSUME NEW s \in Series, NEW n \in Nat
            PROVE  /\ InWalbuf(s, n) <= 1 /\ InBuffer(s, n) <= r + 1
                   /\ InWal(s, n) + InWalbuf(s, n) <= r + 1
                   /\ InSegment(s, n) + InBuffer(s, n) <= k
        <5>1. /\ InWalbuf(s, n) <= 1 /\ InBuffer(s, n) <= r /\ InWal(s, n) <= r
              /\ InSegment(s, n) + InBuffer(s, n) <= m
              /\ InWal(s, n) \in Nat /\ InWalbuf(s, n) \in Nat /\ InSegment(s, n) \in Nat /\ InBuffer(s, n) \in Nat
          BY <2>3, <3>1, <3>4
        <5> QED
          BY <5>1
      <4> QED
        BY <2>5, <2>6, <3>1, <4>1
    <3> QED
      BY <3>2, <3>3, <3>4
  <2> QED
    BY <2>7, <2>8
<1> QED
  BY <1>3, <1>4

\* Nothing happens.
LEMMA StillCounts ==
  ASSUME NEW r, NEW m, CountFacts(r, m), UNCHANGED vars
  PROVE  CountFacts(r, m)'
<1>1. UNCHANGED <<wal, walbuf, blocks, buffer, pc, op, target, rest, cursor, registry>>
  BY DEF vars, disk, memory, call
<1>2. \A s \in Series, n \in Nat :
        /\ InWal(s, n)' = InWal(s, n) /\ InWalbuf(s, n)' = InWalbuf(s, n)
        /\ InSegment(s, n)' = InSegment(s, n) /\ InBuffer(s, n)' = InBuffer(s, n)
        /\ InRest(s, n)' = InRest(s, n) /\ ToReplay(s, n)' = ToReplay(s, n)
  BY <1>1 DEF InWal, InWalbuf, InSegment, InBuffer, InRest, ToReplay
<1>3. \A s \in Series, n \in Nat : InTail(s, n)' = InTail(s, n)
  BY <1>1 DEF InTail, ChunkLength
<1>4. WalCorrupt(wal') = WalCorrupt(wal)
  BY <1>1
<1>5. Closed(r, m)' <=> Closed(r, m)
  BY <1>2, <1>4 DEF Closed
<1>6. Running(r, m)' <=> Running(r, m)
  BY <1>2 DEF Running
<1>7. Replaying(r, m)' <=> Replaying(r, m)
  BY <1>2, <1>4 DEF Replaying
<1>8. Stopped(r, m)' <=> Stopped(r, m)
  BY <1>1, <1>2, <1>4 DEF Stopped
<1>9. CountsIn(r, m)'
  BY <1>1, <1>5, <1>6, <1>7, <1>8 DEF CountFacts, CountsIn
<1>10. OpenEmpty' /\ FreshCounts' /\ RewriteCounts'
  BY <1>1, <1>2, <1>3 DEF CountFacts, OpenEmpty, FreshCounts, RewriteCounts
<1> QED
  BY <1>9, <1>10 DEF CountFacts

\* The copies of a point there are at most, after w repeated WAL flushes among k
\* crashes and failures.
Limit(w, k) == (1 + w) * (1 + k - w)

\* w WAL flushes that had stopped half-way were repeated.
CountInv ==
  /\ GoneInv
  /\ Distinct
  /\ \E w, m \in Nat :
       /\ w <= faults /\ (w # 0 => TornWrites)
       /\ m = Limit(w, crashes + faults)
       /\ CountFacts(1 + w, m)

\* How the limit grows.
LEMMA LimitGrows ==
  ASSUME NEW w \in Nat, NEW k \in Nat, w <= k
  PROVE  /\ Limit(w, k) \in Nat \ {0}
         /\ Limit(w, k + 1) = Limit(w, k) + (1 + w)
         /\ Limit(w + 1, k + 1) \in Nat /\ Limit(w, k) <= Limit(w + 1, k + 1)
<1> DEFINE d == 1 + k - w
<1>1. d \in Nat \ {0} /\ 1 + (k + 1) - w = d + 1 /\ 1 + (k + 1) - (w + 1) = d
  OBVIOUS
<1>2. Limit(w, k) = (1 + w) * d
  BY DEF Limit
<1>3. Limit(w, k + 1) = (1 + w) * (d + 1)
  BY <1>1 DEF Limit
<1>4. Limit(w + 1, k + 1) = (1 + (w + 1)) * d
  BY <1>1 DEF Limit
<1> HIDE DEF d
<1>5. (1 + w) * (d + 1) = (1 + w) * d + (1 + w)
  BY <1>1
<1>6. (1 + (w + 1)) * d = (1 + w) * d + d
  BY <1>1
<1>7. (1 + w) * d = d + w * d /\ w * d \in Nat
  BY <1>1
<1>8. (1 + w) * d \in Nat \ {0}
  BY <1>1, <1>7
<1> QED
  BY <1>1, <1>2, <1>3, <1>4, <1>5, <1>6, <1>8

\* Steps that count nothing.
LEMMA CountStep ==
  ASSUME CountInv, GoneInv', NEW r \in Nat \ {0}, NEW m \in Nat \ {0}, CountFacts(r, m),
         Open \/ OpenFails \/ StartCall \/ Continue \/ PartialWrite \/ UNCHANGED vars
           \/ \E s \in Series : CreateFails(s)
  PROVE  CountFacts(r, m)'
<1>1. PathInv /\ TypeInv' /\ GoneInv /\ Distinct
  BY DEF CountInv, GoneInv, PathInv
<1>2. CASE OpenFails \/ UNCHANGED vars
  BY <1>2, StillCounts DEF OpenFails
<1>3. CASE Open
  BY <1>1, <1>3, OpenCounts
<1>4. CASE PartialWrite
  BY <1>1, <1>4, PartialWriteCounts
<1>5. CASE \E s \in Series : CreateFails(s)
  BY <1>1, <1>5, QuietStepsCounts
<1>6. CASE StartCall
  <2>1. CASE \E s \in Series, n \in 1..MaxBatch : StartAppend(s, n)
    BY <1>1, <2>1, StartAppendCounts
  <2>2. CASE \/ \E s \in Series : CreateSeries(s) \/ StartFlush(s)
             \/ \E mode \in Selected : SetDurability(mode)
             \/ \E name \in {"flush_all", "close", "delete"}, s \in Series \union {NoSeries} : StartFlushAll(name, s)
    BY <1>1, <2>2, QuietStepsCounts
  <2> QED
    BY <1>6, <2>1, <2>2 DEF StartCall
<1>7. CASE Continue
  <2>1. CASE ReplayRecord \/ ReplayPoints \/ ReplayEnds
    BY <1>1, <2>1, ReplayRecordCounts, ReplayPointsCounts, ReplayEndsCounts
  <2>2. CASE Chunk \/ AppendDone \/ FlushSeries \/ NextSeries \/ RemoveDirectory
    BY <1>1, <2>2, QuietStepsCounts
  <2>3. CASE Log \/ Place
    BY <1>1, <2>3, LogCounts, PlaceCounts
  <2>4. CASE WalFlush \/ AppendBlock
    BY <1>1, <2>4, WalFlushCounts, AppendBlockCounts
  <2>5. CASE TruncateWal \/ RewriteWal \/ UnlinkSegment
    BY <1>1, <2>5, TruncateWalCounts, RewriteWalCounts, UnlinkSegmentCounts
  <2>6. CASE RewriteEnds
    BY <1>1, <2>6, CloseCounts, QuietStepsCounts
  <2> QED
    BY <1>7, <2>1, <2>2, <2>3, <2>4, <2>5, <2>6 DEF Continue
<1> QED
  BY <1>2, <1>3, <1>4, <1>5, <1>6, <1>7

\* What the steps do to the two counters.
LEMMA CounterSteps ==
  ASSUME TypeInv, [Next]_vars
  PROVE  /\ crashes \in Nat /\ faults \in Nat
         /\ \/ Crash /\ crashes' = crashes + 1 /\ faults' = faults
            \/ Fault /\ crashes' = crashes /\ faults' = faults + 1
            \/ /\ \/ Open \/ OpenFails \/ StartCall \/ Continue \/ PartialWrite \/ UNCHANGED vars
                  \/ \E s \in Series : CreateFails(s)
               /\ crashes' = crashes /\ faults' \in {faults, faults + 1}
<1>1. crashes \in Nat /\ faults \in Nat
  BY StoreAssumption DEF TypeInv, TypeOK
<1>2. CASE UNCHANGED vars \/ Open \/ OpenFails
  BY <1>1, <1>2 DEF vars, bounds, Open, OpenFails
<1>3. CASE StartCall
  <2>1. UNCHANGED <<crashes, faults>>
    BY <1>3 DEF StartCall, CreateSeries, StartAppend, SetDurability, StartFlush, StartFlushAll, bounds
  <2> QED
    BY <1>1, <1>3, <2>1
<1>4. CASE Continue
  <2>1. CASE RemoveDirectory
    BY <1>1, <1>4, <2>1 DEF RemoveDirectory
  <2>2. CASE ReplayRecord \/ ReplayPoints \/ ReplayEnds \/ Chunk \/ Log \/ Place \/ AppendDone
    <3>1. UNCHANGED <<crashes, faults>>
      BY <2>2 DEF ReplayRecord, ReplayPoints, ReplayEnds, Chunk, Log, Place, AppendDone, bounds
    <3> QED
      BY <1>1, <1>4, <3>1
  <2>3. CASE WalFlush \/ FlushSeries \/ NextSeries \/ AppendBlock
    <3>1. UNCHANGED <<crashes, faults>>
      BY <2>3 DEF WalFlush, FlushSeries, NextSeries, AppendBlock, bounds
    <3> QED
      BY <1>1, <1>4, <3>1
  <2>4. CASE TruncateWal \/ RewriteWal \/ RewriteEnds \/ UnlinkSegment
    <3>1. UNCHANGED <<crashes, faults>>
      BY <2>4 DEF TruncateWal, RewriteWal, RewriteEnds, UnlinkSegment, bounds
    <3> QED
      BY <1>1, <1>4, <3>1
  <2> QED
    BY <1>4, <2>1, <2>2, <2>3, <2>4 DEF Continue
<1>5. CASE Environment
  BY <1>1, <1>5 DEF Environment, CreateFails, PartialWrite, Fault, Crash, bounds
<1> QED
  BY <1>1, <1>2, <1>3, <1>4, <1>5 DEF Next

LEMMA MoreFacts ==
  ASSUME TypeInv, NEW r \in Nat, NEW m \in Nat, NEW k \in Nat, CountFacts(r, m), m <= k
  PROVE  CountFacts(r, k)
BY MoreCopies DEF CountFacts

\* CountInv is inductive.
LEMMA NextCountInv == CountInv /\ [Next]_vars => CountInv'
<1> SUFFICES ASSUME CountInv, [Next]_vars PROVE CountInv'
  OBVIOUS
<1>1. GoneInv' /\ TypeInv /\ PathInv
  BY NextGoneInv DEF CountInv, GoneInv, PathInv
<1>2. Distinct'
  BY <1>1, NextDistinct DEF CountInv
<1>3. PICK w \in Nat, m \in Nat :
        /\ w <= faults /\ (w # 0 => TornWrites)
        /\ m = Limit(w, crashes + faults)
        /\ CountFacts(1 + w, m)
  BY DEF CountInv
<1>4. crashes \in Nat /\ faults \in Nat
  BY <1>1, CounterSteps
<1>5. PICK r \in Nat \ {0} : r = 1 + w
  BY ONLY <1>3
<1>6. PICK k \in Nat : k = crashes + faults
  BY <1>4
<1>7. w <= k
  BY <1>3, <1>4, <1>6
<1>8. PICK up \in Nat : up = Limit(w + 1, k + 1)
  BY <1>7, LimitGrows
<1>9. m \in Nat \ {0} /\ Limit(w, k + 1) = m + r /\ m <= up /\ m + r \in Nat \ {0}
  <2>1. m = Limit(w, k)
    BY <1>3, <1>6
  <2>2. /\ Limit(w, k) \in Nat \ {0} /\ Limit(w, k + 1) = Limit(w, k) + (1 + w)
        /\ Limit(w, k) <= Limit(w + 1, k + 1)
    BY <1>7, LimitGrows
  <2>3. m \in Nat \ {0} /\ Limit(w, k + 1) = m + r /\ m <= up
    BY <1>5, <1>8, <2>1, <2>2
  <2> QED
    BY <2>3
<1>10. CountFacts(r, m)
  BY <1>3, <1>5
<1>11. ASSUME NEW x \in Nat, NEW y \in Nat, x <= faults', x # 0 => TornWrites,
              y = Limit(x, crashes' + faults'), CountFacts(1 + x, y)'
       PROVE  CountInv'
  BY <1>1, <1>2, <1>11 DEF CountInv
<1>12. CASE Crash /\ crashes' = crashes + 1 /\ faults' = faults
  <2>1. Forget /\ pc # "closed"
    BY <1>12 DEF Crash
  <2>2. CountFacts(r, m + r)'
    BY <1>1, <1>9, <1>10, <2>1, EndCounts
  <2>3. crashes' + faults' = k + 1 /\ w <= faults'
    BY <1>3, <1>4, <1>6, <1>12
  <2>4. m + r = Limit(w, crashes' + faults') /\ CountFacts(1 + w, m + r)'
    BY <1>5, <1>9, <2>2, <2>3
  <2> QED
    BY <1>3, <1>9, <1>11, <2>3, <2>4
<1>13. CASE Fault /\ crashes' = crashes /\ faults' = faults + 1
  <2>1. CountFacts(r, m + r)' \/ (TornWrites /\ CountFacts(r + 1, up)')
    BY <1>1, <1>9, <1>10, <1>13, FaultCounts
  <2>2. crashes' + faults' = k + 1 /\ w <= faults' /\ w + 1 <= faults' /\ w + 1 \in Nat
    BY <1>3, <1>4, <1>6, <1>13
  <2>3. CASE CountFacts(r, m + r)'
    <3>1. m + r = Limit(w, crashes' + faults') /\ CountFacts(1 + w, m + r)'
      BY <1>5, <1>9, <2>2, <2>3
    <3> QED
      BY <1>3, <1>9, <1>11, <2>2, <3>1
  <2>4. CASE TornWrites /\ CountFacts(r + 1, up)'
    <3>1. r + 1 = 1 + (w + 1)
      BY <1>5
    <3>2. up = Limit(w + 1, crashes' + faults') /\ CountFacts(1 + (w + 1), up)'
      BY <1>8, <2>2, <2>4, <3>1
    <3> QED
      BY <1>11, <2>2, <2>4, <3>2
  <2> QED
    BY <2>1, <2>3, <2>4
<1>14. CASE /\ \/ Open \/ OpenFails \/ StartCall \/ Continue \/ PartialWrite \/ UNCHANGED vars
               \/ \E s \in Series : CreateFails(s)
            /\ crashes' = crashes /\ faults' \in {faults, faults + 1}
  <2>1. CASE faults' = faults
    <3>1. CountFacts(r, m)'
      BY <1>1, <1>9, <1>10, <1>14, CountStep
    <3>2. m = Limit(w, crashes' + faults') /\ CountFacts(1 + w, m)' /\ w <= faults'
      BY <1>3, <1>5, <1>14, <2>1, <3>1
    <3> QED
      BY <1>3, <1>11, <3>2
  <2>2. CASE faults' = faults + 1
    <3>1. m <= m + r
      BY <1>9
    <3>2. CountFacts(r, m + r)
      BY <1>1, <1>9, <1>10, <3>1, MoreFacts
    <3>3. CountFacts(r, m + r)'
      BY <1>1, <1>9, <1>14, <3>2, CountStep
    <3>4. crashes' + faults' = k + 1 /\ w <= faults'
      BY <1>3, <1>4, <1>6, <1>14, <2>2
    <3>5. m + r = Limit(w, crashes' + faults') /\ CountFacts(1 + w, m + r)'
      BY <1>5, <1>9, <3>3, <3>4
    <3> QED
      BY <1>3, <1>9, <1>11, <3>4, <3>5
  <2> QED
    BY <1>14, <2>1, <2>2
<1> QED
  BY <1>1, <1>12, <1>13, <1>14, CounterSteps

LEMMA InitCountInv == Init => CountInv
<1> SUFFICES ASSUME Init PROVE CountInv
  OBVIOUS
<1>1. GoneInv
  BY InitPathInv, InitUndeleted DEF GoneInv
<1>2. Distinct
  BY DEF Init, Distinct
<1>3. wal = <<>> /\ walbuf = <<>> /\ pc = "closed" /\ op = "none" /\ crashes = 0 /\ faults = 0
  BY DEF Init
<1>4. \A s \in Series : blocks[s] = <<>>
  BY EmptyType DEF Init
<1>5. \A s \in Series, n \in Nat : InWal(s, n) = 0 /\ InSegment(s, n) = 0
  BY <1>3, <1>4, LogCopiesEmpty, BlockCopiesEmpty DEF InWal, InSegment
<1>6. Closed(1, 1)
  BY <1>5 DEF Closed
<1>7. CountFacts(1, 1)
  BY <1>3, <1>6 DEF CountFacts, OpenEmpty, FreshCounts, RewriteCounts, CountsIn
<1>8. Limit(0, crashes + faults) = 1
  BY <1>3 DEF Limit
<1>9. 1 + 0 = 1 /\ 0 <= faults /\ 0 \in Nat /\ 1 \in Nat
  BY <1>3
<1>10. CountFacts(1 + 0, 1)
  BY <1>7, <1>9
<1> QED
  BY <1>1, <1>2, <1>8, <1>9, <1>10 DEF CountInv

\* What a query of the open database returns of one point.
LEMMA VisibleCopies ==
  ASSUME TypeInv, NEW s \in Series, NEW n
  PROVE  Copies(Visible(s), n) = InSegment(s, n) + InBuffer(s, n)
<1> DEFINE flat == FlattenSeq(Read(blocks[s]))
<1>1. flat \in Seq(Nat) /\ buffer[s] \in Seq(Nat) /\ Visible(s) = flat \o buffer[s]
  BY VisibleIs
<1> HIDE DEF flat
<1>2. Copies(flat \o buffer[s], n) = Copies(flat, n) + Copies(buffer[s], n)
  BY <1>1, CopiesConcat
<1> QED
  BY <1>1, <1>2 DEF InSegment, InBuffer, BlockCopies, flat

\* However often the process dies, and whatever operation fails or stops half-way,
\* a query of the open database returns a point no more often than the crashes and
\* failures before it account for: a crash or a failure adds one copy of it for
\* each record of wal.log that holds it, and a record is written to wal.log a
\* second time only by a WAL flush that is repeated after it stopped half-way.
THEOREM CopiesStayBounded == Spec => []CopiesBounded
<1>1. CountInv => CopiesBounded
  <2> SUFFICES ASSUME CountInv, pc = "idle"
               PROVE  \E retries \in 0..(IF TornWrites THEN faults ELSE 0) :
                        \A s \in Series : \A n \in Range(Visible(s)) :
                          Cardinality({i \in 1..Len(Visible(s)) : Visible(s)[i] = n})
                            <= (1 + retries) * (1 + crashes + faults - retries)
    BY DEF CopiesBounded
  <2>1. TypeInv /\ CallOK
    BY DEF CountInv, GoneInv, PathInv, TypeInv
  <2>2. crashes \in Nat /\ faults \in Nat
    BY <2>1, StoreAssumption DEF TypeInv, TypeOK
  <2>3. PICK w \in Nat, m \in Nat :
          /\ w <= faults /\ (w # 0 => TornWrites)
          /\ m = Limit(w, crashes + faults)
          /\ CountFacts(1 + w, m)
    BY DEF CountInv
  <2>4. w \in 0..(IF TornWrites THEN faults ELSE 0)
    BY <2>2, <2>3
  <2>5. m = (1 + w) * (1 + crashes + faults - w)
    <3>1. 1 + (crashes + faults) - w = 1 + crashes + faults - w
      BY <2>2
    <3> QED
      BY <2>3, <3>1 DEF Limit
  <2>6. op = "none"
    BY <2>1 DEF CallOK
  <2>7. Running(1 + w, m)
    BY <2>3, <2>6, RunningNow DEF CountFacts
  <2>8. ASSUME NEW s \in Series, NEW n \in Range(Visible(s))
        PROVE  Cardinality({i \in 1..Len(Visible(s)) : Visible(s)[i] = n}) <= m
    <3>1. Visible(s) \in Seq(Nat)
      BY <2>1, VisibleIs
    <3>2. n \in Nat
      BY <3>1, RangeMember, ElementOfSeq
    <3>3. InSegment(s, n) + InBuffer(s, n) <= m
      BY <2>7, <3>2 DEF Running
    <3>4. Copies(Visible(s), n) = InSegment(s, n) + InBuffer(s, n)
      BY <2>1, VisibleCopies
    <3> QED
      BY <3>3, <3>4 DEF Copies
  <2> QED
    BY <2>4, <2>5, <2>8
<1> QED
  BY <1>1, InitCountInv, NextCountInv, PTL DEF Spec
=============================================================================
