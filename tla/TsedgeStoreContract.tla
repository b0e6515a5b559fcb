------------------------ MODULE TsedgeStoreContract ------------------------
(***************************************************************************)
(* TsedgeStore implements TsedgeContract.  The contents are the buffers    *)
(* and the blocks while the database is open, and what the next open will  *)
(* find on disk while it is closed.                                        *)
(***************************************************************************)
EXTENDS TsedgeStore

Up == pc # "closed" /\ op # "open"

InBlocks(s) == UNION {Range(block.points) : block \in {b \in Range(blocks[s]) : IsWhole(b)}}

Contents(s) == IF Up THEN InBlocks(s) \union Range(buffer[s]) ELSE OnDisk(s)

Contract ==
  INSTANCE TsedgeContract WITH
    up       <- Up,
    calling  <- Up /\ pc # "idle",
    contents <- [s \in Series |-> Contents(s)],
    stable   <- [s \in Series |-> IF Up THEN Contents(s) \intersect OnDisk(s) ELSE OnDisk(s)],
    promised <- [s \in Series |-> PointsOf(s, {"durable"})],
    inflight <- [s \in Series |-> IF Up /\ op = "append" /\ s = target THEN Range(rest) ELSE {}],
    gone     <- [s \in Series |-> PointsOf(s, {"deleting", "deleted"})]

\* The write path, its recovery and its crashes at any step keep the contract:
\* flushes, WAL rewrites, batches that fill a buffer and replays that write blocks
\* are invisible except for what a crash may take, a close or an open loses and
\* invents nothing, and a promise is only made of what is on disk.
ImplementsContract == Contract!Spec
=============================================================================
