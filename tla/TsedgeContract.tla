--------------------------- MODULE TsedgeContract ---------------------------
(***************************************************************************)
(* What an application may rely on, with no word of logs, blocks, buffers  *)
(* or files: a database is a set of points per series.  Points come in     *)
(* piece by piece while a call runs.  Some of them are stable, a crash     *)
(* leaves those; a call that promises durability returns when its points   *)
(* are stable.  Closing and opening change nothing.  Deleting a series is  *)
(* final.  While a call runs the stable part may shrink, which is the      *)
(* window of the WAL rewrite, but not between calls.                       *)
(*                                                                         *)
(* TsedgeStoreContract shows that TsedgeStore implements this as long as   *)
(* no file operation fails.                                                *)
(***************************************************************************)
CONSTANT Series

VARIABLES
  up,        \* an application has the database open
  calling,   \* a call of it is running
  contents,  \* per series, the points that a query returns, or would after an open
  stable,    \* per series, the contents that a crash would leave
  promised,  \* per series, the points whose call returned with a promise
  inflight,  \* per series, the points of the running call that are not in yet
  gone       \* per series, the points of deletions

vars == <<up, calling, contents, stable, promised, inflight, gone>>

Nothing == [s \in Series |-> {}]

Init ==
  /\ up = FALSE /\ calling = FALSE
  /\ contents = Nothing /\ stable = Nothing /\ promised = Nothing
  /\ inflight = Nothing /\ gone = Nothing

Within(f, g) == \A s \in Series : f[s] \subseteq g[s]

Open ==
  /\ ~up /\ up'
  /\ UNCHANGED <<calling, contents, stable, promised, inflight, gone>>

\* A call starts; an append brings points of one series that were never there.
Begin ==
  /\ up /\ ~calling /\ calling'
  /\ \A s \in Series : inflight'[s] \intersect (contents[s] \union gone[s]) = {}
  /\ \A s, t \in Series : s # t => inflight'[s] = {} \/ inflight'[t] = {}
  /\ UNCHANGED <<up, contents, stable, promised, gone>>

\* Points of the call come in; nothing else does, and nothing leaves.
Admit ==
  /\ calling /\ calling'
  /\ \A s \in Series :
       /\ inflight'[s] \subseteq inflight[s]
       /\ contents'[s] = contents[s] \union (inflight[s] \ inflight'[s])
  /\ Within(stable, stable') /\ Within(stable', contents')
  /\ UNCHANGED <<up, promised, gone>>

\* More of the contents becomes stable.
Save ==
  /\ calling /\ calling'
  /\ Within(stable, stable') /\ Within(stable', contents)
  /\ UNCHANGED <<up, contents, promised, inflight, gone>>

\* The window: until the call returns, less is stable than before.
Expose ==
  /\ calling /\ calling'
  /\ Within(stable', stable)
  /\ UNCHANGED <<up, contents, promised, inflight, gone>>

\* The points of a series are gone for good.
Delete ==
  /\ calling /\ calling'
  /\ inflight = Nothing
  /\ \E s \in Series :
       /\ contents[s] \subseteq gone'[s] /\ gone[s] \subseteq gone'[s]
       /\ contents'[s] = {} /\ stable'[s] = {} /\ promised'[s] = {}
       /\ \A t \in Series \ {s} :
            /\ contents'[t] = contents[t] /\ stable'[t] = stable[t]
            /\ promised'[t] = promised[t] /\ gone'[t] = gone[t]
  /\ UNCHANGED <<up, inflight>>

\* Everything handed over is in, and every promise so far holds.
Return ==
  /\ calling /\ ~calling'
  /\ inflight = Nothing
  /\ Within(promised, promised') /\ Within(promised', stable')
  /\ Within(stable, stable') /\ Within(stable', contents)
  /\ UNCHANGED <<up, contents, inflight, gone>>

\* tsedge_close is a call that ends with all of the contents stable.
Close ==
  /\ calling /\ ~calling' /\ ~up'
  /\ inflight = Nothing /\ stable = contents
  /\ UNCHANGED <<contents, stable, promised, inflight, gone>>

\* The stable points are left, and perhaps some of the running call's.
Crash ==
  /\ up /\ ~up' /\ ~calling'
  /\ \A s \in Series :
       /\ stable[s] \subseteq contents'[s]
       /\ contents'[s] \subseteq stable[s] \union inflight[s]
       /\ promised'[s] = promised[s] \intersect contents'[s]
  /\ stable' = contents' /\ inflight' = Nothing
  /\ UNCHANGED gone

Next ==
  Open \/ Begin \/ Save \/ Admit \/ Expose \/ Delete \/ Return \/ Close \/ Crash

Spec == Init /\ [][Next]_vars

-----------------------------------------------------------------------------

\* What this comes to between calls: promised points are stable.  No crash can
\* lose them then, and no deleted point is among the contents.
Promises ==
  /\ ~calling => Within(promised, stable)
  /\ \A s \in Series : contents[s] \intersect gone[s] = {}
=============================================================================
