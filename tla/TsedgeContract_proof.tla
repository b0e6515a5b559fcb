------------------------ MODULE TsedgeContract_proof ------------------------
(* What TsedgeContract comes to between calls, for any set of series. *)
EXTENDS TsedgeContract, TLAPS

\* What a call in progress and a closed database keep true.
Held ==
  /\ \A s \in Series :
       /\ stable[s] \subseteq contents[s]
       /\ promised[s] \subseteq contents[s]
       /\ contents[s] \intersect gone[s] = {}
       /\ inflight[s] \intersect (contents[s] \union gone[s]) = {}
  /\ ~calling => Within(promised, stable) /\ inflight = Nothing
  /\ ~up => ~calling

\* The empty database holds it.
LEMMA InitHeld == Init => Held
  BY DEF Init, Held, Within, Nothing

\* Opening, and the steps inside a call, keep it.
LEMMA CallHeld == Held /\ (Open \/ Begin \/ Save \/ Admit \/ Expose) => Held'
<1> SUFFICES ASSUME Held, Open \/ Begin \/ Save \/ Admit \/ Expose
             PROVE  Held'
  OBVIOUS
<1> USE DEF Held, Within, Nothing
<1>1. CASE Open
  BY <1>1 DEF Open
<1>2. CASE Begin
  BY <1>2 DEF Begin
<1>3. CASE Save
  BY <1>3 DEF Save
<1>4. CASE Admit
  BY <1>4 DEF Admit
<1>5. CASE Expose
  BY <1>5 DEF Expose
<1> QED
  BY <1>1, <1>2, <1>3, <1>4, <1>5

\* So do a deletion and the three ways a call ends.
LEMMA EndHeld == Held /\ (Delete \/ Return \/ Close \/ Crash) => Held'
<1> SUFFICES ASSUME Held, Delete \/ Return \/ Close \/ Crash
             PROVE  Held'
  OBVIOUS
<1> USE DEF Held, Within, Nothing
<1>1. CASE Delete
  BY <1>1 DEF Delete
<1>2. CASE Return
  BY <1>2 DEF Return
<1>3. CASE Close
  BY <1>3 DEF Close
<1>4. CASE Crash
  BY <1>4 DEF Crash
<1> QED
  BY <1>1, <1>2, <1>3, <1>4

\* Between calls of an application that keeps to the contract's interface, every
\* promised point is stable, so no crash can take it; and no point of a deleted
\* series is ever among the contents.
THEOREM PromisesHold == Spec => []Promises
<1>1. Held /\ UNCHANGED vars => Held'
  BY DEF Held, vars, Within, Nothing
<1>2. Held /\ [Next]_vars => Held'
  BY <1>1, CallHeld, EndHeld DEF Next
<1>3. Held => Promises
  BY DEF Held, Promises
<1> QED
  BY InitHeld, <1>2, <1>3, PTL DEF Spec
=============================================================================
