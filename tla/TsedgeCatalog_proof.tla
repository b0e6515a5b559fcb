------------------------ MODULE TsedgeCatalog_proof ------------------------
(***************************************************************************)
(* The catalog of series: for every set of names and any number of         *)
(* creations, deletions, appends, crashes and failures, a handle leads to  *)
(* the series it was made for, and a series has one handle; points stay    *)
(* with the series they were appended to; manifest.txt lists the series;   *)
(* and tsedge_verify accepts what calls leave, and of what interrupted     *)
(* calls leave nothing that the next opening would refuse, or lose points  *)
(* of in a way that the files could show.                                  *)
(***************************************************************************)
EXTENDS TsedgeCatalog, TsedgeFiles_proof, FiniteSetTheorems

Entries == [name : Names, generation : Nat, birth : Nat]

Tokens == [name : Names, index : Nat, birth : Nat, generation : Nat]

TypeInv ==
  /\ series \in Seq(Entries)
  /\ handles \in Seq(Tokens)
  /\ nextGeneration \in Nat
  /\ births \in Nat
  /\ owner \in [Names -> Nat]
  /\ metadata \in [Names -> {"nodir", "none", "empty", "whole"}]

\* What the steps of a call rely on.
CallInv ==
  /\ pc \in {"metadata", "name"} => target \in Names \ Registered /\ owner[target] # 0
  /\ pc = "unlink" => target \in Registered
  /\ pc = "closed" => series = <<>> /\ handles = <<>>
  /\ pc = "replay" => handles = <<>>

\* Two directories have two births.
OwnerInv ==
  /\ \A s \in Names : owner[s] <= births
  /\ \A s, t \in Names : owner[s] = owner[t] /\ owner[s] # 0 => s = t
  /\ \A s \in Names : metadata[s] # "nodir" => owner[s] # 0

\* Two entries of db->series have two names and two generations, and every entry has
\* the birth of its directory.
SeriesInv ==
  /\ \A i \in DOMAIN series :
       /\ series[i].generation <= nextGeneration
       /\ series[i].birth = owner[series[i].name]
       /\ series[i].birth # 0
  /\ \A i, j \in DOMAIN series :
       series[i].name = series[j].name \/ series[i].generation = series[j].generation => i = j

\* The generation of a handle is that of the entry with its birth, if there is one,
\* and no directory of that birth is left without an entry.
HandlesInv ==
  /\ \A k \in DOMAIN handles :
       /\ handles[k].generation <= nextGeneration
       /\ handles[k].birth <= births
       /\ handles[k].birth # 0
       /\ \A i \in DOMAIN series :
            /\ handles[k].generation = series[i].generation <=> handles[k].birth = series[i].birth
            /\ handles[k].generation = series[i].generation => handles[k].name = series[i].name
       /\ \A s \in Names : owner[s] = handles[k].birth => s \in Registered
  /\ \A j, k \in DOMAIN handles : handles[j].birth = handles[k].birth => j = k

CatalogInv == TypeInv /\ CallInv /\ OwnerInv /\ SeriesInv /\ HandlesInv

-----------------------------------------------------------------------------

\* Membership in Registered, spelled out.
LEMMA InRegistered ==
  ASSUME NEW s
  PROVE  s \in Registered <=> \E i \in DOMAIN series : series[i].name = s
  BY DEF Registered

\* tsedge_db_find_series finds the entry of a registered series.
LEMMA PositionFinds ==
  ASSUME NEW s \in Registered
  PROVE  Position(s) \in DOMAIN series /\ series[Position(s)].name = s
<1>1. \E i \in DOMAIN series : series[i].name = s
  BY InRegistered
<1> QED
  BY <1>1 DEF Position

\* What tsedge_db_resolve_series_handle finds: an entry of the handle's generation, or
\* nothing although it looked at all of them.
LEMMA ResolveFinds ==
  ASSUME TypeInv, SeriesInv, NEW h
  PROVE  \/ /\ Resolve(h) \in DOMAIN series
            /\ series[Resolve(h)].generation = h.generation
         \/ /\ Resolve(h) = 0
            /\ \A i \in DOMAIN series :
                 ~(series[i].generation = h.generation /\ series[i].name = h.name)
<1> DEFINE found == {i \in DOMAIN series :
                       series[i].generation = h.generation /\ series[i].name = h.name}
<1>1. CASE h.index \in DOMAIN series /\ series[h.index].generation = h.generation
  BY <1>1 DEF Resolve
<1>2. CASE ~(h.index \in DOMAIN series /\ series[h.index].generation = h.generation) /\ found # {}
  <2>1. PICK e \in found : TRUE
    BY <1>2
  <2>2. \A j \in found : e <= j
    <3> SUFFICES ASSUME NEW j \in found PROVE e <= j
      OBVIOUS
    <3>1. e = j /\ e \in Nat
      BY <2>1 DEF SeriesInv, TypeInv
    <3> QED
      BY <3>1
  <2>3. Resolve(h) = CHOOSE i \in found : \A j \in found : i <= j
    BY <1>2 DEF Resolve
  <2>4. Resolve(h) \in found
    BY <2>1, <2>2, <2>3
  <2> QED
    BY <2>4
<1>3. CASE ~(h.index \in DOMAIN series /\ series[h.index].generation = h.generation) /\ found = {}
  <2>1. Resolve(h) = 0
    BY <1>3 DEF Resolve
  <2> QED
    BY <1>3, <2>1
<1> QED
  BY <1>1, <1>2, <1>3

\* The two properties, from the invariant.
LEMMA InvReaches == CatalogInv => HandleReachesItsSeries
<1> SUFFICES ASSUME CatalogInv, NEW k \in DOMAIN handles
             PROVE  IF Resolve(handles[k]) # 0
                      THEN series[Resolve(handles[k])].birth = handles[k].birth
                      ELSE \A j \in DOMAIN series : series[j].birth # handles[k].birth
  BY DEF HandleReachesItsSeries
<1>1. TypeInv /\ SeriesInv /\ HandlesInv
  BY DEF CatalogInv
<1>2. 0 \notin DOMAIN series
  BY <1>1 DEF TypeInv
<1> QED
  BY <1>1, <1>2, ResolveFinds DEF HandlesInv

LEMMA InvOneHandle == CatalogInv => OneHandlePerSeries
  BY DEF CatalogInv, HandlesInv, OneHandlePerSeries

-----------------------------------------------------------------------------
(* Steps that leave the entries, the handles and the births alone *)

LEMMA InitInv == Init => CatalogInv
<1> SUFFICES ASSUME Init PROVE CatalogInv
  OBVIOUS
<1> USE DEF Init
<1>1. TypeInv
  BY EmptySeq DEF TypeInv
<1>2. CallInv
  BY DEF CallInv
<1>3. OwnerInv /\ SeriesInv /\ HandlesInv
  BY DEF OwnerInv, SeriesInv, HandlesInv
<1> QED
  BY <1>1, <1>2, <1>3 DEF CatalogInv

LEMMA QuietInv ==
  ASSUME CatalogInv, CallInv',
         UNCHANGED <<series, handles, nextGeneration, births, owner>>,
         metadata' \in [Names -> {"nodir", "none", "empty", "whole"}],
         \A s \in Names : metadata'[s] # "nodir" => metadata[s] # "nodir"
  PROVE  CatalogInv'
<1>1. TypeInv'
  BY DEF CatalogInv, TypeInv
<1>2. OwnerInv'
  BY DEF CatalogInv, OwnerInv
<1>3. SeriesInv'
  BY DEF CatalogInv, SeriesInv
<1>4. HandlesInv'
  BY DEF CatalogInv, HandlesInv, Registered
<1> QED
  BY <1>1, <1>2, <1>3, <1>4 DEF CatalogInv

\* The end of the process: no entry and no handle is left.
LEMMA ForgetInv ==
  ASSUME CatalogInv, Forget, UNCHANGED <<births, owner, metadata>>
  PROVE  CatalogInv'
<1> USE DEF Forget
<1>1. TypeInv'
  BY EmptySeq DEF CatalogInv, TypeInv
<1>2. OwnerInv'
  BY DEF CatalogInv, OwnerInv
<1>3. CallInv' /\ SeriesInv' /\ HandlesInv'
  BY DEF CallInv, SeriesInv, HandlesInv
<1> QED
  BY <1>1, <1>2, <1>3 DEF CatalogInv

LEMMA ManifestInv ==
  CatalogInv /\ (EmptyManifest \/ WriteManifest \/ OpenFails \/ UNCHANGED vars) => CatalogInv'
<1> SUFFICES ASSUME CatalogInv, EmptyManifest \/ WriteManifest \/ OpenFails \/ UNCHANGED vars
             PROVE  CatalogInv'
  OBVIOUS
<1> USE DEF vars, disk, memory, call, origin, history
<1>1. UNCHANGED <<series, handles, nextGeneration, births, owner, metadata>>
  BY DEF EmptyManifest, WriteManifest, OpenFails
<1>2. CallInv'
  BY <1>1 DEF EmptyManifest, WriteManifest, OpenFails, Return, CatalogInv, CallInv, Registered
<1> QED
  BY <1>1, <1>2, QuietInv DEF CatalogInv, TypeInv

LEMMA FlushAllInv ==
  ASSUME CatalogInv, NEW name, NEW s, FlushAll(name, s)
  PROVE  CatalogInv'
<1> USE DEF memory, call, origin, history
<1>1. UNCHANGED <<births, owner, metadata>>
  BY DEF FlushAll
<1>2. CASE name = "close"
  BY <1>1, <1>2, ForgetInv DEF FlushAll
<1>3. CASE name # "close"
  <2>1. UNCHANGED <<series, handles, nextGeneration>>
    BY <1>3 DEF FlushAll
  <2>2. CallInv'
    BY <1>3, <2>1 DEF FlushAll, CallInv, Registered
  <2> QED
    BY <1>1, <2>1, <2>2, QuietInv DEF CatalogInv, TypeInv
<1> QED
  BY <1>2, <1>3

LEMMA UnlinkInv == CatalogInv /\ (UnlinkMetadata \/ UnlinkSegment) => CatalogInv'
<1> SUFFICES ASSUME CatalogInv, UnlinkMetadata \/ UnlinkSegment
             PROVE  CatalogInv'
  OBVIOUS
<1> USE DEF memory, call, origin, history
<1>1. UNCHANGED <<series, handles, nextGeneration, births, owner, pc, target>>
  BY DEF UnlinkMetadata, UnlinkSegment
<1>2. /\ metadata' \in [Names -> {"nodir", "none", "empty", "whole"}]
      /\ \A s \in Names : metadata'[s] # "nodir" => metadata[s] # "nodir"
  BY DEF UnlinkMetadata, UnlinkSegment, CatalogInv, TypeInv
<1>3. CallInv'
  BY <1>1 DEF CatalogInv, CallInv, Registered
<1> QED
  BY <1>1, <1>2, <1>3, QuietInv

LEMMA FlushInv ==
  ASSUME CatalogInv, NEW s, Flush(s)
  PROVE  CatalogInv'
<1>1. UNCHANGED <<births, owner, metadata, series, handles, nextGeneration, pc, target>>
  BY DEF Flush, call, origin
<1>2. CallInv'
  BY <1>1 DEF CatalogInv, CallInv, Registered
<1> QED
  BY <1>1, <1>2, QuietInv DEF CatalogInv, TypeInv

LEMMA EnvironmentInv ==
  CatalogInv /\ (ReplayFails \/ Crash \/ CrashInAppend \/ BlockStops \/ RewriteStops \/ Fault)
    => CatalogInv'
<1> SUFFICES ASSUME CatalogInv,
                    ReplayFails \/ Crash \/ CrashInAppend \/ BlockStops \/ RewriteStops \/ Fault
             PROVE  CatalogInv'
  OBVIOUS
<1> USE DEF disk, memory, origin
<1>1. UNCHANGED <<births, owner, metadata>>
  BY DEF ReplayFails, Crash, CrashInAppend, BlockStops, RewriteStops, Fault
<1>2. CASE Forget
  BY <1>1, <1>2, ForgetInv
<1>3. CASE ~Forget
  <2>1. /\ UNCHANGED <<series, handles, nextGeneration>>
        /\ Return \/ UNCHANGED <<pc, target>>
    <3>1. ASSUME NEW done, CutShort(done)
          PROVE  UNCHANGED <<series, handles, nextGeneration, pc, target>>
      BY <1>3, <3>1 DEF CutShort, Crashes, call
    <3>2. CASE BlockStops
      BY <3>1, <3>2 DEF BlockStops
    <3>3. CASE RewriteStops
      BY <3>1, <3>3 DEF RewriteStops
    <3>4. CASE ReplayFails \/ Crash \/ CrashInAppend \/ Fault
      BY <1>3, <3>4 DEF ReplayFails, Crash, CrashInAppend, Fault, Crashes
    <3> QED
      BY <3>2, <3>3, <3>4
  <2>2. CallInv'
    BY <1>1, <2>1 DEF Return, CatalogInv, CallInv, Registered
  <2> QED
    BY <1>1, <2>1, <2>2, QuietInv DEF CatalogInv, TypeInv
<1> QED
  BY <1>2, <1>3

LEMMA EmptyMetadataInv == CatalogInv /\ EmptyMetadata => CatalogInv'
<1> SUFFICES ASSUME CatalogInv, EmptyMetadata
             PROVE  CatalogInv'
  OBVIOUS
<1> USE DEF memory, origin, EmptyMetadata
<1>1. TypeInv'
  BY DEF CatalogInv, TypeInv
<1>2. CallInv'
  BY DEF CatalogInv, CallInv, Registered
<1>3. OwnerInv'
  BY DEF CatalogInv, CallInv, OwnerInv, TypeInv
<1>4. SeriesInv'
  BY DEF CatalogInv, SeriesInv
<1>5. HandlesInv'
  BY DEF CatalogInv, HandlesInv, Registered
<1> QED
  BY <1>1, <1>2, <1>3, <1>4, <1>5 DEF CatalogInv

-----------------------------------------------------------------------------
(* Steps that make directories and entries *)

LEMMA OpenInv == CatalogInv /\ Open => CatalogInv'
<1> SUFFICES ASSUME CatalogInv, Open
             PROVE  CatalogInv'
  OBVIOUS
<1>1. UNCHANGED <<handles, births, owner, metadata>> /\ handles = <<>> /\ pc' = "replay"
  BY DEF Open, disk, origin, history, CatalogInv, CallInv
<1>2. IsFiniteSet(Directories) /\ Cardinality(Directories) \in Nat
  BY CatalogAssumption, FS_Subset, FS_CardinalityType DEF Directories
<1>3. PICK order \in [1..Cardinality(Directories) -> Directories] :
        /\ Range(order) = Directories /\ IsInjective(order)
        /\ series' = [i \in DOMAIN order |->
                        [name |-> order[i], generation |-> i, birth |-> owner[order[i]]]]
        /\ nextGeneration' = Len(order)
  BY DEF Open
<1>4. Len(order) = Cardinality(Directories) /\ DOMAIN order = 1..Cardinality(Directories)
  BY <1>2, <1>3
<1>5. \A i \in DOMAIN order : order[i] \in Names /\ metadata[order[i]] # "nodir"
  BY <1>3, <1>4 DEF Directories
<1>6. /\ DOMAIN series' = 1..Cardinality(Directories)
      /\ \A i \in DOMAIN series' :
           /\ series'[i] = [name |-> order[i], generation |-> i, birth |-> owner[order[i]]]
           /\ series'[i] \in Entries
  BY <1>2, <1>3, <1>4, <1>5 DEF Entries, CatalogInv, TypeInv
<1>7. TypeInv'
  <2>1. series' \in Seq(Entries)
    BY <1>2, <1>3, <1>4, <1>6, SeqDef
  <2>2. nextGeneration' \in Nat
    BY <1>2, <1>3, <1>4
  <2> QED
    BY <1>1, <2>1, <2>2 DEF CatalogInv, TypeInv
<1>8. CallInv'
  BY <1>1 DEF CallInv
<1>9. OwnerInv'
  BY <1>1 DEF CatalogInv, OwnerInv
<1>10. SeriesInv'
  <2>1. \A i \in DOMAIN series' :
          /\ series'[i].generation <= nextGeneration'
          /\ series'[i].birth = owner'[series'[i].name]
          /\ series'[i].birth # 0
    BY <1>1, <1>2, <1>3, <1>4, <1>5, <1>6 DEF CatalogInv, OwnerInv
  <2>2. \A i, j \in DOMAIN series' :
          series'[i].name = series'[j].name \/ series'[i].generation = series'[j].generation => i = j
    BY <1>3, <1>4, <1>6 DEF IsInjective
  <2> QED
    BY <2>1, <2>2 DEF SeriesInv
<1>11. HandlesInv'
  BY <1>1 DEF HandlesInv
<1> QED
  BY <1>7, <1>8, <1>9, <1>10, <1>11 DEF CatalogInv

\* A new entry at the end of db->series, for a directory that had none.
LEMMA NewEntry ==
  ASSUME CatalogInv,
         NEW s \in Names \ Registered, owner'[s] # 0,
         owner' \in [Names -> Nat], births' \in Nat,
         metadata' \in [Names -> {"nodir", "none", "empty", "whole"}],
         OwnerInv',
         \A n \in Names \ {s} : owner'[n] = owner[n],
         births <= births',
         \A k \in DOMAIN handles : handles[k].birth # owner'[s],
         series' = Append(series, [name |-> s, generation |-> nextGeneration + 1,
                                   birth |-> owner'[s]]),
         nextGeneration' = nextGeneration + 1,
         handles' = handles,
         CallInv'
  PROVE  CatalogInv'
<1> DEFINE e == [name |-> s, generation |-> nextGeneration + 1, birth |-> owner'[s]]
<1>1. TypeInv /\ SeriesInv /\ HandlesInv
  BY DEF CatalogInv
<1>2. e \in Entries /\ series \in Seq(Entries)
  BY <1>1 DEF Entries, TypeInv
<1>3. TypeInv'
  BY <1>1, <1>2, AppendProperties DEF TypeInv
<1>4. /\ Len(series') = Len(series) + 1
      /\ \A i \in DOMAIN series : series'[i] = series[i] /\ i \in DOMAIN series'
      /\ series'[Len(series) + 1] = e
      /\ \A i \in DOMAIN series' : i \in DOMAIN series \/ i = Len(series) + 1
  BY <1>2, AppendProperties
<1>5. \A i \in DOMAIN series : /\ series[i].name \in Names \ {s}
                               /\ series[i].generation \in Nat
                               /\ series[i].generation <= nextGeneration
  <2> SUFFICES ASSUME NEW i \in DOMAIN series
               PROVE  /\ series[i].name \in Names \ {s}
                      /\ series[i].generation \in Nat
                      /\ series[i].generation <= nextGeneration
    OBVIOUS
  <2>1. series[i] \in Entries
    BY <1>2
  <2>2. series[i].name # s
    BY InRegistered
  <2>3. series[i].generation <= nextGeneration
    BY <1>1 DEF SeriesInv
  <2> QED
    BY <2>1, <2>2, <2>3 DEF Entries
<1>6. SeriesInv'
  <2>1. \A i \in DOMAIN series' :
          /\ series'[i].generation <= nextGeneration'
          /\ series'[i].birth = owner'[series'[i].name]
          /\ series'[i].birth # 0
    <3> SUFFICES ASSUME NEW i \in DOMAIN series'
                 PROVE  /\ series'[i].generation <= nextGeneration'
                        /\ series'[i].birth = owner'[series'[i].name]
                        /\ series'[i].birth # 0
      OBVIOUS
    <3>1. CASE i \in DOMAIN series
      BY <1>1, <1>4, <1>5, <3>1 DEF SeriesInv, TypeInv
    <3>2. CASE i = Len(series) + 1
      BY <1>1, <1>4, <3>2 DEF TypeInv
    <3> QED
      BY <1>4, <3>1, <3>2
  <2>2. \A i, j \in DOMAIN series' :
          series'[i].name = series'[j].name \/ series'[i].generation = series'[j].generation => i = j
    BY <1>1, <1>4, <1>5 DEF SeriesInv, TypeInv
  <2> QED
    BY <2>1, <2>2 DEF SeriesInv
<1>7. HandlesInv'
  <2> SUFFICES ASSUME NEW k \in DOMAIN handles
               PROVE  /\ handles[k].generation <= nextGeneration'
                      /\ handles[k].birth <= births'
                      /\ handles[k].birth # 0
                      /\ \A i \in DOMAIN series' :
                           /\ handles[k].generation = series'[i].generation
                                <=> handles[k].birth = series'[i].birth
                           /\ handles[k].generation = series'[i].generation
                                => handles[k].name = series'[i].name
                      /\ \A n \in Names : owner'[n] = handles[k].birth => n \in Registered'
    BY <1>1 DEF HandlesInv
  <2>1. handles[k] \in Tokens
    BY <1>1 DEF TypeInv
  <2>2. /\ handles[k].generation <= nextGeneration'
        /\ handles[k].birth <= births'
        /\ handles[k].birth # 0
    <3>1. /\ handles[k].generation <= nextGeneration
          /\ handles[k].birth <= births
          /\ handles[k].birth # 0
      BY <1>1 DEF HandlesInv
    <3>2. handles[k].generation \in Nat /\ handles[k].birth \in Nat
      BY <2>1 DEF Tokens
    <3>3. nextGeneration \in Nat /\ births \in Nat
      BY <1>1 DEF TypeInv
    <3> QED
      BY <3>1, <3>2, <3>3
  <2>3. \A i \in DOMAIN series' :
          /\ handles[k].generation = series'[i].generation <=> handles[k].birth = series'[i].birth
          /\ handles[k].generation = series'[i].generation => handles[k].name = series'[i].name
    <3>1. handles[k].generation # e.generation /\ handles[k].birth # e.birth
      BY <1>1, <2>1 DEF HandlesInv, Tokens, TypeInv
    <3> QED
      BY <1>1, <1>4, <3>1 DEF HandlesInv
  <2>4. \A n \in Names : owner'[n] = handles[k].birth => n \in Registered'
    <3> SUFFICES ASSUME NEW n \in Names, owner'[n] = handles[k].birth
                 PROVE  n \in Registered'
      OBVIOUS
    <3>1. n \in Registered
      BY <1>1 DEF HandlesInv
    <3>2. PICK i \in DOMAIN series : series[i].name = n
      BY <3>1, InRegistered
    <3> QED
      BY <1>4, <3>2 DEF Registered
  <2> QED
    BY <2>2, <2>3, <2>4
<1> QED
  BY <1>3, <1>6, <1>7 DEF CatalogInv

\* A directory made anew.
LEMMA NewBirth ==
  ASSUME TypeInv, OwnerInv, NEW s \in Names, NEW state \in {"none", "empty", "whole"},
         births' = births + 1,
         owner' = [owner EXCEPT ![s] = births + 1],
         metadata' = [metadata EXCEPT ![s] = state]
  PROVE  /\ OwnerInv'
         /\ births' \in Nat /\ births <= births'
         /\ owner' \in [Names -> Nat] /\ owner'[s] = births + 1 /\ owner'[s] # 0
         /\ metadata' \in [Names -> {"nodir", "none", "empty", "whole"}]
         /\ \A n \in Names \ {s} : owner'[n] = owner[n]
<1>1. /\ births' \in Nat /\ births <= births'
      /\ owner' \in [Names -> Nat] /\ owner'[s] = births + 1 /\ owner'[s] # 0
      /\ metadata' \in [Names -> {"nodir", "none", "empty", "whole"}]
      /\ \A n \in Names \ {s} : owner'[n] = owner[n]
  BY DEF TypeInv
<1>2. OwnerInv'
  <2>1. \A n \in Names : owner'[n] <= births'
    <3> SUFFICES ASSUME NEW n \in Names PROVE owner'[n] <= births'
      OBVIOUS
    <3>1. owner[n] <= births /\ owner[n] \in Nat /\ births \in Nat
      BY DEF OwnerInv, TypeInv
    <3> QED
      BY <1>1, <3>1
  <2>2. \A n \in Names : owner[n] # births + 1
    <3> SUFFICES ASSUME NEW n \in Names PROVE owner[n] # births + 1
      OBVIOUS
    <3>1. owner[n] <= births /\ owner[n] \in Nat /\ births \in Nat
      BY DEF OwnerInv, TypeInv
    <3> QED
      BY <3>1
  <2>3. \A n, m \in Names : owner'[n] = owner'[m] /\ owner'[n] # 0 => n = m
    BY <1>1, <2>2 DEF OwnerInv
  <2>4. \A n \in Names : metadata'[n] # "nodir" => owner'[n] # 0
    BY <1>1 DEF OwnerInv, TypeInv
  <2> QED
    BY <2>1, <2>3, <2>4 DEF OwnerInv
<1> QED
  BY <1>1, <1>2

LEMMA ReplayInv == CatalogInv /\ Replay => CatalogInv'
<1> SUFFICES ASSUME CatalogInv, Replay
             PROVE  CatalogInv'
  OBVIOUS
<1>1. pc = "replay" /\ handles = <<>> /\ handles' = handles
  BY DEF Replay, CatalogInv, CallInv
<1>2. CASE Unknown # {}
  <2>1. PICK s \in Unknown :
          /\ births' = births + 1
          /\ owner' = [owner EXCEPT ![s] = births + 1]
          /\ metadata' = [metadata EXCEPT ![s] = "whole"]
          /\ series' = Append(series, [name |-> s, generation |-> nextGeneration + 1,
                                       birth |-> births + 1])
          /\ nextGeneration' = nextGeneration + 1
          /\ UNCHANGED <<buffer, pc, owed>>
    BY <1>2 DEF Replay
  <2>2. s \in Names \ Registered
    BY DEF Unknown
  <2>3. /\ OwnerInv'
        /\ births' \in Nat /\ births <= births'
        /\ owner' \in [Names -> Nat] /\ owner'[s] = births + 1 /\ owner'[s] # 0
        /\ metadata' \in [Names -> {"nodir", "none", "empty", "whole"}]
        /\ \A n \in Names \ {s} : owner'[n] = owner[n]
    BY <2>1, <2>2, NewBirth DEF CatalogInv
  <2>4. CallInv'
    BY <1>1, <2>1 DEF CallInv
  <2>5. \A k \in DOMAIN handles : handles[k].birth # owner'[s]
    BY <1>1
  <2> QED
    BY <1>1, <2>1, <2>2, <2>3, <2>4, <2>5, NewEntry
<1>3. CASE Unknown = {}
  <2>1. UNCHANGED <<series, handles, nextGeneration, births, owner, metadata>> /\ pc' = "manifest"
    BY <1>3 DEF Replay, origin
  <2>2. CallInv'
    BY <2>1 DEF CallInv
  <2> QED
    BY <2>1, <2>2, QuietInv DEF CatalogInv, TypeInv
<1> QED
  BY <1>2, <1>3

LEMMA MakeDirectoryInv == ASSUME CatalogInv, NEW s \in Names, MakeDirectory(s) PROVE CatalogInv'
<1>1. /\ UNCHANGED <<series, handles, nextGeneration>> /\ s \notin Registered
      /\ pc' = "metadata" /\ target' = s
  BY DEF MakeDirectory, memory
<1>2. CASE metadata[s] = "nodir"
  <2>1. /\ births' = births + 1
        /\ owner' = [owner EXCEPT ![s] = births + 1]
        /\ metadata' = [metadata EXCEPT ![s] = "none"]
    BY <1>2 DEF MakeDirectory
  <2>2. /\ OwnerInv'
        /\ births' \in Nat /\ births <= births'
        /\ owner' \in [Names -> Nat] /\ owner'[s] = births + 1 /\ owner'[s] # 0
        /\ metadata' \in [Names -> {"nodir", "none", "empty", "whole"}]
        /\ \A n \in Names \ {s} : owner'[n] = owner[n]
    BY <2>1, NewBirth DEF CatalogInv
  <2>3. TypeInv'
    BY <1>1, <2>2 DEF CatalogInv, TypeInv
  <2>4. CallInv'
    BY <1>1, <2>2 DEF CallInv, Registered
  <2>5. SeriesInv'
    <3>1. \A i \in DOMAIN series : series[i] \in Entries /\ series[i].name # s
      BY <1>1, InRegistered DEF CatalogInv, TypeInv
    <3>2. \A i \in DOMAIN series : series[i].name \in Names \ {s}
      BY <3>1 DEF Entries
    <3> QED
      BY <1>1, <2>2, <3>2 DEF CatalogInv, SeriesInv
  <2>6. HandlesInv'
    <3> SUFFICES ASSUME NEW k \in DOMAIN handles
                 PROVE  /\ handles[k].birth <= births'
                        /\ \A n \in Names : owner'[n] = handles[k].birth => n \in Registered
      BY <1>1 DEF CatalogInv, HandlesInv, Registered
    <3>1. handles[k].birth \in Nat /\ births \in Nat /\ handles[k].birth <= births
      <4>1. handles[k] \in Tokens /\ births \in Nat
        BY DEF CatalogInv, TypeInv
      <4>2. handles[k].birth <= births
        BY DEF CatalogInv, HandlesInv
      <4> QED
        BY <4>1, <4>2 DEF Tokens
    <3>2. \A n \in Names : owner'[n] = handles[k].birth => owner[n] = handles[k].birth
      BY <2>2, <3>1
    <3> QED
      BY <2>1, <3>1, <3>2 DEF CatalogInv, HandlesInv
  <2> QED
    BY <2>2, <2>3, <2>4, <2>5, <2>6 DEF CatalogInv
<1>3. CASE metadata[s] # "nodir"
  <2>1. UNCHANGED <<births, owner, metadata>>
    BY <1>3 DEF MakeDirectory, origin
  <2>2. CallInv'
    BY <1>1, <1>3, <2>1 DEF CatalogInv, OwnerInv, CallInv, Registered
  <2> QED
    BY <1>1, <2>1, <2>2, QuietInv DEF CatalogInv, TypeInv
<1> QED
  BY <1>2, <1>3

LEMMA RegisterInv == CatalogInv /\ Register => CatalogInv'
<1> SUFFICES ASSUME CatalogInv, Register
             PROVE  CatalogInv'
  OBVIOUS
<1> DEFINE s == target
<1>1. /\ UNCHANGED <<handles, births, owner>> /\ pc' = "manifest"
      /\ metadata' = [metadata EXCEPT ![s] = "whole"]
      /\ series' = Append(series, [name |-> s, generation |-> nextGeneration + 1,
                                   birth |-> owner[s]])
      /\ nextGeneration' = nextGeneration + 1
  BY DEF Register, origin
<1>2. s \in Names \ Registered /\ owner[s] # 0
  BY DEF Register, CatalogInv, CallInv
<1>3. CallInv'
  BY <1>1 DEF CallInv
<1>4. /\ metadata' \in [Names -> {"nodir", "none", "empty", "whole"}]
      /\ owner \in [Names -> Nat] /\ births \in Nat
  BY <1>1 DEF CatalogInv, TypeInv
<1>5. OwnerInv'
  BY <1>1, <1>2, <1>4 DEF CatalogInv, OwnerInv, TypeInv
<1>6. \A k \in DOMAIN handles : handles[k].birth # owner[s]
  BY <1>2 DEF CatalogInv, HandlesInv
<1>7. births <= births'
  BY <1>1, <1>4
<1> HIDE DEF s
<1> QED
  BY <1>1, <1>2, <1>3, <1>4, <1>5, <1>6, <1>7, NewEntry

-----------------------------------------------------------------------------
(* Handles and deletions *)

\* Handles may change the index they cache and nothing else.
LEMMA SameHandles ==
  ASSUME CatalogInv, CallInv',
         UNCHANGED <<series, nextGeneration, births, owner, metadata>>,
         NEW k \in DOMAIN handles, NEW i \in Nat,
         handles' = [handles EXCEPT ![k].index = i]
  PROVE  CatalogInv'
<1>1. handles \in Seq(Tokens)
  BY DEF CatalogInv, TypeInv
<1>2. /\ DOMAIN handles' = DOMAIN handles
      /\ \A j \in DOMAIN handles :
           /\ handles'[j].name = handles[j].name
           /\ handles'[j].generation = handles[j].generation
           /\ handles'[j].birth = handles[j].birth
  BY <1>1 DEF Tokens
<1>3. handles' \in Seq(Tokens)
  <2>0. handles[k] \in Tokens
    BY <1>1
  <2>1. [handles[k] EXCEPT !.index = i] \in Tokens
    BY <2>0 DEF Tokens
  <2> QED
    BY <1>1, <2>1, ExceptSeq
<1>4. TypeInv'
  BY <1>3 DEF CatalogInv, TypeInv
<1>5. OwnerInv' /\ SeriesInv'
  BY DEF CatalogInv, OwnerInv, SeriesInv
<1>6. HandlesInv'
  BY <1>2 DEF CatalogInv, HandlesInv, Registered
<1> QED
  BY <1>4, <1>5, <1>6 DEF CatalogInv

\* The members of a sequence with one more at its end.
LEMMA AppendMembers ==
  ASSUME NEW S, NEW seq \in Seq(S), NEW e \in S
  PROVE  /\ Append(seq, e) \in Seq(S)
         /\ \A k \in DOMAIN Append(seq, e) :
              \/ k \in DOMAIN seq /\ Append(seq, e)[k] = seq[k]
              \/ k = Len(seq) + 1 /\ Append(seq, e)[k] = e
  BY AppendProperties

LEMMA GetHandleInv == ASSUME CatalogInv, NEW s \in Names, GetHandle(s) PROVE CatalogInv'
<1> DEFINE i == Position(s)
           h == [name |-> s, index |-> i, birth |-> series[i].birth,
                 generation |-> series[i].generation]
<1>1. /\ UNCHANGED <<series, nextGeneration, births, owner, metadata>>
      /\ pc = "idle" /\ pc' = pc /\ s \in Registered
  BY DEF GetHandle, disk, call, origin
<1>2. CallInv'
  BY <1>1 DEF CallInv
<1>3. /\ i \in DOMAIN series /\ i \in Nat
      /\ series[i] \in Entries /\ series[i].name = s
  BY <1>1, PositionFinds DEF CatalogInv, TypeInv
<1>4. CASE Cached(s) # {}
  <2>1. handles' = [handles EXCEPT ![CHOOSE k \in Cached(s) : TRUE].index = i]
    BY <1>4 DEF GetHandle
  <2>2. (CHOOSE k \in Cached(s) : TRUE) \in DOMAIN handles
    BY <1>4 DEF Cached
  <2> HIDE DEF i
  <2> QED
    BY <1>1, <1>2, <1>3, <2>1, <2>2, SameHandles
<1>5. CASE Cached(s) = {}
  <2>1. handles' = Append(handles, h)
    BY <1>5 DEF GetHandle
  <2>2. h \in Tokens /\ handles \in Seq(Tokens)
    <3>1. series[i].generation \in Nat /\ series[i].birth \in Nat
      BY <1>3 DEF Entries
    <3>2. h \in Tokens
      BY <1>3, <3>1 DEF Tokens
    <3> QED
      BY <3>2 DEF CatalogInv, TypeInv
  <2>3. /\ handles' \in Seq(Tokens)
        /\ \A k \in DOMAIN handles' : \/ k \in DOMAIN handles /\ handles'[k] = handles[k]
                                      \/ k = Len(handles) + 1 /\ handles'[k] = h
    <3> HIDE DEF h
    <3>1. /\ Append(handles, h) \in Seq(Tokens)
          /\ \A k \in DOMAIN Append(handles, h) :
               \/ k \in DOMAIN handles /\ Append(handles, h)[k] = handles[k]
               \/ k = Len(handles) + 1 /\ Append(handles, h)[k] = h
      BY <2>2, AppendMembers
    <3> QED
      BY <2>1, <3>1
  <2>4. /\ h.generation = series[i].generation /\ h.birth = series[i].birth /\ h.name = s
        /\ h.birth = owner[s]
    BY <1>3 DEF CatalogInv, SeriesInv
  <2>5. /\ h.generation <= nextGeneration /\ h.birth <= births /\ h.birth # 0
    BY <1>3, <2>4 DEF CatalogInv, SeriesInv, OwnerInv
  <2>6. \A j \in DOMAIN series :
          /\ h.generation = series[j].generation <=> h.birth = series[j].birth
          /\ h.generation = series[j].generation => h.name = series[j].name
    <3> SUFFICES ASSUME NEW j \in DOMAIN series
                 PROVE  /\ h.generation = series[j].generation <=> h.birth = series[j].birth
                        /\ h.generation = series[j].generation => h.name = series[j].name
      OBVIOUS
    <3>1. series[j] \in Entries
      BY DEF CatalogInv, TypeInv
    <3>2. h.generation = series[j].generation => i = j
      BY <1>3, <2>4 DEF CatalogInv, SeriesInv
    <3>3. h.birth = series[j].birth => i = j
      <4> SUFFICES ASSUME h.birth = series[j].birth PROVE i = j
        OBVIOUS
      <4>1. owner[s] = owner[series[j].name] /\ owner[s] # 0 /\ series[j].name \in Names
        BY <2>4, <2>5, <3>1 DEF CatalogInv, SeriesInv, Entries
      <4>2. series[j].name = s
        BY <4>1 DEF CatalogInv, OwnerInv
      <4> QED
        BY <1>3, <4>2 DEF CatalogInv, SeriesInv
    <3> QED
      BY <1>3, <2>4, <3>2, <3>3
  <2>7. \A n \in Names : owner[n] = h.birth => n \in Registered
    BY <1>1, <2>4, <2>5 DEF CatalogInv, OwnerInv
  <2>8. \A k \in DOMAIN handles : handles[k].birth # h.birth
    <3> SUFFICES ASSUME NEW k \in DOMAIN handles, handles[k].birth = h.birth
                 PROVE  FALSE
      OBVIOUS
    <3>1. handles[k].generation = series[i].generation /\ handles[k].name = s
      BY <1>3, <2>4 DEF CatalogInv, HandlesInv
    <3> QED
      BY <1>5, <3>1 DEF Cached
  <2> HIDE DEF h, i
  <2>9. HandlesInv'
    <3>1. \A k \in DOMAIN handles' :
            /\ handles'[k].generation <= nextGeneration
            /\ handles'[k].birth <= births
            /\ handles'[k].birth # 0
            /\ \A j \in DOMAIN series :
                 /\ handles'[k].generation = series[j].generation
                      <=> handles'[k].birth = series[j].birth
                 /\ handles'[k].generation = series[j].generation
                      => handles'[k].name = series[j].name
            /\ \A n \in Names : owner[n] = handles'[k].birth => n \in Registered
      BY <2>3, <2>5, <2>6, <2>7 DEF CatalogInv, HandlesInv
    <3>2. \A j, k \in DOMAIN handles' : handles'[j].birth = handles'[k].birth => j = k
      BY <2>3, <2>8 DEF CatalogInv, HandlesInv
    <3>3. Registered' = Registered
      BY <1>1 DEF Registered
    <3> QED
      BY <1>1, <3>1, <3>2, <3>3 DEF HandlesInv
  <2>10. TypeInv'
    BY <1>1, <2>3 DEF CatalogInv, TypeInv
  <2>11. OwnerInv' /\ SeriesInv'
    BY <1>1 DEF CatalogInv, OwnerInv, SeriesInv
  <2> QED
    BY <1>2, <2>9, <2>10, <2>11 DEF CatalogInv
<1> QED
  BY <1>4, <1>5

LEMMA AppendByNameInv == ASSUME CatalogInv, NEW s, AppendByName(s) PROVE CatalogInv'
<1>1. UNCHANGED <<series, handles, nextGeneration, births, owner, metadata, pc, target>>
  BY DEF AppendByName, call, origin
<1>2. CallInv'
  BY <1>1 DEF CatalogInv, CallInv, Registered
<1> QED
  BY <1>1, <1>2, QuietInv DEF CatalogInv, TypeInv

LEMMA AppendByHandleInv ==
  ASSUME CatalogInv, NEW k \in DOMAIN handles, AppendByHandle(k) PROVE CatalogInv'
<1>1. /\ UNCHANGED <<series, nextGeneration, births, owner, metadata, pc, target>>
      /\ pc = "idle" /\ Resolve(handles[k]) # 0
      /\ handles' = [handles EXCEPT ![k].index = Resolve(handles[k])]
  BY DEF AppendByHandle, call, origin
<1>2. CallInv'
  BY <1>1 DEF CallInv
<1>3. Resolve(handles[k]) \in Nat
  BY <1>1, ResolveFinds DEF CatalogInv, TypeInv
<1> HIDE DEF Resolve
<1> QED
  BY <1>1, <1>2, <1>3, SameHandles

\* A sequence without its i-th element.
LEMMA RemoveAtElements ==
  ASSUME NEW S, NEW seq \in Seq(S), NEW i \in DOMAIN seq
  PROVE  /\ RemoveAt(seq, i) \in Seq(S)
         /\ DOMAIN RemoveAt(seq, i) = 1..(Len(seq) - 1)
         /\ \A j \in 1..(Len(seq) - 1) :
              RemoveAt(seq, i)[j] = IF j < i THEN seq[j] ELSE seq[j + 1]
<1> DEFINE before == SubSeq(seq, 1, i - 1)
           after  == SubSeq(seq, i + 1, Len(seq))
<1>1. i \in 1..Len(seq) /\ Len(seq) \in Nat
  OBVIOUS
<1>2. /\ before \in Seq(S) /\ Len(before) = i - 1
      /\ \A j \in 1..(i - 1) : before[j] = seq[j]
  BY <1>1, SubSeqProperties
<1>3. /\ after \in Seq(S) /\ Len(after) = Len(seq) - i
      /\ \A j \in 1..(Len(seq) - i) : after[j] = seq[i + j]
  BY <1>1, SubSeqProperties
<1>4. RemoveAt(seq, i) = before \o after
  BY DEF RemoveAt
<1> HIDE DEF before, after
<1>5. /\ before \o after \in Seq(S)
      /\ Len(before \o after) = Len(seq) - 1
      /\ \A j \in 1..(Len(seq) - 1) :
           (before \o after)[j] = IF j <= i - 1 THEN before[j] ELSE after[j - (i - 1)]
  <2>1. before \o after \in Seq(S) /\ Len(before \o after) = Len(before) + Len(after)
    BY <1>2, <1>3, ConcatProperties
  <2>2. Len(before) + Len(after) = Len(seq) - 1
    BY <1>1, <1>2, <1>3
  <2>3. \A j \in 1..(Len(before) + Len(after)) :
          (before \o after)[j] =
            IF j <= Len(before) THEN before[j] ELSE after[j - Len(before)]
    BY <1>2, <1>3, ConcatProperties
  <2> QED
    BY <1>2, <2>1, <2>2, <2>3
<1>6. \A j \in 1..(Len(seq) - 1) :
        (before \o after)[j] = IF j < i THEN seq[j] ELSE seq[j + 1]
  <2> SUFFICES ASSUME NEW j \in 1..(Len(seq) - 1)
               PROVE  (before \o after)[j] = IF j < i THEN seq[j] ELSE seq[j + 1]
    OBVIOUS
  <2>1. CASE j < i
    <3>1. j \in 1..(i - 1) /\ j <= i - 1
      BY <1>1, <2>1
    <3> QED
      BY <1>2, <1>5, <2>1, <3>1
  <2>2. CASE ~(j < i)
    <3>1. /\ j - (i - 1) \in 1..(Len(seq) - i)
          /\ ~(j <= i - 1)
          /\ i + (j - (i - 1)) = j + 1
      BY <1>1, <2>2
    <3> QED
      BY <1>3, <1>5, <2>2, <3>1
  <2> QED
    BY <2>1, <2>2
<1> QED
  BY <1>4, <1>5, <1>6

LEMMA RemoveDirectoryInv == CatalogInv /\ RemoveDirectory => CatalogInv'
<1> SUFFICES ASSUME CatalogInv, RemoveDirectory
             PROVE  CatalogInv'
  OBVIOUS
<1> DEFINE p == Position(target)
<1>1. /\ UNCHANGED <<handles, nextGeneration, births>> /\ pc' = "manifest"
      /\ target \in Registered
      /\ series' = RemoveAt(series, p)
      /\ owner' = [owner EXCEPT ![target] = 0]
      /\ metadata' = [metadata EXCEPT ![target] = "nodir"]
  BY DEF RemoveDirectory, CatalogInv, CallInv
<1>2. TypeInv /\ OwnerInv /\ SeriesInv /\ HandlesInv
  BY DEF CatalogInv
<1>3. p \in DOMAIN series /\ series[p].name = target
  BY <1>1, PositionFinds
<1> HIDE DEF p
<1>4. target \in Names
  <2>1. series[p] \in Entries
    BY <1>2, <1>3 DEF TypeInv
  <2> QED
    BY <1>3, <2>1 DEF Entries
<1>5. /\ series' \in Seq(Entries)
      /\ DOMAIN series' = 1..(Len(series) - 1)
      /\ \A j \in DOMAIN series' : series'[j] = IF j < p THEN series[j] ELSE series[j + 1]
  BY <1>1, <1>2, <1>3, RemoveAtElements DEF TypeInv
<1>6. p \in Nat /\ Len(series) \in Nat /\ DOMAIN series = 1..Len(series) /\ p \in 1..Len(series)
  BY <1>2, <1>3 DEF TypeInv
\* Every entry that is left was there before, at another place or the same.
<1>7. \A j \in DOMAIN series' :
        LET old == IF j < p THEN j ELSE j + 1
        IN  old \in DOMAIN series /\ old # p /\ series'[j] = series[old]
  <2> SUFFICES ASSUME NEW j \in DOMAIN series'
               PROVE  LET old == IF j < p THEN j ELSE j + 1
                      IN  old \in DOMAIN series /\ old # p /\ series'[j] = series[old]
    OBVIOUS
  <2>1. j \in 1..(Len(series) - 1)
    BY <1>5
  <2>2. CASE j < p
    BY <1>5, <1>6, <2>1, <2>2
  <2>3. CASE ~(j < p)
    BY <1>5, <1>6, <2>1, <2>3
  <2> QED
    BY <2>2, <2>3
<1>8. \A j \in DOMAIN series' : series'[j].name \in Names \ {target}
  <2> SUFFICES ASSUME NEW j \in DOMAIN series' PROVE series'[j].name \in Names \ {target}
    OBVIOUS
  <2>1. PICK old \in DOMAIN series : old # p /\ series'[j] = series[old]
    BY <1>7
  <2>2. series[old].name # target
    BY <1>2, <1>3, <2>1 DEF SeriesInv
  <2>3. series[old] \in Entries
    BY <1>2 DEF TypeInv
  <2> QED
    BY <2>1, <2>2, <2>3 DEF Entries
<1>9. \A n \in Names \ {target} : n \in Registered => n \in Registered'
  <2> SUFFICES ASSUME NEW n \in Names \ {target}, n \in Registered PROVE n \in Registered'
    OBVIOUS
  <2>1. PICK i \in DOMAIN series : series[i].name = n
    BY InRegistered
  <2>2. i # p /\ i \in 1..Len(series)
    BY <1>3, <1>6, <2>1
  <2>3. PICK j \in DOMAIN series' : series'[j] = series[i]
    <3>1. CASE i < p
      BY <1>5, <1>6, <2>2, <3>1
    <3>2. CASE i > p
      <4>1. i - 1 \in DOMAIN series' /\ series'[i - 1] = series[i]
        BY <1>5, <1>6, <2>2, <3>2
      <4> QED
        BY <4>1
    <3> QED
      BY <1>6, <2>2, <3>1, <3>2
  <2> QED
    BY <2>1, <2>3 DEF Registered
<1>10. /\ owner' \in [Names -> Nat]
       /\ owner'[target] = 0
       /\ \A n \in Names \ {target} : owner'[n] = owner[n] /\ metadata'[n] = metadata[n]
       /\ metadata' \in [Names -> {"nodir", "none", "empty", "whole"}]
       /\ metadata'[target] = "nodir"
  BY <1>1, <1>2, <1>4 DEF TypeInv
<1>11. TypeInv'
  BY <1>1, <1>2, <1>5, <1>10 DEF TypeInv
<1>12. CallInv'
  BY <1>1 DEF CallInv
<1>13. OwnerInv'
  <2>1. \A n \in Names : owner'[n] <= births'
    <3> SUFFICES ASSUME NEW n \in Names PROVE owner'[n] <= births
      BY <1>1
    <3>1. births \in Nat /\ owner[n] <= births
      BY <1>2 DEF TypeInv, OwnerInv
    <3> QED
      BY <1>10, <3>1
  <2> QED
    BY <1>1, <1>2, <1>10, <2>1 DEF OwnerInv
<1>14. SeriesInv'
  <2>1. \A j \in DOMAIN series' :
          /\ series'[j].generation <= nextGeneration'
          /\ series'[j].birth = owner'[series'[j].name]
          /\ series'[j].birth # 0
    BY <1>1, <1>2, <1>7, <1>8, <1>10 DEF SeriesInv
  <2>2. \A i, j \in DOMAIN series' :
          series'[i].name = series'[j].name \/ series'[i].generation = series'[j].generation => i = j
    <3> SUFFICES ASSUME NEW i \in DOMAIN series', NEW j \in DOMAIN series',
                        series'[i].name = series'[j].name
                          \/ series'[i].generation = series'[j].generation
                 PROVE  i = j
      OBVIOUS
    <3> DEFINE Old(n) == IF n < p THEN n ELSE n + 1
    <3>1. /\ Old(i) \in DOMAIN series /\ series'[i] = series[Old(i)]
          /\ Old(j) \in DOMAIN series /\ series'[j] = series[Old(j)]
      BY <1>7
    <3>2. Old(i) = Old(j)
      BY <1>2, <3>1 DEF SeriesInv
    <3>3. i \in Nat /\ j \in Nat
      BY <1>5, <1>6
    <3> QED
      BY <1>6, <3>2, <3>3
  <2> QED
    BY <2>1, <2>2 DEF SeriesInv
<1>15. HandlesInv'
  <2> SUFFICES ASSUME NEW k \in DOMAIN handles
               PROVE  /\ \A i \in DOMAIN series' :
                           /\ handles[k].generation = series'[i].generation
                                <=> handles[k].birth = series'[i].birth
                           /\ handles[k].generation = series'[i].generation
                                => handles[k].name = series'[i].name
                      /\ \A n \in Names : owner'[n] = handles[k].birth => n \in Registered'
    BY <1>1, <1>2 DEF HandlesInv
  <2>1. \A n \in Names : owner'[n] = handles[k].birth => n \in Registered'
    <3> SUFFICES ASSUME NEW n \in Names, owner'[n] = handles[k].birth PROVE n \in Registered'
      OBVIOUS
    <3>1. handles[k].birth # 0
      BY <1>2 DEF HandlesInv
    <3>2. n # target
      BY <1>10, <3>1
    <3>3. n \in Registered
      BY <1>2, <1>10, <3>2 DEF HandlesInv
    <3> QED
      BY <1>9, <3>2, <3>3
  <2> QED
    BY <1>2, <1>7, <2>1 DEF HandlesInv
<1> QED
  BY <1>11, <1>12, <1>13, <1>14, <1>15 DEF CatalogInv

-----------------------------------------------------------------------------

LEMMA NextInv == CatalogInv /\ [Next]_vars => CatalogInv'
<1> SUFFICES ASSUME CatalogInv, [Next]_vars
             PROVE  CatalogInv'
  OBVIOUS
<1>1. CASE CreateStep
  BY <1>1, MakeDirectoryInv, EmptyMetadataInv, RegisterInv DEF CreateStep
<1>2. CASE HandleStep
  BY <1>2, GetHandleInv, AppendByNameInv, AppendByHandleInv DEF HandleStep
<1>3. CASE FlushStep
  BY <1>3, FlushInv, FlushAllInv DEF FlushStep
<1>4. CASE DeleteStep
  BY <1>4, UnlinkInv, RemoveDirectoryInv DEF DeleteStep
<1> QED
  BY <1>1, <1>2, <1>3, <1>4, OpenInv, ReplayInv, EnvironmentInv, ManifestInv DEF Next

\* Whatever series are created and deleted between two uses of a handle, and whatever
\* calls fail half-way, the handle leads to the series it was made for, or to none when
\* that is gone, and never to one that has its place in db->series or its name.
THEOREM HandlesReach == Spec => []HandleReachesItsSeries
  BY InitInv, NextInv, InvReaches, PTL DEF Spec

\* However often handles are asked for, a series has one: the cache of handles grows
\* with the number of series and not with the number of calls.
THEOREM OneHandle == Spec => []OneHandlePerSeries
  BY InitInv, NextInv, InvOneHandle, PTL DEF Spec

-----------------------------------------------------------------------------
(* What the files and the buffers hold *)

\* A record of wal.log, and a block of a segment file.
Record   == [series : Names, points : Seq(Nat), got : Nat]
AnyBlock == [points : Seq(Nat), got : Nat]

\* What a reader finds in a file that is wal.log, and in one that is a segment file.
LoggedIn(w, s) ==
  FlattenSeq([i \in DOMAIN Intact(w) |-> IF w[i].series = s THEN w[i].points ELSE <<>>])

StoredIn(b) == FlattenSeq([i \in DOMAIN Intact(b) |-> b[i].points])

\* The items before the first fragment are those of the file.
LEMMA IntactItems ==
  ASSUME NEW S, NEW file \in Seq(S)
  PROVE  /\ DOMAIN Intact(file) = 1..Len(Intact(file)) /\ Len(Intact(file)) \in Nat
         /\ \A i \in 1..Len(Intact(file)) : i \in 1..Len(file) /\ file[i] \in S
<1>1. Intact(file) \in Seq(S) /\ Len(Intact(file)) \in Nat /\ Len(Intact(file)) <= Len(file)
  BY IntactIsPrefix
<1>2. \A i \in 1..Len(Intact(file)) : i \in 1..Len(file)
  BY <1>1
<1> QED
  BY <1>1, <1>2, ElementOfSeq

\* A sequence with one more element.
LEMMA IsAppend ==
  ASSUME NEW S, NEW q \in Seq(S), NEW r \in Seq(S), NEW x \in S, Len(r) = Len(q) + 1,
         r[Len(q) + 1] = x, \A i \in 1..Len(q) : r[i] = q[i]
  PROVE  r = Append(q, x)
<1>1. Append(q, x) \in Seq(S) /\ Len(Append(q, x)) = Len(q) + 1 /\ Len(q) \in Nat
  OBVIOUS
<1>2. ASSUME NEW i \in 1..Len(r) PROVE r[i] = Append(q, x)[i]
  <2>1. i \in 1..Len(q) \/ i = Len(q) + 1
    BY <1>1
  <2>2. /\ \A j \in 1..Len(q) : Append(q, x)[j] = q[j]
        /\ Append(q, x)[Len(q) + 1] = x
    OBVIOUS
  <2> QED
    BY <2>1, <2>2
<1> QED
  BY <1>1, <1>2, SeqEqual

\* What a reader of wal.log finds for a series.
LEMMA LoggedIs ==
  ASSUME NEW w \in Seq(Record), NEW s
  PROVE  LoggedIn(w, s) \in Seq(Nat) /\ Range(LoggedIn(w, s)) \subseteq InLog(w, s)
<1> DEFINE n == Len(Intact(w))
           q == [i \in DOMAIN Intact(w) |-> IF w[i].series = s THEN w[i].points ELSE <<>>]
<1>1. DOMAIN Intact(w) = 1..n /\ n \in Nat /\ \A i \in 1..n : i \in 1..Len(w) /\ w[i] \in Record
  BY IntactItems
<1> HIDE DEF n
<1>2. q \in Seq(Seq(Nat)) /\ Len(q) = n
  <2>1. \A i \in 1..n : (IF w[i].series = s THEN w[i].points ELSE <<>>) \in Seq(Nat)
    BY <1>1, EmptySeq DEF Record
  <2> QED
    BY <1>1, <2>1, IsASeq
<1>3. \A i \in 1..n : q[i] = IF w[i].series = s THEN w[i].points ELSE <<>>
  BY <1>1
<1>4. LoggedIn(w, s) = FlattenSeq(q)
  BY DEF LoggedIn
<1> HIDE DEF q
<1>5. FlattenSeq(q) \in Seq(Nat) /\ Range(FlattenSeq(q)) = UNION {Range(q[i]) : i \in 1..Len(q)}
  BY <1>2, FlattenRange
<1>6. ASSUME NEW x \in Range(FlattenSeq(q)) PROVE x \in InLog(w, s)
  <2>1. PICK i \in 1..n : x \in Range(q[i])
    BY <1>2, <1>5, <1>6
  <2>2. w[i].series = s /\ x \in Range(w[i].points) /\ i \in 1..Len(w)
    BY <1>1, <1>3, <2>1, RangeEmpty
  <2> QED
    BY <2>2, InLogMember
<1> QED
  BY <1>4, <1>5, <1>6

\* What a scan of a segment file finds.
LEMMA StoredIs ==
  ASSUME NEW b \in Seq(AnyBlock)
  PROVE  StoredIn(b) \in Seq(Nat) /\ Range(StoredIn(b)) \subseteq PointsIn(b)
<1> DEFINE n == Len(Intact(b))
           q == [i \in DOMAIN Intact(b) |-> b[i].points]
<1>1. DOMAIN Intact(b) = 1..n /\ n \in Nat /\ \A i \in 1..n : i \in 1..Len(b) /\ b[i] \in AnyBlock
  BY IntactItems
<1> HIDE DEF n
<1>2. q \in Seq(Seq(Nat)) /\ Len(q) = n
  <2>1. \A i \in 1..n : b[i].points \in Seq(Nat)
    BY <1>1 DEF AnyBlock
  <2> QED
    BY <1>1, <2>1, IsASeq
<1>3. \A i \in 1..n : q[i] = b[i].points
  BY <1>1
<1>4. StoredIn(b) = FlattenSeq(q)
  BY DEF StoredIn
<1> HIDE DEF q
<1>5. FlattenSeq(q) \in Seq(Nat) /\ Range(FlattenSeq(q)) = UNION {Range(q[i]) : i \in 1..Len(q)}
  BY <1>2, FlattenRange
<1>6. ASSUME NEW x \in Range(FlattenSeq(q)) PROVE x \in PointsIn(b)
  <2>1. PICK i \in 1..n : x \in Range(q[i])
    BY <1>2, <1>5, <1>6
  <2> QED
    BY <1>1, <1>3, <2>1, PointsInMember
<1> QED
  BY <1>4, <1>5, <1>6

\* A record more at the end of a wal.log without fragments.
LEMMA LoggedAppend ==
  ASSUME NEW w \in Seq(Record), NEW x \in Record, NEW s, Fragments(Append(w, x)) = {}
  PROVE  /\ Fragments(w) = {}
         /\ LoggedIn(Append(w, x), s) = LoggedIn(w, s) \o (IF x.series = s THEN x.points ELSE <<>>)
<1> DEFINE v == Append(w, x)
           n == Len(w)
           part == IF x.series = s THEN x.points ELSE <<>>
           q == [i \in DOMAIN Intact(w) |-> IF w[i].series = s THEN w[i].points ELSE <<>>]
           r == [i \in DOMAIN Intact(v) |-> IF v[i].series = s THEN v[i].points ELSE <<>>]
<1>1. /\ v \in Seq(Record) /\ Len(v) = n + 1 /\ n \in Nat /\ DOMAIN v = 1..(n + 1) /\ DOMAIN w = 1..n
      /\ v[n + 1] = x /\ \A i \in 1..n : v[i] = w[i] /\ w[i] \in Record
  BY AppendProperties, ElementOfSeq
<1>2. Fragments(v) = {}
  OBVIOUS
<1>3. LoggedIn(v, s) = FlattenSeq(r) /\ LoggedIn(w, s) = FlattenSeq(q)
  BY DEF LoggedIn
<1> HIDE DEF v
<1>4. Fragments(w) = {}
  <2>1. \A i \in 1..n : IsWhole(w[i])
    BY <1>1, <1>2, NoFragmentsMeans
  <2> QED
    BY <1>1, <2>1, NoFragmentsMeans
<1>5. Intact(w) = w /\ Intact(v) = v
  BY <1>2, <1>4, NoFragments
<1>6. q = [i \in 1..n |-> IF w[i].series = s THEN w[i].points ELSE <<>>]
  BY <1>1, <1>5
<1>7. r = [i \in 1..(n + 1) |-> IF v[i].series = s THEN v[i].points ELSE <<>>]
  BY <1>1, <1>5
<1>8. /\ \A i \in 1..n : (IF w[i].series = s THEN w[i].points ELSE <<>>) \in Seq(Nat)
      /\ \A i \in 1..(n + 1) : (IF v[i].series = s THEN v[i].points ELSE <<>>) \in Seq(Nat)
  <2>1. \A y \in Record : (IF y.series = s THEN y.points ELSE <<>>) \in Seq(Nat)
    BY EmptySeq DEF Record
  <2>2. \A i \in 1..(n + 1) : v[i] \in Record
    BY <1>1, ElementOfSeq
  <2> QED
    BY <1>1, <2>1, <2>2
<1> HIDE DEF q, r
<1>9. q \in Seq(Seq(Nat)) /\ Len(q) = n
  BY <1>1, <1>6, <1>8, IsASeq
<1>10. r \in Seq(Seq(Nat)) /\ Len(r) = n + 1
  <2>1. n + 1 \in Nat
    BY <1>1
  <2> QED
    BY <1>7, <1>8, <2>1, IsASeq
<1>11. part \in Seq(Nat) /\ r[n + 1] = part /\ \A i \in 1..n : r[i] = q[i]
  BY <1>1, <1>6, <1>7, <1>8
<1> HIDE DEF part, n
<1>12. r = Append(q, part)
  BY <1>9, <1>10, <1>11, IsAppend
<1>13. FlattenSeq(r) = FlattenSeq(q) \o part
  BY <1>9, <1>11, <1>12, FlattenAppend
<1> QED
  BY <1>3, <1>4, <1>13 DEF part, v

\* A block more at the end of a segment file without fragments.
LEMMA StoredAppend ==
  ASSUME NEW b \in Seq(AnyBlock), NEW x \in AnyBlock, Fragments(Append(b, x)) = {}
  PROVE  Fragments(b) = {} /\ StoredIn(Append(b, x)) = StoredIn(b) \o x.points
<1> DEFINE v == Append(b, x)
           n == Len(b)
           q == [i \in DOMAIN Intact(b) |-> b[i].points]
           r == [i \in DOMAIN Intact(v) |-> v[i].points]
<1>1. /\ v \in Seq(AnyBlock) /\ Len(v) = n + 1 /\ n \in Nat /\ DOMAIN v = 1..(n + 1) /\ DOMAIN b = 1..n
      /\ v[n + 1] = x /\ \A i \in 1..n : v[i] = b[i] /\ b[i] \in AnyBlock
  BY AppendProperties, ElementOfSeq
<1>2. Fragments(v) = {}
  OBVIOUS
<1>3. StoredIn(v) = FlattenSeq(r) /\ StoredIn(b) = FlattenSeq(q)
  BY DEF StoredIn
<1> HIDE DEF v
<1>4. Fragments(b) = {}
  <2>1. \A i \in 1..n : IsWhole(b[i])
    BY <1>1, <1>2, NoFragmentsMeans
  <2> QED
    BY <1>1, <2>1, NoFragmentsMeans
<1>5. Intact(b) = b /\ Intact(v) = v
  BY <1>2, <1>4, NoFragments
<1>6. q = [i \in 1..n |-> b[i].points]
  BY <1>1, <1>5
<1>7. r = [i \in 1..(n + 1) |-> v[i].points]
  BY <1>1, <1>5
<1>8. /\ \A i \in 1..n : b[i].points \in Seq(Nat)
      /\ \A i \in 1..(n + 1) : v[i].points \in Seq(Nat)
  <2>1. \A i \in 1..(n + 1) : v[i] \in AnyBlock
    BY <1>1, ElementOfSeq
  <2> QED
    BY <1>1, <2>1 DEF AnyBlock
<1> HIDE DEF q, r
<1>9. q \in Seq(Seq(Nat)) /\ Len(q) = n
  BY <1>1, <1>6, <1>8, IsASeq
<1>10. r \in Seq(Seq(Nat)) /\ Len(r) = n + 1
  <2>1. n + 1 \in Nat
    BY <1>1
  <2> QED
    BY <1>7, <1>8, <2>1, IsASeq
<1>11. x.points \in Seq(Nat) /\ r[n + 1] = x.points /\ \A i \in 1..n : r[i] = q[i]
  BY <1>1, <1>6, <1>7, <1>8
<1> HIDE DEF n
<1>12. r = Append(q, x.points)
  BY <1>9, <1>10, <1>11, IsAppend
<1>13. FlattenSeq(r) = FlattenSeq(q) \o x.points
  BY <1>9, <1>11, <1>12, FlattenAppend
<1> QED
  BY <1>3, <1>4, <1>13 DEF v

LEMMA OneElement ==
  ASSUME NEW S, NEW q \in Seq(S), Len(q) = 1
  PROVE  q[1] \in S /\ q = <<q[1]>>
<1>1. q[1] \in S
  BY ElementOfSeq
<1> DEFINE x == q[1]
<1> HIDE DEF x
<1>2. x \in S
  BY <1>1 DEF x
<1>3. <<x>> \in Seq(S) /\ Len(<<x>>) = 1 /\ <<x>>[1] = x
  BY <1>2
<1>4. \A i \in 1..Len(q) : q[i] = <<x>>[i]
  BY <1>3 DEF x
<1>5. q = <<x>>
  BY <1>3, <1>4, SeqEqual
<1> QED
  BY <1>1, <1>5 DEF x

\* A write of one item that stops: nothing, the item, or a part of it.
LEMMA PartialOne ==
  ASSUME NEW S, NEW items \in Seq(S), Len(items) = 1, NEW part \in PartialWrites(items),
         NEW u \in Seq(S),
         \A y \in S, g \in Nat : Cut(y, g) \in S, \A y \in S : y.points \in Seq(Nat)
  PROVE  \/ u \o part = u
         \/ /\ part[1] \in S /\ u \o part = Append(u, part[1])
            /\ part[1] = items[1] \/ \E g \in Nat : part[1] = Cut(items[1], g)
<1> DEFINE x == items[1]
<1>1. items[1] = x /\ x \in S
  BY ElementOfSeq
<1>2. part \in PartialWrites(items)
  OBVIOUS
<1> HIDE DEF x
<1>3. part \in Seq(S)
  <2>1. \A y \in S, g \in Nat : [y EXCEPT !.got = g] \in S
    BY DEF Cut
  <2> QED
    BY <1>1, <1>2, <2>1, PartialWritesType
<1>4. /\ Len(part) <= 1
      /\ \A i \in 1..Len(part) :
           part[i] = items[i] \/ \E g \in 0..Len(items[i].points) : part[i] = Cut(items[i], g)
  <2>1. /\ Len(part) <= Len(items)
        /\ \A i \in 1..Len(part) :
              /\ i \in 1..Len(items)
              /\ \/ part[i] = items[i]
                 \/ /\ i = Len(part)
                    /\ \E g \in 0..Len(items[i].points) : part[i] = Cut(items[i], g)
    BY <1>1, <1>2, PartialShape
  <2> QED
    BY <1>1, <2>1
<1>7. Len(part) <= 1
  BY <1>4
<1>5. CASE part = <<>>
  BY <1>5, ConcatEmptySeq
<1>6. CASE part # <<>>
  <2>0. Len(part) = 1
    <3>1. \A seq \in Seq(S) : seq # <<>> => Len(seq) \in Nat \ {0}
      BY EmptySeq
    <3>2. Len(part) \in Nat /\ Len(part) # 0
      BY <1>3, <1>6, <3>1
    <3>3. \A n \in Nat : n # 0 /\ n <= 1 => n = 1
      OBVIOUS
    <3> QED
      BY <1>7, <3>2, <3>3, Zenon
  <2>1. Len(part) = 1 /\ part[1] \in S /\ part = <<part[1]>>
    BY <1>3, <2>0, OneElement
  <2>2. part[1] = x \/ \E g \in Nat : part[1] = Cut(x, g)
    <3>1. 1 \in 1..Len(part)
      <4>1. 1 \in 1..1
        OBVIOUS
      <4> QED
        BY <2>0, <4>1, Zenon
    <3>2. part[1] = items[1] \/ \E g \in 0..Len(items[1].points) : part[1] = Cut(items[1], g)
      BY <1>4, <3>1
    <3>3. 0..Len(x.points) \subseteq Nat
      OBVIOUS
    <3> QED
      BY <1>1, <3>2, <3>3
  <2> DEFINE y == part[1]
  <2>3. y \in S /\ part = <<y>>
    BY <2>1
  <2> HIDE DEF y
  <2>4. u \o part = Append(u, y)
    BY <2>3, AppendAsConcat
  <2> QED
    BY <2>2, <2>3, <2>4 DEF x, y
<1> QED
  BY <1>5, <1>6

\* The same for a record of wal.log and for a block.
LEMMA PartialRecord ==
  ASSUME NEW items \in Seq(Record), Len(items) = 1, NEW part \in PartialWrites(items),
         NEW w \in Seq(Record)
  PROVE  \/ w \o part = w
         \/ \E y \in Record : /\ w \o part = Append(w, y)
                             /\ y.series = items[1].series /\ y.points = items[1].points
<1>1. \A y \in Record, g \in Nat : Cut(y, g) \in Record
  BY DEF Cut, Record
<1>2. \A y \in Record, g \in Nat : Cut(y, g).series = y.series /\ Cut(y, g).points = y.points
  BY DEF Cut, Record
<1>3. \A y \in Record : y.points \in Seq(Nat)
  BY DEF Record
<1>4. items[1] \in Record
  BY OneElement
<1>5. \/ w \o part = w
      \/ /\ part[1] \in Record /\ w \o part = Append(w, part[1])
         /\ part[1] = items[1] \/ \E g \in Nat : part[1] = Cut(items[1], g)
  BY <1>1, <1>3, PartialOne
<1> DEFINE y == part[1]
<1>6. ASSUME y = items[1] \/ \E g \in Nat : y = Cut(items[1], g)
      PROVE  y.series = items[1].series /\ y.points = items[1].points
  BY <1>2, <1>4, <1>6
<1> HIDE DEF y
<1> QED
  BY <1>5, <1>6 DEF y

LEMMA PartialBlock ==
  ASSUME NEW items \in Seq(AnyBlock), Len(items) = 1, NEW part \in PartialWrites(items),
         NEW b \in Seq(AnyBlock)
  PROVE  \/ b \o part = b
         \/ \E y \in AnyBlock : b \o part = Append(b, y) /\ y.points = items[1].points
<1>1. \A y \in AnyBlock, g \in Nat : Cut(y, g) \in AnyBlock
  BY DEF Cut, AnyBlock
<1>2. \A y \in AnyBlock, g \in Nat : Cut(y, g).points = y.points
  BY DEF Cut, AnyBlock
<1>3. \A y \in AnyBlock : y.points \in Seq(Nat)
  BY DEF AnyBlock
<1>4. items[1] \in AnyBlock
  BY OneElement
<1>5. \/ b \o part = b
      \/ /\ part[1] \in AnyBlock /\ b \o part = Append(b, part[1])
         /\ part[1] = items[1] \/ \E g \in Nat : part[1] = Cut(items[1], g)
  BY <1>1, <1>3, PartialOne
<1> DEFINE y == part[1]
<1>6. ASSUME y = items[1] \/ \E g \in Nat : y = Cut(items[1], g)
      PROVE  y.points = items[1].points
  BY <1>2, <1>4, <1>6
<1> HIDE DEF y
<1> QED
  BY <1>5, <1>6 DEF y

-----------------------------------------------------------------------------
(* What a database keeps, where it keeps it, and what a reader gets back *)

\* The values of the files, of the buffers and of the call in progress.
DataInv ==
  /\ manifest \in [state : {"none", "empty", "whole"}, names : SUBSET Names]
  /\ wal \in Seq(Record)
  /\ blocks \in [Names -> Seq(AnyBlock)]
  /\ buffer \in [Names -> Seq(Nat)]
  /\ owed \in [Names -> Nat]
  /\ exposed \subseteq Names
  /\ faults \in Nat
  /\ pc \in {"closed", "replay", "manifest", "listing", "idle", "metadata", "name", "unlink"}
  /\ op \in {"none", "open", "create", "delete"}
  /\ target \in Names \union {NoName}

\* Whatever is kept for a series has a directory, and an open database knows it.
PlaceInv ==
  /\ \A s \in Names : owner[s] # 0 => s \in Directories
  /\ hasSegment \subseteq Directories
  /\ \A s \in Names : blocks[s] # <<>> => s \in hasSegment
  /\ Registered \subseteq Directories
  /\ pc = "replay" => Directories \subseteq Registered
  /\ \A i \in 1..Len(wal) : wal[i].series \in Directories
  /\ \A s \in Names : buffer[s] # <<>> => s \in Registered
  /\ pc = "unlink" => wal = <<>>
  /\ pc \in {"unlink", "closed", "replay"} => buffer = Empty

\* The directories ever made bound the entries of db->series.
CountInv ==
  /\ births <= MaxBirths
  /\ \A i \in DOMAIN series : series[i].generation >= 1
  /\ \A k \in DOMAIN handles : handles[k].index \in 1..MaxBirths

Home(s) == {owner[s]} \ {0}

\* Points are those of the series born as the directory they are kept for.
HomeInv ==
  \A s \in Names :
    /\ InLog(wal, s) \subseteq Home(s)
    /\ PointsIn(blocks[s]) \subseteq Home(s)
    /\ Range(buffer[s]) \subseteq Home(s)

\* What calls that nothing interrupts leave, also while they run.
CleanInv ==
  ~interrupted =>
    /\ Fragments(wal) = {}
    /\ \A s \in Names : Fragments(blocks[s]) = {}
    /\ \A s \in hasSegment : blocks[s] # <<>>
    /\ \A s \in Directories :
         metadata[s] = "whole" \/ (s = target /\ pc \in {"metadata", "name", "unlink"})
    /\ pc \in {"idle", "metadata", "name", "unlink"} => manifest.state = "whole"
    /\ pc \in {"closed", "replay"} => manifest = NoManifest \/ manifest.state = "whole"

\* Until a write of manifest.txt fails, the calls that do not write it find it right.
ListInv ==
  faults = 0 /\ pc \in {"idle", "metadata", "name", "unlink"} =>
    manifest = [state |-> "whole", names |-> Registered]

IsOpen == pc \notin {"closed", "replay"}

\* An open database has the points it owes in its buffers and its segment files, and
\* has in wal.log what its buffers hold, but for the series that a rewrite of wal.log has
\* left without their records; a closed one has them in its files.
OwedInv ==
  \A s \in Names :
    /\ IsOpen /\ Fragments(blocks[s]) = {} => owed[s] <= Len(buffer[s]) + Len(StoredIn(blocks[s]))
    /\ IsOpen /\ s \notin exposed /\ Fragments(wal) = {} => Len(buffer[s]) <= Len(LoggedIn(wal, s))
    /\ ~IsOpen /\ s \notin exposed /\ Fragments(wal) = {} /\ Fragments(blocks[s]) = {} =>
         owed[s] <= Len(LoggedIn(wal, s)) + Len(StoredIn(blocks[s]))

-----------------------------------------------------------------------------
(* An append, by whatever means, and the end of the process *)

\* A point goes to the series that the entry found is for.
AppendTo(i) ==
  /\ pc = "idle" /\ i \in DOMAIN series
  /\ Put(i, series[i].birth)
  /\ UNCHANGED <<manifest, metadata, hasSegment, blocks, series, nextGeneration, call, origin,
                 faults, interrupted, exposed>>

LEMMA RegisteredNames ==
  ASSUME CatalogInv
  PROVE  \A n \in Registered : n \in Names
<1> SUFFICES ASSUME NEW n \in Registered PROVE n \in Names
  OBVIOUS
<1>1. PICK i \in DOMAIN series : series[i].name = n
  BY InRegistered
<1>2. series[i] \in Entries
  BY DEF CatalogInv, TypeInv
<1> QED
  BY <1>1, <1>2 DEF Entries

LEMMA ByName == ASSUME CatalogInv, NEW s \in Names, AppendByName(s) PROVE \E i : AppendTo(i)
<1>1. Position(s) \in DOMAIN series
  BY PositionFinds DEF AppendByName
<1>2. AppendTo(Position(s))
  BY <1>1 DEF AppendByName, AppendTo
<1> QED
  BY <1>2

LEMMA ByHandle ==
  ASSUME CatalogInv, NEW k \in DOMAIN handles, AppendByHandle(k) PROVE \E i : AppendTo(i)
<1> DEFINE i == Resolve(handles[k])
<1>1. i # 0 /\ Put(i, handles[k].birth) /\ pc = "idle"
      /\ UNCHANGED <<manifest, metadata, hasSegment, blocks, series, nextGeneration, call, origin,
                     faults, interrupted, exposed>>
  BY DEF AppendByHandle
<1>2. i \in DOMAIN series
  BY <1>1, ResolveFinds DEF CatalogInv
<1>3. series[i].birth = handles[k].birth
  BY <1>1, InvReaches DEF HandleReachesItsSeries
<1> HIDE DEF i
<1>4. AppendTo(i)
  BY <1>1, <1>2, <1>3 DEF AppendTo
<1> QED
  BY <1>4

\* What an append writes.
LEMMA AppendWrites ==
  ASSUME CatalogInv, DataInv, NEW i, AppendTo(i)
  PROVE  \E s \in Names :
           /\ s \in Registered /\ owner[s] # 0 /\ owner[s] \in Nat
           /\ wal' = Append(wal, WalRecord(s, <<owner[s]>>))
           /\ WalRecord(s, <<owner[s]>>) \in Record
           /\ buffer' = [buffer EXCEPT ![s] = Append(@, owner[s])]
           /\ owed' = [owed EXCEPT ![s] = @ + 1]
           /\ pc = "idle"
           /\ UNCHANGED <<manifest, metadata, hasSegment, blocks, series, nextGeneration, pc, op, target,
                          owner, births, faults, interrupted, exposed>>
<1> DEFINE s == series[i].name
<1>1. i \in DOMAIN series /\ Put(i, series[i].birth) /\ pc = "idle"
      /\ UNCHANGED <<manifest, metadata, hasSegment, blocks, series, nextGeneration, pc, op, target,
                     owner, births, faults, interrupted, exposed>>
  BY DEF AppendTo, call, origin
<1>2. s \in Names /\ s \in Registered
  <2>1. series[i] \in Entries
    BY <1>1 DEF CatalogInv, TypeInv
  <2> QED
    BY <1>1, <2>1, InRegistered DEF Entries
<1>3. series[i].birth = owner[s] /\ owner[s] # 0 /\ owner[s] \in Nat
  BY <1>1, <1>2 DEF CatalogInv, SeriesInv, TypeInv
<1>4. /\ wal' = Append(wal, WalRecord(s, <<owner[s]>>))
      /\ buffer' = [buffer EXCEPT ![s] = Append(@, owner[s])]
      /\ owed' = [owed EXCEPT ![s] = @ + 1]
  BY <1>1, <1>3 DEF Put
<1> HIDE DEF s
<1>5. WalRecord(s, <<owner[s]>>) \in Record
  BY <1>2, <1>3 DEF WalRecord, Record
<1> QED
  BY <1>1, <1>2, <1>3, <1>4, <1>5

\* The process ends, or tsedge_open fails: the files are all that is left.
Stops ==
  /\ Forget
  /\ UNCHANGED <<manifest, metadata, owner, births, owed, exposed>>

LEMMA StopSteps ==
  /\ ReplayFails \/ Crash => Stops /\ UNCHANGED <<wal, blocks, hasSegment, faults>>
  /\ CrashInAppend => Stops /\ interrupted' /\ UNCHANGED <<blocks, hasSegment, faults>>
  /\ Fault =>
       /\ interrupted' /\ faults' = faults + 1
       /\ UNCHANGED <<manifest, metadata, hasSegment, blocks, wal, owner, births, owed, exposed>>
       /\ Forget \/ (Return /\ UNCHANGED <<series, nextGeneration, handles, buffer>>)
<1> USE DEF disk, memory, call, origin, history, Stops, Crashes
<1>1. ReplayFails => Stops /\ UNCHANGED <<wal, blocks, hasSegment, faults>>
  BY DEF ReplayFails
<1>2. Crash => Stops /\ UNCHANGED <<wal, blocks, hasSegment, faults>>
  BY DEF Crash
<1>3. CrashInAppend => Stops /\ interrupted' /\ UNCHANGED <<blocks, hasSegment, faults>>
  BY DEF CrashInAppend
<1>4. Fault =>
       /\ interrupted' /\ faults' = faults + 1
       /\ UNCHANGED <<manifest, metadata, hasSegment, blocks, wal, owner, births, owed, exposed>>
       /\ Forget \/ (Return /\ UNCHANGED <<series, nextGeneration, handles, buffer>>)
  BY DEF Fault
<1> QED
  BY <1>1, <1>2, <1>3, <1>4

\* What a flush of all series writes, and how it returns.
LEMMA FlushWrites ==
  ASSUME CatalogInv, DataInv, NEW name \in {"flush_all", "close", "delete"},
         NEW s \in Names \union {NoName}, FlushAll(name, s)
  PROVE  /\ pc = "idle" /\ wal' = <<>> /\ buffer' = Empty
         /\ exposed' = {}
         /\ hasSegment' = hasSegment \union Pending
         /\ blocks' \in [Names -> Seq(AnyBlock)]
         /\ \A n \in Names :
              \/ n \in Pending /\ Block(buffer[n]) \in AnyBlock
                              /\ blocks'[n] = Append(blocks[n], Block(buffer[n]))
              \/ n \notin Pending /\ blocks'[n] = blocks[n]
         /\ UNCHANGED <<manifest, metadata, owner, births, faults, interrupted, owed>>
         /\ \/ pc' = "closed" /\ op' = "none" /\ target' = NoName /\ series' = <<>>
            \/ pc' = "unlink" /\ op' = "delete" /\ target' = s /\ s \in Names /\ series' = series
            \/ pc' = "idle" /\ op' = "none" /\ target' = s /\ series' = series
<1>1. \A n \in Names : Block(buffer[n]) \in AnyBlock /\ Flushed(n) \in Seq(AnyBlock)
  BY DEF DataInv, Block, AnyBlock, Flushed
<1>2. \A n \in Names : blocks[n] \in Seq(AnyBlock)
  BY DEF DataInv
<1>3. blocks' = [n \in Names |-> IF n \in Pending THEN Flushed(n) ELSE blocks[n]]
  BY DEF FlushAll
<1>4. blocks' \in [Names -> Seq(AnyBlock)]
  BY <1>1, <1>2, <1>3
<1>5. \A n \in Names :
        \/ n \in Pending /\ Block(buffer[n]) \in AnyBlock
                        /\ blocks'[n] = Append(blocks[n], Block(buffer[n]))
        \/ n \notin Pending /\ blocks'[n] = blocks[n]
  BY <1>1, <1>3 DEF Flushed
<1>6. /\ pc = "idle" /\ wal' = <<>> /\ buffer' = Empty /\ hasSegment' = hasSegment \union Pending
      /\ exposed' = {}
      /\ UNCHANGED <<manifest, metadata, owner, births, faults, interrupted, owed>>
  BY DEF FlushAll, Forget, origin, history
<1>7. \/ pc' = "closed" /\ op' = "none" /\ target' = NoName /\ series' = <<>>
      \/ pc' = "unlink" /\ op' = "delete" /\ target' = s /\ s \in Names /\ series' = series
      \/ pc' = "idle" /\ op' = "none" /\ target' = s /\ series' = series
  <2>1. \A n \in Registered : n \in Names
    BY RegisteredNames
  <2> QED
    BY <2>1 DEF FlushAll, Forget
<1> QED
  BY <1>4, <1>5, <1>6, <1>7

\* What a crash in an append leaves of the record.
LEMMA CrashAppendWrites ==
  ASSUME CatalogInv, DataInv, CrashInAppend
  PROVE  \/ wal' = wal
         \/ \E y \in Record : /\ wal' = Append(wal, y)
                             /\ y.series \in Registered
                             /\ owner[y.series] # 0 /\ y.points = <<owner[y.series]>>
<1>1. PICK i \in DOMAIN series :
        \E part \in PartialWrites(<<WalRecord(series[i].name, <<series[i].birth>>)>>) :
          wal' = wal \o part
  BY DEF CrashInAppend
<1> DEFINE s == series[i].name
           r == WalRecord(s, <<series[i].birth>>)
           items == <<r>>
<1>2. series[i] \in Entries
  BY DEF CatalogInv, TypeInv
<1>3. s \in Registered /\ s \in Names /\ series[i].birth = owner[s] /\ owner[s] # 0 /\ owner[s] \in Nat
  <2>1. s \in Registered
    BY InRegistered
  <2> QED
    BY <1>2, <2>1 DEF CatalogInv, SeriesInv, TypeInv, Entries
<1>4. PICK part \in PartialWrites(items) : wal' = wal \o part
  BY <1>1
<1>5. r = [series |-> s, points |-> <<owner[s]>>, got |-> 1 + Len(<<owner[s]>>)]
  BY <1>3 DEF WalRecord
<1> HIDE DEF s, r
<1>6. r \in Record /\ r.series = s /\ r.points = <<owner[s]>>
  BY <1>3, <1>5 DEF Record
<1>7. items \in Seq(Record) /\ Len(items) = 1 /\ items[1] = r
  BY <1>6
<1> HIDE DEF items
<1>8. wal \in Seq(Record)
  BY DEF DataInv
<1>9. \/ wal \o part = wal
      \/ \E y \in Record : /\ wal \o part = Append(wal, y)
                          /\ y.series = items[1].series /\ y.points = items[1].points
  BY <1>7, <1>8, PartialRecord
<1>10. ASSUME NEW y \in Record, wal \o part = Append(wal, y),
              y.series = items[1].series, y.points = items[1].points
       PROVE  /\ wal' = Append(wal, y) /\ y.series \in Registered
              /\ owner[y.series] # 0 /\ y.points = <<owner[y.series]>>
  BY <1>3, <1>4, <1>6, <1>7, <1>10
<1> QED
  BY <1>4, <1>9, <1>10

-----------------------------------------------------------------------------
(* A flush of one series, and flushes that stop *)

WriteStep == (\E s \in Names : Flush(s)) \/ BlockStops \/ RewriteStops

\* Records of series in a set, with the points of their buffers.
LeftOver(w, left) ==
  /\ w \in Seq(Record)
  /\ \A i \in 1..Len(w) : w[i].series \in left /\ w[i].points = buffer[w[i].series]

\* What a flush writes that leaves the buffers `kept', and that perhaps stops.
Writes(kept) ==
  /\ pc = "idle"
  /\ blocks' \in [Names -> Seq(AnyBlock)]
  /\ hasSegment \subseteq hasSegment' /\ hasSegment' \subseteq hasSegment \union Pending
  /\ \A n \in Names :
       \/ blocks'[n] = blocks[n] /\ kept[n] = buffer[n]
       \/ /\ n \in hasSegment' /\ kept[n] \in {buffer[n], <<>>}
          /\ \E y \in AnyBlock : blocks'[n] = Append(blocks[n], y) /\ y.points = buffer[n]
  /\ \/ wal' = wal /\ exposed \subseteq exposed'
     \/ /\ LeftOver(wal', Pending)
        /\ \A n \in Names : n \notin exposed' /\ Fragments(wal') = {} =>
                              Len(kept[n]) <= Len(LoggedIn(wal', n))
  /\ exposed' \subseteq Names
  /\ Forget \/ (buffer' = kept /\ UNCHANGED <<series, nextGeneration, handles, pc, op, target>>)
  /\ UNCHANGED <<manifest, metadata, owner, births, owed>>

\* What it leaves when nothing stops it.
WritesAll ==
  /\ UNCHANGED <<manifest, metadata, interrupted, faults, pc, target, series>>
  /\ Fragments(wal') = {}
  /\ \A n \in Names : \/ blocks'[n] = blocks[n]
                      \/ /\ Block(buffer[n]) \in AnyBlock
                         /\ blocks'[n] = Append(blocks[n], Block(buffer[n]))
  /\ \A n \in hasSegment' : n \in hasSegment \/ blocks'[n] # <<>>

\* How a flush that stops ends.
LEMMA CutShortIs ==
  ASSUME NEW done, CutShort(done)
  PROVE  /\ interrupted'
         /\ \/ Forget /\ faults' \in {faults, faults + 1}
            \/ /\ faults' = faults + 1
               /\ buffer' = [n \in Names |-> IF n \in done THEN <<>> ELSE buffer[n]]
               /\ UNCHANGED <<series, nextGeneration, handles, pc, op, target>>
BY DEF CutShort, Crashes, call

\* A rewrite of wal.log that ends has one whole record for each series left.
LEMMA RewrittenIs ==
  ASSUME DataInv, NEW left \in SUBSET Names, NEW rest \in Rewritten(left)
  PROVE  /\ LeftOver(rest, left) /\ Fragments(rest) = {}
         /\ \A n \in left : \E i \in 1..Len(rest) : rest[i].series = n
<1>1. PICK order \in [1..Cardinality(left) -> left] :
        Range(order) = left /\ rest = [i \in DOMAIN order |-> WalRecord(order[i], buffer[order[i]])]
  BY DEF Rewritten
<1> DEFINE k == Cardinality(left)
<1>2. k \in Nat
  BY CatalogAssumption, FS_Subset, FS_CardinalityType
<1>3. order \in [1..k -> left]
  BY <1>1
<1> HIDE DEF k
<1>4. ASSUME NEW i \in 1..k
      PROVE  /\ WalRecord(order[i], buffer[order[i]]) \in Record /\ order[i] \in left
             /\ WalRecord(order[i], buffer[order[i]]).series = order[i]
             /\ WalRecord(order[i], buffer[order[i]]).points = buffer[order[i]]
  <2>1. order[i] \in Names /\ order[i] \in left
    BY <1>3
  <2>2. buffer[order[i]] \in Seq(Nat)
    BY <2>1 DEF DataInv
  <2> QED
    BY <2>1, <2>2 DEF WalRecord, Record
<1>5. rest = [i \in 1..k |-> WalRecord(order[i], buffer[order[i]])]
  BY <1>1, <1>3
<1>6. rest \in Seq(Record) /\ Len(rest) = k
  BY <1>2, <1>4, <1>5, IsASeq
<1>7. \A i \in 1..k : rest[i] = WalRecord(order[i], buffer[order[i]])
  BY <1>5
<1>8. LeftOver(rest, left)
  BY <1>4, <1>6, <1>7 DEF LeftOver
<1>9. Fragments(rest) = {}
  BY <1>6, <1>7, NewItemsAreWhole, NoFragmentsMeans
<1>10. ASSUME NEW n \in left PROVE \E i \in 1..Len(rest) : rest[i].series = n
  <2>1. PICK i \in 1..k : order[i] = n
    BY <1>1, <1>3 DEF Range
  <2> QED
    BY <1>4, <1>6, <1>7, <2>1
<1> QED
  BY <1>8, <1>9, <1>10

\* One that stops has no other records.
LEMMA PartLeftOver ==
  ASSUME NEW left, NEW rest, LeftOver(rest, left), NEW part \in PartialWrites(rest)
  PROVE  LeftOver(part, left)
<1>1. rest \in Seq(Record)
  BY DEF LeftOver
<1>2. \A y \in Record, g \in Nat : /\ Cut(y, g) \in Record
                                   /\ Cut(y, g).series = y.series /\ Cut(y, g).points = y.points
  BY DEF Cut, Record
<1>3. part \in Seq(Record)
  <2>1. \A y \in Record, g \in Nat : [y EXCEPT !.got = g] \in Record
    BY <1>2 DEF Cut
  <2>2. \A y \in Record : y.points \in Seq(Nat)
    BY DEF Record
  <2> QED
    BY <1>1, <2>1, <2>2, PartialWritesType
<1>4. ASSUME NEW i \in 1..Len(part)
      PROVE  part[i].series \in left /\ part[i].points = buffer[part[i].series]
  <2>1. /\ i \in 1..Len(rest)
        /\ part[i] = rest[i] \/ \E g \in 0..Len(rest[i].points) : part[i] = Cut(rest[i], g)
    BY <1>1, PartialShape
  <2>2. rest[i] \in Record /\ rest[i].series \in left /\ rest[i].points = buffer[rest[i].series]
    BY <1>1, <2>1 DEF LeftOver
  <2>3. part[i].series = rest[i].series /\ part[i].points = rest[i].points
    <3>1. \A g \in 0..Len(rest[i].points) : g \in Nat
      OBVIOUS
    <3> QED
      BY <1>2, <2>1, <2>2, <3>1
  <2> QED
    BY <2>2, <2>3
<1> QED
  BY <1>3, <1>4 DEF LeftOver

\* One more item in a file without fragments takes nothing from a reader.
LEMMA LoggedMore ==
  ASSUME NEW w \in Seq(Record), NEW x \in Record, NEW s, Fragments(Append(w, x)) = {}
  PROVE  /\ Fragments(w) = {}
         /\ Len(LoggedIn(Append(w, x), s)) =
              Len(LoggedIn(w, s)) + IF x.series = s THEN Len(x.points) ELSE 0
<1> DEFINE part == IF x.series = s THEN x.points ELSE <<>>
<1>1. /\ Fragments(w) = {}
      /\ LoggedIn(Append(w, x), s) = LoggedIn(w, s) \o part
  BY LoggedAppend
<1>2. LoggedIn(w, s) \in Seq(Nat)
  BY LoggedIs
<1>3. part \in Seq(Nat) /\ Len(part) = IF x.series = s THEN Len(x.points) ELSE 0
  BY EmptySeq DEF Record
<1> HIDE DEF part
<1>4. Len(LoggedIn(w, s) \o part) = Len(LoggedIn(w, s)) + Len(part)
  BY <1>2, <1>3, ConcatProperties
<1> QED
  BY <1>1, <1>3, <1>4

\* A reader of a wal.log without fragments gets the points of every record.
GivesAll(w) == \A i \in 1..Len(w) : Len(w[i].points) <= Len(LoggedIn(w, w[i].series))

LEMMA RecordIsRead ==
  ASSUME NEW w \in Seq(Record), Fragments(w) = {}
  PROVE  GivesAll(w)
<1> DEFINE G == {k \in Nat : \A v \in Seq(Record) : Len(v) = k /\ Fragments(v) = {} => GivesAll(v)}
<1>1. 0 \in G
  <2> SUFFICES ASSUME NEW v \in Seq(Record), Len(v) = 0 PROVE GivesAll(v)
    OBVIOUS
  <2> QED
    BY DEF GivesAll
<1>2. ASSUME NEW k \in Nat, k \in G PROVE k + 1 \in G
  <2> SUFFICES ASSUME NEW v \in Seq(Record), Len(v) = k + 1, Fragments(v) = {} PROVE GivesAll(v)
    BY <1>2
  <2> DEFINE u == SubSeq(v, 1, k)
             x == v[k + 1]
  <2>1. /\ u \in Seq(Record) /\ Len(u) = k /\ x \in Record
        /\ \A i \in 1..k : u[i] = v[i] /\ v[i] \in Record
    <3>1. \A j \in 1..k : v[j] \in Record
      BY <1>2
    <3> QED
      BY <1>2, <3>1, SubSeqProperties
  <2>2. v = Append(u, x)
    <3> HIDE DEF u, x
    <3>1. v[k + 1] = x
      BY DEF x
    <3> QED
      BY <1>2, <2>1, <3>1, IsAppend
  <2> HIDE DEF u, x
  <2>3. /\ Fragments(u) = {}
        /\ \A s : Len(LoggedIn(v, s)) = Len(LoggedIn(u, s)) + IF x.series = s THEN Len(x.points) ELSE 0
    BY <2>1, <2>2, LoggedMore
  <2>4. GivesAll(u)
    BY <1>2, <2>1, <2>3
  <2>5. \A s : Len(LoggedIn(u, s)) \in Nat
    BY <2>1, LoggedIs, LenProperties
  <2>6. Len(x.points) \in Nat
    BY <2>1, LenProperties DEF Record
  <2> SUFFICES ASSUME NEW i \in 1..(k + 1) PROVE Len(v[i].points) <= Len(LoggedIn(v, v[i].series))
    BY DEF GivesAll
  <2>7. CASE i = k + 1
    <3>1. v[i] = x
      BY <2>7 DEF x
    <3>2. Len(LoggedIn(v, x.series)) = Len(LoggedIn(u, x.series)) + Len(x.points)
      BY <2>3
    <3>3. \A a, b, c \in Nat : a = b + c => c <= a
      OBVIOUS
    <3>4. Len(LoggedIn(u, x.series)) \in Nat
      BY <2>5
    <3>5. Len(LoggedIn(v, x.series)) \in Nat
      BY <1>2, LoggedIs, LenProperties
    <3> QED
      BY <2>6, <3>1, <3>2, <3>3, <3>4, <3>5, Zenon
  <2>8. CASE i # k + 1
    <3>1. i \in 1..k
      BY <1>2, <2>8
    <3>2. v[i] = u[i] /\ v[i] \in Record
      BY <2>1, <3>1
    <3> DEFINE s == v[i].series
    <3>3. Len(v[i].points) <= Len(LoggedIn(u, s))
      BY <2>1, <2>4, <3>1, <3>2 DEF GivesAll
    <3>4. Len(v[i].points) \in Nat
      BY <3>2, LenProperties DEF Record
    <3>5. Len(LoggedIn(v, s)) = Len(LoggedIn(u, s)) + IF x.series = s THEN Len(x.points) ELSE 0
      BY <2>3
    <3> HIDE DEF s
    <3>6. Len(v[i].points) <= Len(LoggedIn(v, s))
      BY <2>5, <2>6, <3>3, <3>4, <3>5
    <3> QED
      BY <3>6 DEF s
  <2> QED
    BY <2>7, <2>8
<1>3. Nat \subseteq G
  <2> HIDE DEF G
  <2> QED
    BY <1>1, <1>2, NatSetInduction
<1>4. Len(w) \in Nat
  OBVIOUS
<1> QED
  BY <1>3, <1>4

\* A series that has its record loses nothing of its buffer.
LEMMA LeftOverRead ==
  ASSUME NEW left, NEW w, LeftOver(w, left), Fragments(w) = {}, NEW i \in 1..Len(w), NEW n,
         w[i].series = n
  PROVE  Len(buffer[n]) <= Len(LoggedIn(w, n))
<1>1. w \in Seq(Record) /\ w[i].points = buffer[n]
  BY DEF LeftOver
<1>2. GivesAll(w)
  BY <1>1, RecordIsRead
<1> QED
  BY <1>1, <1>2 DEF GivesAll

\* What is left over is kept for the series it was appended to.
LEMMA LeftOverHome ==
  ASSUME NEW left, NEW w, LeftOver(w, left), NEW s
  PROVE  InLog(w, s) \subseteq Range(buffer[s])
<1> SUFFICES ASSUME NEW x \in InLog(w, s) PROVE x \in Range(buffer[s])
  OBVIOUS
<1>1. PICK i \in 1..Len(w) : w[i].series = s /\ x \in Range(w[i].points)
  BY InLogMember
<1> QED
  BY <1>1 DEF LeftOver

\* The block a buffer becomes.
LEMMA FlushedIs ==
  ASSUME DataInv, NEW n \in Names
  PROVE  /\ Block(buffer[n]) \in AnyBlock /\ Block(buffer[n]).points = buffer[n]
         /\ Flushed(n) \in Seq(AnyBlock) /\ blocks[n] \in Seq(AnyBlock)
         /\ Flushed(n) = Append(blocks[n], Block(buffer[n])) /\ Flushed(n) # <<>>
<1>1. buffer[n] \in Seq(Nat) /\ blocks[n] \in Seq(AnyBlock)
  BY DEF DataInv
<1>2. Block(buffer[n]) \in AnyBlock /\ Block(buffer[n]).points = buffer[n]
  BY <1>1 DEF Block, AnyBlock
<1> DEFINE y == Block(buffer[n])
<1>3. Flushed(n) = Append(blocks[n], y)
  BY DEF Flushed
<1> HIDE DEF y
<1>4. y \in AnyBlock
  BY <1>2 DEF y
<1>5. Append(blocks[n], y) \in Seq(AnyBlock) /\ Append(blocks[n], y) # <<>>
  BY <1>1, <1>4, AppendProperties
<1> QED
  BY <1>1, <1>2, <1>3, <1>5 DEF y

LEMMA FlushWritesOne ==
  ASSUME CatalogInv, DataInv, PlaceInv, NEW s \in Names, Flush(s)
  PROVE  /\ \E kept \in [Names -> Seq(Nat)] : Writes(kept)
         /\ WritesAll
<1> DEFINE kept == [buffer EXCEPT ![s] = <<>>]
<1>1. /\ pc = "idle" /\ s \in Pending
      /\ blocks' = [blocks EXCEPT ![s] = Flushed(s)]
      /\ hasSegment' = hasSegment \union {s}
      /\ buffer' = [buffer EXCEPT ![s] = <<>>]
      /\ exposed' = {}
      /\ UNCHANGED <<manifest, metadata, series, nextGeneration, handles, pc, op, target,
                     owner, births, faults, interrupted, owed>>
  BY DEF Flush, call, origin
<1>2. PICK rest \in Rewritten(Pending \ {s}) : wal' = rest
  BY DEF Flush
<1>3. buffer \in [Names -> Seq(Nat)] /\ blocks \in [Names -> Seq(AnyBlock)]
  BY DEF DataInv
<1>4. Pending \in SUBSET Names /\ Pending \ {s} \in SUBSET Names
  BY RegisteredNames DEF Pending
<1>5. /\ LeftOver(rest, Pending \ {s}) /\ Fragments(rest) = {}
      /\ \A n \in Pending \ {s} : \E i \in 1..Len(rest) : rest[i].series = n
  BY <1>4, RewrittenIs
<1>6. kept \in [Names -> Seq(Nat)] /\ kept[s] = <<>> /\ \A n \in Names : n # s => kept[n] = buffer[n]
  BY <1>3, EmptySeq
<1>7. buffer' = kept
  BY <1>1
<1> HIDE DEF kept
<1>8. ASSUME NEW n \in Names
      PROVE  /\ n = s => blocks'[n] = Append(blocks[n], Block(buffer[n]))
             /\ n # s => blocks'[n] = blocks[n]
             /\ Block(buffer[n]) \in AnyBlock /\ Block(buffer[n]).points = buffer[n]
  BY <1>1, <1>3, FlushedIs
<1>9. blocks' \in [Names -> Seq(AnyBlock)] /\ blocks'[s] # <<>>
  BY <1>1, <1>3, FlushedIs
<1>10. LeftOver(wal', Pending)
  BY <1>2, <1>5 DEF LeftOver
<1>11. ASSUME NEW n \in Names PROVE Len(kept[n]) <= Len(LoggedIn(wal', n))
  <2>1. wal' \in Seq(Record)
    BY <1>10 DEF LeftOver
  <2>2. Len(LoggedIn(wal', n)) \in Nat
    BY <2>1, LoggedIs, LenProperties
  <2>3. CASE n \in Pending \ {s}
    <3>1. PICK i \in 1..Len(rest) : rest[i].series = n
      BY <1>5, <2>3
    <3>2. Len(buffer[n]) <= Len(LoggedIn(rest, n))
      BY <1>5, <3>1, LeftOverRead
    <3> QED
      BY <1>2, <1>6, <2>3, <3>2
  <2>4. CASE n \notin Pending \ {s}
    <3>1. kept[n] = <<>>
      BY <1>6, <2>4 DEF Pending, PlaceInv
    <3> QED
      BY <2>2, <3>1, EmptySeq
  <2> QED
    BY <2>3, <2>4
<1>12. Writes(kept)
  <2>1. \A n \in Names :
          \/ blocks'[n] = blocks[n] /\ kept[n] = buffer[n]
          \/ /\ n \in hasSegment' /\ kept[n] \in {buffer[n], <<>>}
             /\ \E y \in AnyBlock : blocks'[n] = Append(blocks[n], y) /\ y.points = buffer[n]
    <3> TAKE n \in Names
    <3>1. CASE n = s
      BY <1>1, <1>6, <1>8, <3>1
    <3>2. CASE n # s
      BY <1>6, <1>8, <3>2
    <3> QED
      BY <3>1, <3>2
  <2> QED
    BY <1>1, <1>7, <1>9, <1>10, <1>11, <2>1 DEF Writes
<1>13. WritesAll
  BY <1>1, <1>2, <1>4, <1>5, <1>8, <1>9 DEF WritesAll
<1> QED
  BY <1>6, <1>12, <1>13

LEMMA BlockStopWrites ==
  ASSUME CatalogInv, DataInv, PlaceInv, BlockStops
  PROVE  /\ \E kept \in [Names -> Seq(Nat)] : Writes(kept)
         /\ interrupted' /\ (Forget \/ faults' = faults + 1) /\ faults' \in {faults, faults + 1}
<1>1. PICK done \in SUBSET Pending, s \in Pending :
        /\ s \notin done
        /\ \E part \in PartialWrites(<<Block(buffer[s])>>) :
             blocks' = [n \in Names |-> CASE n \in done -> Flushed(n)
                                          [] n = s -> blocks[n] \o part
                                          [] OTHER -> blocks[n]]
        /\ hasSegment' = hasSegment \union done \union {s}
        /\ CutShort(done)
  BY DEF BlockStops
<1> DEFINE items == <<Block(buffer[s])>>
           kept == [n \in Names |-> IF n \in done THEN <<>> ELSE buffer[n]]
<1>2. PICK part \in PartialWrites(items) :
             blocks' = [n \in Names |-> CASE n \in done -> Flushed(n)
                                          [] n = s -> blocks[n] \o part
                                          [] OTHER -> blocks[n]]
  BY <1>1
<1>3. Pending \subseteq Names /\ s \in Names
  BY RegisteredNames DEF Pending
<1>4. buffer \in [Names -> Seq(Nat)]
  BY DEF DataInv
<1>5. \A n \in Names : /\ Block(buffer[n]) \in AnyBlock /\ Block(buffer[n]).points = buffer[n]
                       /\ Flushed(n) \in Seq(AnyBlock) /\ blocks[n] \in Seq(AnyBlock)
                       /\ Flushed(n) = Append(blocks[n], Block(buffer[n]))
  BY FlushedIs
<1>6. items \in Seq(AnyBlock) /\ Len(items) = 1 /\ items[1] = Block(buffer[s])
  BY <1>3, <1>5
<1>7. kept \in [Names -> Seq(Nat)] /\ \A n \in Names : kept[n] = IF n \in done THEN <<>> ELSE buffer[n]
  BY <1>4, EmptySeq
<1>8. /\ interrupted'
      /\ \/ Forget /\ faults' \in {faults, faults + 1}
         \/ /\ faults' = faults + 1 /\ buffer' = kept
            /\ UNCHANGED <<series, nextGeneration, handles, pc, op, target>>
  BY <1>1, CutShortIs
<1> HIDE DEF items, kept
<1>9. \/ blocks[s] \o part = blocks[s]
      \/ \E y \in AnyBlock : blocks[s] \o part = Append(blocks[s], y) /\ y.points = buffer[s]
  <2>1. \/ blocks[s] \o part = blocks[s]
        \/ \E y \in AnyBlock : blocks[s] \o part = Append(blocks[s], y) /\ y.points = items[1].points
    BY <1>3, <1>5, <1>6, PartialBlock
  <2> QED
    BY <1>3, <1>5, <1>6, <2>1
<1>10. blocks[s] \o part \in Seq(AnyBlock)
  <2>1. \A y \in AnyBlock : Append(blocks[s], y) \in Seq(AnyBlock)
    BY <1>3, <1>5
  <2> QED
    BY <1>3, <1>5, <1>9, <2>1
<1>11. \A n \in Names : /\ n \in done => blocks'[n] = Flushed(n)
                        /\ n = s => blocks'[n] = blocks[s] \o part
                        /\ n \notin done /\ n # s => blocks'[n] = blocks[n]
  BY <1>1, <1>2
<1>12. blocks' \in [Names -> Seq(AnyBlock)]
  <2>1. DOMAIN blocks' = Names /\ blocks' = [n \in Names |-> blocks'[n]]
    BY <1>2
  <2>2. \A n \in Names : blocks'[n] \in Seq(AnyBlock)
    BY <1>5, <1>10, <1>11
  <2> QED
    BY <2>1, <2>2
<1>13. ASSUME NEW n \in Names
       PROVE  \/ blocks'[n] = blocks[n] /\ kept[n] = buffer[n]
              \/ /\ n \in hasSegment' /\ kept[n] \in {buffer[n], <<>>}
                 /\ \E y \in AnyBlock : blocks'[n] = Append(blocks[n], y) /\ y.points = buffer[n]
  <2>1. CASE n \in done
    BY <1>1, <1>5, <1>7, <1>11, <2>1
  <2>2. CASE n = s
    BY <1>1, <1>7, <1>9, <1>11, <2>2
  <2>3. CASE n \notin done /\ n # s
    BY <1>7, <1>11, <2>3
  <2> QED
    BY <2>1, <2>2, <2>3
<1>14. /\ pc = "idle" /\ UNCHANGED <<manifest, metadata, wal, owner, births, owed, exposed>>
       /\ hasSegment \subseteq hasSegment' /\ hasSegment' \subseteq hasSegment \union Pending
  BY <1>1 DEF BlockStops, origin
<1>15. exposed \subseteq Names
  BY DEF DataInv
<1>16. Writes(kept)
  BY <1>8, <1>12, <1>13, <1>14, <1>15 DEF Writes
<1> QED
  BY <1>7, <1>8, <1>16

LEMMA RewriteStopWrites ==
  ASSUME CatalogInv, DataInv, PlaceInv, RewriteStops
  PROVE  /\ \E kept \in [Names -> Seq(Nat)] : Writes(kept)
         /\ interrupted' /\ (Forget \/ faults' = faults + 1) /\ faults' \in {faults, faults + 1}
<1>1. PICK done \in {Pending} \union {{s} : s \in Pending} :
        /\ blocks' = [n \in Names |-> IF n \in done THEN Flushed(n) ELSE blocks[n]]
        /\ hasSegment' = hasSegment \union done
        /\ \/ wal' = wal
           \/ \E rest \in Rewritten(Pending \ done) : wal' \in PartialWrites(rest)
        /\ exposed' = exposed \union {n \in Pending \ done :
                                        \A i \in DOMAIN wal' : wal'[i].series # n}
        /\ CutShort(done)
  BY DEF RewriteStops
<1> DEFINE kept == [n \in Names |-> IF n \in done THEN <<>> ELSE buffer[n]]
           left == Pending \ done
<1>2. Pending \subseteq Names /\ done \subseteq Pending /\ left \in SUBSET Names
  BY RegisteredNames DEF Pending
<1>3. buffer \in [Names -> Seq(Nat)] /\ exposed \subseteq Names
  BY DEF DataInv
<1>4. kept \in [Names -> Seq(Nat)] /\ \A n \in Names : kept[n] = IF n \in done THEN <<>> ELSE buffer[n]
  BY <1>3, EmptySeq
<1>5. /\ interrupted'
      /\ \/ Forget /\ faults' \in {faults, faults + 1}
         \/ /\ faults' = faults + 1 /\ buffer' = kept
            /\ UNCHANGED <<series, nextGeneration, handles, pc, op, target>>
  BY <1>1, CutShortIs
<1> HIDE DEF kept
<1>6. \A n \in Names : /\ Block(buffer[n]) \in AnyBlock /\ Block(buffer[n]).points = buffer[n]
                       /\ Flushed(n) \in Seq(AnyBlock) /\ blocks[n] \in Seq(AnyBlock)
                       /\ Flushed(n) = Append(blocks[n], Block(buffer[n]))
  BY FlushedIs
<1>7. blocks' \in [Names -> Seq(AnyBlock)]
  BY <1>1, <1>6
<1>8. ASSUME NEW n \in Names
      PROVE  \/ blocks'[n] = blocks[n] /\ kept[n] = buffer[n]
             \/ /\ n \in hasSegment' /\ kept[n] \in {buffer[n], <<>>}
                /\ \E y \in AnyBlock : blocks'[n] = Append(blocks[n], y) /\ y.points = buffer[n]
  <2>1. CASE n \in done
    BY <1>1, <1>4, <1>6, <2>1
  <2>2. CASE n \notin done
    BY <1>1, <1>4, <2>2
  <2> QED
    BY <2>1, <2>2
<1>9. exposed \subseteq exposed' /\ exposed' \subseteq Names
  BY <1>1, <1>2, <1>3
<1>10. \/ wal' = wal
       \/ /\ LeftOver(wal', Pending)
          /\ \A n \in Names : n \notin exposed' /\ Fragments(wal') = {} =>
                                Len(kept[n]) <= Len(LoggedIn(wal', n))
  <2> SUFFICES ASSUME wal' # wal
               PROVE  /\ LeftOver(wal', Pending)
                      /\ \A n \in Names : n \notin exposed' /\ Fragments(wal') = {} =>
                                            Len(kept[n]) <= Len(LoggedIn(wal', n))
    OBVIOUS
  <2>1. PICK rest \in Rewritten(left) : wal' \in PartialWrites(rest)
    BY <1>1
  <2> HIDE DEF left
  <2>2. LeftOver(rest, left)
    BY <1>2, RewrittenIs
  <2>3. LeftOver(wal', left)
    BY <2>1, <2>2, PartLeftOver
  <2>4. LeftOver(wal', Pending)
    BY <2>3 DEF LeftOver, left
  <2>5. ASSUME NEW n \in Names, n \notin exposed', Fragments(wal') = {}
        PROVE  Len(kept[n]) <= Len(LoggedIn(wal', n))
    <3>1. wal' \in Seq(Record)
      BY <2>4 DEF LeftOver
    <3>2. Len(LoggedIn(wal', n)) \in Nat
      BY <3>1, LoggedIs, LenProperties
    <3>3. CASE n \in left
      <4>1. PICK i \in DOMAIN wal' : wal'[i].series = n
        BY <1>1, <2>5, <3>3 DEF left
      <4>2. i \in 1..Len(wal')
        BY <3>1, <4>1
      <4>3. Len(buffer[n]) <= Len(LoggedIn(wal', n))
        BY <2>3, <2>5, <4>1, <4>2, LeftOverRead
      <4> QED
        BY <1>4, <3>3, <4>3 DEF left
    <3>4. CASE n \notin left
      <4>1. kept[n] = <<>>
        BY <1>4, <3>4 DEF left, Pending, PlaceInv
      <4> QED
        BY <3>2, <4>1, EmptySeq
    <3> QED
      BY <3>3, <3>4
  <2> QED
    BY <2>4, <2>5
<1>11. /\ pc = "idle" /\ UNCHANGED <<manifest, metadata, owner, births, owed>>
       /\ hasSegment \subseteq hasSegment' /\ hasSegment' \subseteq hasSegment \union Pending
  BY <1>1, <1>2 DEF RewriteStops, origin
<1>12. Writes(kept)
  BY <1>5, <1>7, <1>8, <1>9, <1>10, <1>11 DEF Writes
<1> QED
  BY <1>4, <1>5, <1>12

LEMMA WriteStepIs ==
  ASSUME CatalogInv, DataInv, PlaceInv, WriteStep
  PROVE  /\ \E kept \in [Names -> Seq(Nat)] : Writes(kept)
         /\ \/ WritesAll
            \/ /\ interrupted' /\ (Forget \/ faults' = faults + 1)
               /\ faults' \in {faults, faults + 1}
BY FlushWritesOne, BlockStopWrites, RewriteStopWrites DEF WriteStep

-----------------------------------------------------------------------------
(* The values of the files and buffers *)

\* What a reader finds in the files of this database.
LEMMA ReadsAre ==
  ASSUME NEW s
  PROVE  Logged(s) = LoggedIn(wal, s) /\ Stored(s) = StoredIn(blocks[s])
BY DEF Logged, LoggedIn, Stored, StoredIn

\* The steps that leave wal.log, the blocks and the buffers alone.
Quiet ==
  \/ Open \/ OpenFails \/ EmptyManifest \/ WriteManifest
  \/ \E s \in Names : MakeDirectory(s)
  \/ EmptyMetadata \/ Register
  \/ \E s \in Names : GetHandle(s)
  \/ UnlinkMetadata \/ RemoveDirectory

LEMMA QuietFrame ==
  Quiet => UNCHANGED <<wal, blocks, buffer, owed, exposed, faults, interrupted, hasSegment>>
BY DEF Quiet, disk, memory, call, origin, history, vars, Open, OpenFails, EmptyManifest,
       WriteManifest, MakeDirectory, EmptyMetadata, Register, GetHandle, UnlinkMetadata,
       RemoveDirectory, Return

\* The steps of the system, as the proofs below take them.
LEMMA Steps ==
  ASSUME CatalogInv, [Next]_vars
  PROVE  \/ Quiet \/ UNCHANGED vars \/ Replay
         \/ \E i : AppendTo(i)
         \/ \E name \in {"flush_all", "close", "delete"}, s \in Names \union {NoName} :
              FlushAll(name, s)
         \/ UnlinkSegment
         \/ ReplayFails \/ Crash \/ CrashInAppend \/ WriteStep \/ Fault
<1>1. CASE CreateStep
  BY <1>1 DEF CreateStep, Quiet
<1>2. CASE HandleStep
  <2>1. CASE \E s \in Names : GetHandle(s)
    BY <2>1 DEF Quiet
  <2> QED
    BY <1>2, <2>1, ByName, ByHandle DEF HandleStep
<1>3. CASE FlushStep
  BY <1>3 DEF FlushStep, WriteStep
<1>4. CASE DeleteStep
  BY <1>4 DEF DeleteStep, Quiet
<1>5. CASE BlockStops \/ RewriteStops
  BY <1>5 DEF WriteStep
<1> QED
  BY <1>1, <1>2, <1>3, <1>4, <1>5 DEF Next, Quiet

CallTypes ==
  /\ pc \in {"closed", "replay", "manifest", "listing", "idle", "metadata", "name", "unlink"}
  /\ op \in {"none", "open", "create", "delete"}
  /\ target \in Names \union {NoName}

LEMMA QuietCall == CatalogInv /\ CallTypes /\ Quiet => CallTypes'
<1> USE DEF CallTypes, call, memory, vars
<1>1. ASSUME CatalogInv, CallTypes, Open \/ OpenFails \/ EmptyManifest \/ WriteManifest PROVE CallTypes'
  BY <1>1 DEF Open, OpenFails, EmptyManifest, WriteManifest, Return
<1>2. ASSUME CatalogInv, CallTypes, NEW s \in Names, MakeDirectory(s) \/ GetHandle(s) PROVE CallTypes'
  BY <1>2 DEF MakeDirectory, GetHandle
<1>3. ASSUME CatalogInv, CallTypes, EmptyMetadata \/ Register \/ UnlinkMetadata \/ RemoveDirectory
      PROVE CallTypes'
  BY <1>3 DEF EmptyMetadata, Register, UnlinkMetadata, RemoveDirectory
<1> QED
  BY <1>1, <1>2, <1>3 DEF Quiet

LEMMA QuietManifest ==
  CatalogInv /\ manifest \in [state : {"none", "empty", "whole"}, names : SUBSET Names] /\ Quiet =>
    manifest' \in [state : {"none", "empty", "whole"}, names : SUBSET Names]
<1> SUFFICES ASSUME CatalogInv, Quiet,
                    manifest \in [state : {"none", "empty", "whole"}, names : SUBSET Names]
             PROVE  manifest' \in [state : {"none", "empty", "whole"}, names : SUBSET Names]
  OBVIOUS
<1> USE DEF disk, vars
<1>1. CASE EmptyManifest
  BY <1>1 DEF EmptyManifest
<1>2. CASE WriteManifest
  <2>1. Registered \subseteq Names
    BY RegisteredNames
  <2> QED
    BY <1>2, <2>1 DEF WriteManifest
<1>3. CASE ~EmptyManifest /\ ~WriteManifest
  <2>1. manifest' = manifest
    BY <1>3 DEF Quiet, Open, OpenFails, MakeDirectory, EmptyMetadata, Register, GetHandle,
                UnlinkMetadata, RemoveDirectory
  <2> QED
    BY <2>1
<1> QED
  BY <1>1, <1>2, <1>3

LEMMA DataStep == CatalogInv /\ DataInv /\ PlaceInv /\ [Next]_vars => DataInv'
<1> SUFFICES ASSUME CatalogInv, DataInv, PlaceInv, [Next]_vars PROVE DataInv'
  OBVIOUS
<1>1. CallTypes
  BY DEF DataInv, CallTypes
<1>2. CASE Quiet
  <2>1. UNCHANGED <<wal, blocks, buffer, owed, exposed, faults>>
    BY <1>2, QuietFrame
  <2>2. CallTypes'
    BY <1>1, <1>2, QuietCall
  <2>3. manifest' \in [state : {"none", "empty", "whole"}, names : SUBSET Names]
    BY <1>2, QuietManifest DEF DataInv
  <2> QED
    BY <2>1, <2>2, <2>3 DEF DataInv, CallTypes
<1>3. CASE UNCHANGED vars
  BY <1>3 DEF DataInv, vars, disk, memory, call, history
<1>4. CASE Replay
  <2>1. UNCHANGED <<manifest, wal, blocks, faults, op, target>>
    BY <1>4 DEF Replay
  <2>2. CASE Unknown # {}
    <3>1. UNCHANGED <<buffer, pc, owed, exposed>>
      BY <1>4, <2>2 DEF Replay
    <3> QED
      BY <2>1, <3>1 DEF DataInv
  <2>3. CASE Unknown = {}
    <3>1. /\ buffer' = [s \in Names |-> Logged(s)]
          /\ owed' = [s \in Names |-> Len(Logged(s)) + Len(Stored(s))]
          /\ exposed' = {} /\ pc' = "manifest"
      BY <1>4, <2>3 DEF Replay
    <3>2. ASSUME NEW s \in Names
          PROVE  Logged(s) \in Seq(Nat) /\ Len(Logged(s)) + Len(Stored(s)) \in Nat
      <4>1. wal \in Seq(Record) /\ blocks[s] \in Seq(AnyBlock)
        BY DEF DataInv
      <4>2. Logged(s) \in Seq(Nat) /\ Stored(s) \in Seq(Nat)
        BY <4>1, ReadsAre, LoggedIs, StoredIs
      <4> QED
        BY <4>2, LenProperties
    <3>3. buffer' \in [Names -> Seq(Nat)] /\ owed' \in [Names -> Nat]
      BY <3>1, <3>2
    <3> QED
      BY <2>1, <3>1, <3>3 DEF DataInv
  <2> QED
    BY <2>2, <2>3
<1>5. ASSUME NEW i, AppendTo(i) PROVE DataInv'
  <2>1. PICK s \in Names :
           /\ s \in Registered /\ owner[s] # 0 /\ owner[s] \in Nat
           /\ wal' = Append(wal, WalRecord(s, <<owner[s]>>))
           /\ WalRecord(s, <<owner[s]>>) \in Record
           /\ buffer' = [buffer EXCEPT ![s] = Append(@, owner[s])]
           /\ owed' = [owed EXCEPT ![s] = @ + 1]
           /\ pc = "idle"
           /\ UNCHANGED <<manifest, metadata, hasSegment, blocks, series, nextGeneration, pc, op, target,
                          owner, births, faults, interrupted, exposed>>
    BY <1>5, AppendWrites
  <2>2. wal' \in Seq(Record)
    BY <2>1, AppendProperties DEF DataInv
  <2>3. buffer' \in [Names -> Seq(Nat)] /\ owed' \in [Names -> Nat]
    <3>1. Append(buffer[s], owner[s]) \in Seq(Nat) /\ owed[s] + 1 \in Nat
      BY <2>1 DEF DataInv
    <3> QED
      BY <2>1, <3>1 DEF DataInv
  <2> QED
    BY <2>1, <2>2, <2>3 DEF DataInv
<1>6. Empty \in [Names -> Seq(Nat)]
  BY EmptySeq DEF Empty
<1>7. ASSUME NEW name \in {"flush_all", "close", "delete"}, NEW s \in Names \union {NoName},
             FlushAll(name, s)
      PROVE  DataInv'
  <2>1. /\ pc = "idle" /\ wal' = <<>> /\ buffer' = Empty /\ blocks' \in [Names -> Seq(AnyBlock)]
        /\ exposed' = {} /\ UNCHANGED <<manifest, faults, owed>>
    BY <1>7, FlushWrites
  <2>2. CallTypes'
    <3>1. \/ pc' = "closed" /\ op' = "none" /\ target' = NoName
          \/ pc' = "unlink" /\ op' = "delete" /\ target' = s
          \/ pc' = "idle" /\ op' = "none" /\ target' = s
      BY <1>7, FlushWrites
    <3> QED
      BY <3>1 DEF CallTypes
  <2>3. wal' \in Seq(Record)
    BY <2>1, EmptySeq
  <2> QED
    BY <1>6, <2>1, <2>2, <2>3 DEF DataInv, CallTypes
<1>8. CASE UnlinkSegment
  <2>1. /\ UNCHANGED <<manifest, wal, buffer, pc, op, target, faults, exposed>>
        /\ blocks' = [blocks EXCEPT ![target] = <<>>] /\ owed' = [owed EXCEPT ![target] = 0]
    BY <1>8 DEF UnlinkSegment, memory, call
  <2>2. blocks' \in [Names -> Seq(AnyBlock)] /\ owed' \in [Names -> Nat]
    BY <2>1, EmptySeq DEF DataInv
  <2> QED
    BY <2>1, <2>2 DEF DataInv
<1>9. ASSUME Stops, faults' = faults, wal' \in Seq(Record), blocks' \in [Names -> Seq(AnyBlock)]
      PROVE  DataInv'
  BY <1>6, <1>9 DEF Stops, Forget, DataInv
<1>10. CASE ReplayFails \/ Crash
  BY <1>9, <1>10, StopSteps DEF DataInv
<1>11. CASE CrashInAppend
  <2>1. wal' \in Seq(Record)
    <3>1. wal' = wal \/ \E y \in Record : wal' = Append(wal, y)
      BY <1>11, CrashAppendWrites
    <3>2. wal \in Seq(Record)
      BY DEF DataInv
    <3> QED
      BY <3>1, <3>2, AppendProperties
  <2> QED
    BY <1>9, <1>11, <2>1, StopSteps DEF DataInv
<1>12. CASE WriteStep
  <2>1. PICK kept \in [Names -> Seq(Nat)] : Writes(kept)
    BY <1>12, WriteStepIs
  <2>2. blocks' \in [Names -> Seq(AnyBlock)] /\ exposed' \subseteq Names
        /\ UNCHANGED <<manifest, owed>>
    BY <2>1 DEF Writes
  <2>3. wal' \in Seq(Record)
    BY <2>1 DEF Writes, LeftOver, DataInv
  <2>4. faults' \in Nat
    <3>1. faults' \in {faults, faults + 1}
      BY <1>12, WriteStepIs DEF WritesAll
    <3> QED
      BY <3>1 DEF DataInv
  <2>5. Forget \/ (buffer' = kept /\ UNCHANGED <<pc, op, target>>)
    BY <2>1 DEF Writes
  <2> QED
    BY <1>6, <2>2, <2>3, <2>4, <2>5 DEF Forget, DataInv
<1>13. CASE Fault
  <2>1. /\ faults' = faults + 1
        /\ UNCHANGED <<manifest, wal, blocks, owed, exposed>>
    BY <1>13, StopSteps
  <2>2. Forget \/ (Return /\ UNCHANGED <<series, nextGeneration, handles, buffer>>)
    BY <1>13, StopSteps
  <2> QED
    BY <1>6, <2>1, <2>2 DEF Forget, Return, DataInv
<1> QED
  BY <1>2, <1>3, <1>4, <1>5, <1>7, <1>8, <1>10, <1>11, <1>12, <1>13, Steps

-----------------------------------------------------------------------------
(* Where things are kept *)

\* The entries that removing a series leaves.
LEMMA RemovedEntries ==
  ASSUME CatalogInv, RemoveDirectory
  PROVE  \A j \in DOMAIN series' :
           \E i \in DOMAIN series : series'[j] = series[i] /\ series[i].name # target
<1> DEFINE p == Position(target)
<1>1. target \in Registered /\ series' = RemoveAt(series, p) /\ series \in Seq(Entries) /\ SeriesInv
  BY DEF RemoveDirectory, CatalogInv, CallInv, TypeInv
<1>2. p \in DOMAIN series /\ series[p].name = target
  BY <1>1, PositionFinds
<1> HIDE DEF p
<1>3. /\ DOMAIN series' = 1..(Len(series) - 1)
      /\ \A j \in 1..(Len(series) - 1) : series'[j] = IF j < p THEN series[j] ELSE series[j + 1]
  BY <1>1, <1>2, RemoveAtElements
<1>4. p \in 1..Len(series) /\ Len(series) \in Nat /\ DOMAIN series = 1..Len(series)
  BY <1>1, <1>2
<1> SUFFICES ASSUME NEW j \in DOMAIN series'
             PROVE  \E i \in DOMAIN series : series'[j] = series[i] /\ series[i].name # target
  OBVIOUS
<1>5. j \in 1..(Len(series) - 1)
  BY <1>3
<1>6. \A i \in DOMAIN series : i # p => series[i].name # target
  BY <1>1, <1>2 DEF SeriesInv
<1>7. CASE j < p
  <2>1. j \in DOMAIN series /\ series'[j] = series[j] /\ j # p
    BY <1>3, <1>4, <1>5, <1>7
  <2> QED
    BY <1>6, <2>1
<1>8. CASE ~(j < p)
  <2>1. j + 1 \in DOMAIN series /\ series'[j] = series[j + 1] /\ j + 1 # p
    BY <1>3, <1>4, <1>5, <1>8
  <2> QED
    BY <1>6, <2>1
<1> QED
  BY <1>7, <1>8

\* The entries that tsedge_open makes.
LEMMA OpenedEntries ==
  ASSUME CatalogInv, Open
  PROVE  /\ Registered' = Directories
         /\ \A i \in DOMAIN series' : series'[i].generation >= 1
<1>1. PICK order \in [1..Cardinality(Directories) -> Directories] :
        /\ Range(order) = Directories
        /\ series' = [i \in DOMAIN order |->
                        [name |-> order[i], generation |-> i, birth |-> owner[order[i]]]]
  BY DEF Open
<1>2. DOMAIN order = 1..Cardinality(Directories)
  BY <1>1
<1>3. /\ DOMAIN series' = DOMAIN order
      /\ \A i \in DOMAIN order : series'[i].name = order[i] /\ series'[i].generation = i
  BY <1>1
<1>4. Cardinality(Directories) \in Nat
  BY CatalogAssumption, FS_Subset, FS_CardinalityType DEF Directories
<1>5. Registered' = {order[i] : i \in DOMAIN order}
  BY <1>3 DEF Registered
<1>6. \A i \in 1..Cardinality(Directories) : i >= 1
  BY <1>4
<1> QED
  BY <1>1, <1>2, <1>3, <1>5, <1>6 DEF Range

\* A step that makes no directory go and leaves files and buffers alone.
LEMMA PlaceGrows ==
  ASSUME PlaceInv, UNCHANGED <<wal, blocks, hasSegment, buffer>>,
         Directories \subseteq Directories', Registered \subseteq Registered',
         Registered' \subseteq Directories',
         \A s \in Names : owner'[s] # 0 => s \in Directories',
         pc' = "replay" => Directories' \subseteq Registered',
         pc' = "unlink" => wal = <<>>,
         pc' \in {"unlink", "closed", "replay"} => buffer = Empty
  PROVE  PlaceInv'
<1>1. hasSegment' \subseteq Directories' /\ \A s \in Names : blocks'[s] # <<>> => s \in hasSegment'
  BY DEF PlaceInv
<1>2. \A i \in 1..Len(wal') : wal'[i].series \in Directories'
  BY DEF PlaceInv
<1>3. \A s \in Names : buffer'[s] # <<>> => s \in Registered'
  BY DEF PlaceInv
<1>4. Empty' = Empty
  BY DEF Empty
<1> QED
  BY <1>1, <1>2, <1>3, <1>4 DEF PlaceInv

LEMMA QuietPlace == CatalogInv /\ DataInv /\ PlaceInv /\ Quiet => PlaceInv'
<1> SUFFICES ASSUME CatalogInv, DataInv, PlaceInv, Quiet PROVE PlaceInv'
  OBVIOUS
<1>0. UNCHANGED <<wal, blocks, hasSegment, buffer>>
  BY QuietFrame
<1>1. TypeInv /\ CallInv
  BY DEF CatalogInv
<1>2. CASE Open
  <2>1. pc = "closed" /\ pc' = "replay" /\ UNCHANGED <<metadata, owner>> /\ series = <<>>
    BY <1>1, <1>2 DEF Open, disk, origin, CallInv
  <2>2. Directories' = Directories /\ Registered' = Directories /\ Registered = {}
    BY <1>2, <2>1, OpenedEntries DEF Directories, Registered
  <2>3. buffer = Empty
    BY <2>1 DEF PlaceInv
  <2>4. \A s \in Names : owner'[s] # 0 => s \in Directories'
    BY <2>1, <2>2 DEF PlaceInv
  <2> QED
    BY <1>0, <2>1, <2>2, <2>3, <2>4, PlaceGrows
<1>3. CASE OpenFails \/ EmptyManifest \/ WriteManifest \/ \E s \in Names : GetHandle(s)
  <2>1. UNCHANGED <<series, owner, metadata>>
    BY <1>3 DEF OpenFails, EmptyManifest, WriteManifest, GetHandle, disk, memory, origin, vars
  <2>2. pc' = pc \/ pc' \in {"listing", "idle"}
    BY <1>3 DEF OpenFails, EmptyManifest, WriteManifest, GetHandle, Return, call, vars
  <2>3. Directories' = Directories /\ Registered' = Registered
    BY <2>1 DEF Directories, Registered
  <2>4. \A s \in Names : owner'[s] # 0 => s \in Directories'
    BY <2>1, <2>3 DEF PlaceInv
  <2>5. Registered' \subseteq Directories'
    BY <2>3 DEF PlaceInv
  <2>6. /\ pc' = "replay" => Directories' \subseteq Registered'
        /\ pc' = "unlink" => wal = <<>>
        /\ pc' \in {"unlink", "closed", "replay"} => buffer = Empty
    BY <2>2, <2>3 DEF PlaceInv
  <2> QED
    BY <1>0, <2>3, <2>4, <2>5, <2>6, PlaceGrows
<1>4. ASSUME NEW s \in Names, MakeDirectory(s) PROVE PlaceInv'
  <2>1. pc' = "metadata" /\ series' = series
    BY <1>4 DEF MakeDirectory, memory
  <2>2. /\ metadata' = metadata \/ metadata' = [metadata EXCEPT ![s] = "none"]
        /\ metadata[s] = "nodir" => metadata' = [metadata EXCEPT ![s] = "none"]
        /\ \A n \in Names : n # s \/ metadata[s] # "nodir" => owner'[n] = owner[n]
    BY <1>4 DEF MakeDirectory, origin, CatalogInv, TypeInv
  <2>3. Directories \subseteq Directories' /\ s \in Directories'
    BY <1>1, <2>2 DEF Directories, TypeInv
  <2>4. Registered' = Registered
    BY <2>1 DEF Registered
  <2>5. \A n \in Names : owner'[n] # 0 => n \in Directories'
    BY <2>2, <2>3 DEF PlaceInv, Directories
  <2>6. Registered' \subseteq Directories'
    BY <2>3, <2>4 DEF PlaceInv
  <2> QED
    BY <1>0, <2>1, <2>3, <2>4, <2>5, <2>6, PlaceGrows
<1>5. CASE EmptyMetadata \/ Register
  <2>1. /\ pc' \in {"name", "manifest"} /\ owner' = owner
        /\ \E m \in {"empty", "whole"} : metadata' = [metadata EXCEPT ![target] = m]
    BY <1>5 DEF EmptyMetadata, Register, origin
  <2>2. target \in Names /\ owner[target] # 0
    BY <1>1, <1>5 DEF EmptyMetadata, Register, CallInv
  <2>3. Directories' = Directories /\ target \in Directories
    BY <1>1, <2>1, <2>2 DEF Directories, TypeInv, PlaceInv
  <2>4. Registered \subseteq Registered' /\ Registered' \subseteq Registered \union {target}
    <3>1. CASE EmptyMetadata
      BY <3>1 DEF EmptyMetadata, memory, Registered
    <3>2. CASE Register
      <4>1. series' = Append(series, [name |-> target, generation |-> nextGeneration + 1,
                                      birth |-> owner[target]])
        BY <3>2 DEF Register
      <4> DEFINE e == [name |-> target, generation |-> nextGeneration + 1, birth |-> owner[target]]
      <4>2. e \in Entries /\ e.name = target
        BY <1>1, <2>2 DEF Entries, TypeInv
      <4> HIDE DEF e
      <4>3. /\ DOMAIN series = 1..Len(series) /\ DOMAIN series' = 1..(Len(series) + 1)
            /\ Len(series) \in Nat /\ series'[Len(series) + 1] = e
            /\ \A i \in 1..Len(series) : series'[i] = series[i]
        BY <1>1, <4>1, <4>2 DEF TypeInv, e
      <4>4. \A i \in DOMAIN series : i \in DOMAIN series' /\ series'[i] = series[i]
        BY <4>3
      <4>5. \A i \in DOMAIN series' : series'[i] = e \/ (i \in DOMAIN series /\ series'[i] = series[i])
        BY <4>3
      <4> QED
        BY <4>2, <4>4, <4>5 DEF Registered
    <3> QED
      BY <1>5, <3>1, <3>2
  <2>5. Registered' \subseteq Directories'
    BY <2>3, <2>4 DEF PlaceInv
  <2>6. \A n \in Names : owner'[n] # 0 => n \in Directories'
    BY <2>1, <2>3 DEF PlaceInv
  <2> QED
    BY <1>0, <2>1, <2>3, <2>4, <2>5, <2>6, PlaceGrows
<1>6. CASE UnlinkMetadata
  <2>1. /\ pc = "unlink" /\ pc' = "unlink" /\ UNCHANGED <<owner, series>>
        /\ metadata[target] \in {"empty", "whole"}
        /\ metadata' = [metadata EXCEPT ![target] = "none"]
    BY <1>6 DEF UnlinkMetadata, call, origin, memory
  <2>2. Directories' = Directories
    BY <1>1, <2>1 DEF Directories, TypeInv
  <2>3. Registered' = Registered
    BY <2>1 DEF Registered
  <2>4. /\ wal = <<>> /\ buffer = Empty /\ Registered' \subseteq Directories'
        /\ \A n \in Names : owner'[n] # 0 => n \in Directories'
    BY <2>1, <2>2, <2>3 DEF PlaceInv
  <2> QED
    BY <1>0, <2>1, <2>2, <2>3, <2>4, PlaceGrows
<1>7. CASE RemoveDirectory
  <2>1. /\ pc = "unlink" /\ pc' = "manifest" /\ target \notin hasSegment
        /\ metadata' = [metadata EXCEPT ![target] = "nodir"]
        /\ owner' = [owner EXCEPT ![target] = 0]
    BY <1>7 DEF RemoveDirectory
  <2>2. target \in Names
    BY <1>1, <2>1, RegisteredNames DEF CallInv
  <2>3. Directories' = Directories \ {target}
    BY <1>1, <2>1, <2>2 DEF Directories, TypeInv
  <2>4. wal = <<>> /\ buffer = Empty
    BY <2>1 DEF PlaceInv
  <2>5. \A n \in Names : owner'[n] # 0 => n \in Directories'
    BY <1>1, <2>1, <2>2, <2>3 DEF PlaceInv, TypeInv
  <2>6. Registered' \subseteq Directories'
    <3> SUFFICES ASSUME NEW n \in Registered' PROVE n \in Directories'
      OBVIOUS
    <3>1. PICK j \in DOMAIN series' : series'[j].name = n
      BY DEF Registered
    <3>2. PICK i \in DOMAIN series : series'[j] = series[i] /\ series[i].name # target
      BY <1>7, RemovedEntries
    <3>3. n \in Registered /\ n # target
      BY <3>1, <3>2, InRegistered
    <3> QED
      BY <2>3, <3>3 DEF PlaceInv
  <2>7. hasSegment' \subseteq Directories' /\ \A s \in Names : blocks'[s] # <<>> => s \in hasSegment'
    BY <1>0, <2>1, <2>3 DEF PlaceInv
  <2>8. \A i \in 1..Len(wal') : wal'[i].series \in Directories'
    BY <1>0, <2>4, EmptySeq
  <2>9. \A s \in Names : buffer'[s] = <<>>
    BY <1>0, <2>4 DEF Empty
  <2> QED
    BY <2>1, <2>5, <2>6, <2>7, <2>8, <2>9 DEF PlaceInv
<1> QED
  BY <1>2, <1>3, <1>4, <1>5, <1>6, <1>7 DEF Quiet

\* No record of wal.log is without a directory, so that a replay makes none.
LEMMA ReplayKnows ==
  ASSUME DataInv, PlaceInv, Replay
  PROVE  /\ Unknown = {}
         /\ buffer' = [s \in Names |-> Logged(s)]
         /\ owed' = [s \in Names |-> Len(Logged(s)) + Len(Stored(s))]
         /\ pc = "replay" /\ pc' = "manifest" /\ exposed' = {}
         /\ UNCHANGED <<manifest, metadata, hasSegment, blocks, wal, owner, births, series, handles,
                        nextGeneration, target, faults, interrupted>>
<1>1. wal \in Seq(Record) /\ pc = "replay"
  BY DEF DataInv, Replay
<1>2. ASSUME NEW s \in Unknown PROVE FALSE
  <2>1. PICK i \in DOMAIN Intact(wal) : wal[i].series = s
    BY <1>2 DEF Unknown
  <2>2. DOMAIN Intact(wal) = 1..Len(Intact(wal)) /\ \A j \in 1..Len(Intact(wal)) : j \in 1..Len(wal)
    BY <1>1, IntactItems
  <2>3. s \in Directories
    BY <2>1, <2>2 DEF PlaceInv
  <2> QED
    BY <1>1, <1>2, <2>3 DEF PlaceInv, Unknown
<1>3. Unknown = {}
  BY <1>2
<1>4. /\ buffer' = [s \in Names |-> Logged(s)]
      /\ owed' = [s \in Names |-> Len(Logged(s)) + Len(Stored(s))]
      /\ pc' = "manifest" /\ exposed' = {}
      /\ UNCHANGED <<owner, births, metadata, series, nextGeneration>>
  BY <1>3 DEF Replay, origin
<1>5. UNCHANGED <<manifest, hasSegment, blocks, wal, handles, target, faults, interrupted>>
  BY DEF Replay
<1> QED
  BY <1>1, <1>3, <1>4, <1>5

\* A reader gets nothing for a series that wal.log has nothing of.
LEMMA LoggedHas ==
  ASSUME NEW w \in Seq(Record), NEW s, LoggedIn(w, s) # <<>>
  PROVE  \E i \in 1..Len(w) : w[i].series = s
<1>1. LoggedIn(w, s) \in Seq(Nat) /\ Range(LoggedIn(w, s)) \subseteq InLog(w, s)
  BY LoggedIs
<1> DEFINE q == LoggedIn(w, s)
<1>2. q \in Seq(Nat) /\ q # <<>> /\ Range(q) \subseteq InLog(w, s)
  BY <1>1
<1> HIDE DEF q
<1>3. 1 \in DOMAIN q
  BY <1>2
<1>4. q[1] \in InLog(w, s)
  BY <1>2, <1>3 DEF Range
<1> QED
  BY <1>4, InLogMember

LEMMA PlaceStep == CatalogInv /\ DataInv /\ PlaceInv /\ [Next]_vars => PlaceInv'
<1> SUFFICES ASSUME CatalogInv, DataInv, PlaceInv, [Next]_vars PROVE PlaceInv'
  OBVIOUS
<1>1. wal \in Seq(Record)
  BY DEF DataInv
<1>2. CASE Quiet
  BY <1>2, QuietPlace
<1>3. CASE UNCHANGED vars
  <2>1. UNCHANGED <<metadata, hasSegment, blocks, wal, buffer, series, pc, owner>>
    BY <1>3 DEF vars, disk, memory, call, origin
  <2>2. Directories' = Directories /\ Registered' = Registered /\ Empty' = Empty
    BY <2>1 DEF Directories, Registered, Empty
  <2> QED
    BY <2>1, <2>2 DEF PlaceInv
<1>4. CASE Replay
  <2>1. /\ buffer' = [s \in Names |-> Logged(s)]
        /\ pc = "replay" /\ pc' = "manifest"
        /\ UNCHANGED <<metadata, hasSegment, blocks, wal, owner, series>>
    BY <1>4, ReplayKnows
  <2>2. Directories' = Directories /\ Registered' = Registered
    BY <2>1 DEF Directories, Registered
  <2>3. ASSUME NEW s \in Names, buffer'[s] # <<>> PROVE s \in Registered'
    <3>1. LoggedIn(wal, s) # <<>>
      BY <2>1, <2>3, ReadsAre
    <3>2. PICK i \in 1..Len(wal) : wal[i].series = s
      BY <1>1, <3>1, LoggedHas
    <3> QED
      BY <2>1, <2>2, <3>2 DEF PlaceInv
  <2> QED
    BY <2>1, <2>2, <2>3 DEF PlaceInv
<1>5. ASSUME NEW i, AppendTo(i) PROVE PlaceInv'
  <2>1. PICK s \in Names :
           /\ s \in Registered
           /\ wal' = Append(wal, WalRecord(s, <<owner[s]>>))
           /\ WalRecord(s, <<owner[s]>>) \in Record
           /\ buffer' = [buffer EXCEPT ![s] = Append(@, owner[s])]
           /\ pc = "idle"
           /\ UNCHANGED <<metadata, hasSegment, blocks, series, pc, owner>>
    BY <1>5, AppendWrites
  <2>2. Directories' = Directories /\ Registered' = Registered
    BY <2>1 DEF Directories, Registered
  <2>3. \A j \in 1..Len(wal') : wal'[j].series \in Directories'
    <3>1. WalRecord(s, <<owner[s]>>).series = s
      BY DEF WalRecord
    <3>2. \A j \in 1..Len(wal') : (j \in 1..Len(wal) /\ wal'[j] = wal[j])
                                  \/ wal'[j] = WalRecord(s, <<owner[s]>>)
      <4> DEFINE r == WalRecord(s, <<owner[s]>>)
      <4>1. wal' = Append(wal, r) /\ r \in Record
        BY <2>1
      <4> HIDE DEF r
      <4>2. \A j \in 1..Len(wal') : (j \in 1..Len(wal) /\ wal'[j] = wal[j]) \/ wal'[j] = r
        BY <1>1, <4>1
      <4> QED
        BY <4>2 DEF r
    <3> QED
      BY <2>1, <2>2, <3>1, <3>2 DEF PlaceInv
  <2>4. \A n \in Names : buffer'[n] # <<>> => n \in Registered'
    BY <2>1, <2>2 DEF PlaceInv, DataInv
  <2> QED
    BY <2>1, <2>2, <2>3, <2>4 DEF PlaceInv
<1>6. Pending \subseteq Directories
  BY DEF Pending, PlaceInv
<1>7. ASSUME NEW name \in {"flush_all", "close", "delete"}, NEW s \in Names \union {NoName},
             FlushAll(name, s)
      PROVE  PlaceInv'
  <2>1. /\ wal' = <<>> /\ buffer' = Empty
        /\ hasSegment' = hasSegment \union Pending
        /\ \A n \in Names : n \in Pending \/ blocks'[n] = blocks[n]
        /\ UNCHANGED <<metadata, owner>>
    BY <1>7, FlushWrites
  <2>2. (series' = <<>> \/ series' = series) /\ pc' # "replay"
    BY <1>7, FlushWrites
  <2>3. Directories' = Directories /\ Registered' \subseteq Registered /\ Empty' = Empty
    BY <2>1, <2>2 DEF Directories, Registered, Empty
  <2>4. \A n \in Names : buffer'[n] = <<>>
    BY <2>1 DEF Empty
  <2>5. \A j \in 1..Len(wal') : wal'[j].series \in Directories'
    BY <2>1, EmptySeq
  <2>6. hasSegment' \subseteq Directories' /\ Registered' \subseteq Directories'
    BY <1>6, <2>1, <2>3 DEF PlaceInv
  <2>7. \A n \in Names : blocks'[n] # <<>> => n \in hasSegment'
    BY <2>1 DEF PlaceInv
  <2> QED
    BY <2>1, <2>2, <2>3, <2>4, <2>5, <2>6, <2>7 DEF PlaceInv
<1>8. CASE UnlinkSegment
  <2>1. /\ target \in hasSegment /\ hasSegment' = hasSegment \ {target}
        /\ blocks' = [blocks EXCEPT ![target] = <<>>]
        /\ UNCHANGED <<metadata, wal, buffer, series, pc, owner>>
    BY <1>8 DEF UnlinkSegment, memory, call, origin
  <2>2. Directories' = Directories /\ Registered' = Registered /\ Empty' = Empty
    BY <2>1 DEF Directories, Registered, Empty
  <2>3. \A n \in Names : blocks'[n] # <<>> => n \in hasSegment'
    BY <2>1 DEF PlaceInv, DataInv
  <2> QED
    BY <2>1, <2>2, <2>3 DEF PlaceInv
\* The process ends: the files have what they had, or an item more.
<1>9. ASSUME Stops, \A j \in 1..Len(wal') : wal'[j].series \in Directories,
             hasSegment' \subseteq Directories,
             \A n \in Names : blocks'[n] # <<>> => n \in hasSegment'
      PROVE  PlaceInv'
  <2>1. /\ pc' = "closed" /\ series' = <<>> /\ buffer' = Empty /\ UNCHANGED <<metadata, owner>>
    BY <1>9 DEF Stops, Forget
  <2>2. Directories' = Directories /\ Registered' = {} /\ Empty' = Empty
    BY <2>1 DEF Directories, Registered, Empty
  <2>3. \A n \in Names : buffer'[n] = <<>>
    BY <2>1 DEF Empty
  <2> QED
    BY <1>9, <2>1, <2>2, <2>3 DEF PlaceInv
<1>10. CASE ReplayFails \/ Crash
  <2>1. Stops /\ UNCHANGED <<wal, blocks, hasSegment>>
    BY <1>10, StopSteps
  <2> QED
    BY <1>9, <2>1 DEF PlaceInv
<1>11. CASE CrashInAppend
  <2>1. Stops /\ UNCHANGED <<blocks, hasSegment>>
    BY <1>11, StopSteps
  <2>2. \/ wal' = wal
        \/ \E y \in Record : wal' = Append(wal, y) /\ y.series \in Registered
    BY <1>11, CrashAppendWrites
  <2>3. \A j \in 1..Len(wal') : wal'[j].series \in Directories
    <3>1. ASSUME NEW y \in Record, wal' = Append(wal, y), y.series \in Registered, NEW j \in 1..Len(wal')
          PROVE  wal'[j].series \in Directories
      <4>1. (j \in 1..Len(wal) /\ wal'[j] = wal[j]) \/ wal'[j] = y
        BY <1>1, <3>1
      <4> QED
        BY <3>1, <4>1 DEF PlaceInv
    <3> QED
      BY <2>2, <3>1 DEF PlaceInv
  <2> QED
    BY <1>9, <2>1, <2>3 DEF PlaceInv
<1>12. CASE WriteStep
  <2>1. PICK kept \in [Names -> Seq(Nat)] : Writes(kept)
    BY <1>12, WriteStepIs
  <2>2. /\ pc = "idle" /\ UNCHANGED <<metadata, owner>>
        /\ hasSegment \subseteq hasSegment' /\ hasSegment' \subseteq hasSegment \union Pending
        /\ \A n \in Names : blocks'[n] = blocks[n] \/ n \in hasSegment'
        /\ \A n \in Names : kept[n] = buffer[n] \/ kept[n] = <<>>
        /\ wal' = wal \/ LeftOver(wal', Pending)
    BY <2>1 DEF Writes
  <2>3. /\ series' = <<>> \/ series' = series
        /\ pc' \in {"closed", "idle"} /\ (pc' = "closed" => buffer' = Empty)
        /\ buffer' = Empty \/ (buffer' = kept /\ series' = series)
    BY <2>1, <2>2 DEF Writes, Forget
  <2>4. Directories' = Directories /\ Registered' \subseteq Registered /\ Empty' = Empty
        /\ (series' = series => Registered' = Registered)
    BY <2>2, <2>3 DEF Directories, Registered, Empty
  <2>5. \A j \in 1..Len(wal') : wal'[j].series \in Directories'
    BY <1>6, <2>2, <2>4 DEF LeftOver, PlaceInv
  <2>6. \A n \in Names : buffer'[n] # <<>> => n \in Registered'
    <3>1. CASE buffer' = Empty
      BY <3>1 DEF Empty
    <3>2. CASE buffer' = kept /\ series' = series
      BY <2>2, <2>4, <3>2 DEF PlaceInv
    <3> QED
      BY <2>3, <3>1, <3>2
  <2>7. hasSegment' \subseteq Directories' /\ Registered' \subseteq Directories'
        /\ \A n \in Names : blocks'[n] # <<>> => n \in hasSegment'
    BY <1>6, <2>2, <2>4 DEF PlaceInv
  <2> QED
    BY <2>2, <2>3, <2>4, <2>5, <2>6, <2>7 DEF PlaceInv
<1>13. CASE Fault
  <2>1. UNCHANGED <<manifest, metadata, hasSegment, blocks, wal, owner, births, owed, exposed>>
    BY <1>13, StopSteps
  <2>2. CASE Forget
    <3>1. Stops
      BY <2>1, <2>2 DEF Stops
    <3> QED
      BY <1>9, <2>1, <3>1 DEF PlaceInv
  <2>3. CASE ~Forget
    <3>1. Return /\ UNCHANGED <<series, nextGeneration, handles, buffer>>
      BY <1>13, <2>3, StopSteps
    <3>2. Directories' = Directories /\ Registered' = Registered /\ pc' = "idle"
      BY <2>1, <3>1 DEF Directories, Registered, Return
    <3>3. /\ Directories \subseteq Directories' /\ Registered \subseteq Registered'
          /\ Registered' \subseteq Directories'
          /\ \A s \in Names : owner'[s] # 0 => s \in Directories'
      BY <2>1, <3>2 DEF PlaceInv
    <3> QED
      BY <2>1, <3>1, <3>2, <3>3, PlaceGrows
  <2> QED
    BY <2>2, <2>3
<1> QED
  BY <1>2, <1>3, <1>4, <1>5, <1>7, <1>8, <1>10, <1>11, <1>12, <1>13, Steps

-----------------------------------------------------------------------------
(* Whose points they are *)

\* A series of which nothing is kept has no points.
LEMMA NothingKept ==
  ASSUME DataInv, PlaceInv, NEW s \in Names, s \notin Directories
  PROVE  InLog(wal, s) = {} /\ PointsIn(blocks[s]) = {} /\ Range(buffer[s]) = {}
<1>1. blocks[s] = <<>> /\ buffer[s] = <<>> /\ \A i \in 1..Len(wal) : wal[i].series # s
  BY DEF PlaceInv
<1>2. \A n : n \notin InLog(wal, s)
  BY <1>1, InLogMember
<1>3. \A n : n \notin PointsIn(<<>>)
  BY EmptySeq, PointsInMember
<1> QED
  BY <1>1, <1>2, <1>3, RangeEmpty

\* What a flush takes from a buffer, it adds to the blocks.
LEMMA BlockAppend ==
  ASSUME NEW b \in Seq(AnyBlock), NEW y \in AnyBlock, NEW H,
         PointsIn(b) \subseteq H, Range(y.points) \subseteq H
  PROVE  PointsIn(Append(b, y)) \subseteq H
BY PointsInAppend

LEMMA BlockPoints == ASSUME NEW pts PROVE Block(pts).points = pts
BY DEF Block

LEMMA HomeStep == CatalogInv /\ DataInv /\ PlaceInv /\ HomeInv /\ [Next]_vars => HomeInv'
<1> SUFFICES ASSUME CatalogInv, DataInv, PlaceInv, HomeInv, [Next]_vars, NEW s \in Names
             PROVE  /\ InLog(wal, s)' \subseteq Home(s)'
                    /\ PointsIn(blocks[s])' \subseteq Home(s)'
                    /\ Range(buffer[s])' \subseteq Home(s)'
  BY DEF HomeInv
<1>1. /\ wal \in Seq(Record) /\ blocks[s] \in Seq(AnyBlock) /\ buffer[s] \in Seq(Nat)
      /\ owner \in [Names -> Nat]
  BY DEF DataInv, CatalogInv, TypeInv
<1>2. /\ InLog(wal, s) \subseteq Home(s) /\ PointsIn(blocks[s]) \subseteq Home(s)
      /\ Range(buffer[s]) \subseteq Home(s)
  BY DEF HomeInv
<1>a. /\ InLog(wal, s)' = InLog(wal', s) /\ PointsIn(blocks[s])' = PointsIn(blocks'[s])
      /\ Range(buffer[s])' = Range(buffer'[s])
  BY DEF InLog, PointsIn, Range
\* Nothing is written, and the series keeps its birth.
<1>3. ASSUME UNCHANGED <<wal, blocks, buffer>>, owner'[s] = owner[s]
      PROVE  /\ InLog(wal, s)' \subseteq Home(s)'
             /\ PointsIn(blocks[s])' \subseteq Home(s)'
             /\ Range(buffer[s])' \subseteq Home(s)'
  <2>1. Home(s)' = Home(s)
    BY <1>3 DEF Home
  <2> QED
    BY <1>2, <1>3, <1>a, <2>1
<1>4. CASE Quiet
  <2>1. UNCHANGED <<wal, blocks, buffer>>
    BY <1>4, QuietFrame
  <2>2. CASE owner'[s] = owner[s]
    BY <1>3, <2>1, <2>2
  <2>3. CASE owner'[s] # owner[s]
    <3>1. ASSUME NEW n \in Names, MakeDirectory(n)
          PROVE  s \notin Directories
      <4>1. n = s /\ metadata[s] = "nodir"
        BY <1>1, <2>3, <3>1 DEF MakeDirectory, origin
      <4> QED
        BY <4>1 DEF Directories
    <3>2. CASE RemoveDirectory
      <4>1. pc = "unlink" /\ target \notin hasSegment /\ owner' = [owner EXCEPT ![target] = 0]
        BY <3>2 DEF RemoveDirectory
      <4>2. s = target
        BY <1>1, <2>3, <4>1
      <4>3. wal = <<>> /\ buffer = Empty /\ blocks[s] = <<>>
        BY <4>1, <4>2 DEF PlaceInv
      <4>4. InLog(wal, s) = {} /\ PointsIn(blocks[s]) = {} /\ Range(buffer[s]) = {}
        <5>1. \A n : n \notin PointsIn(<<>>)
          BY EmptySeq, PointsInMember
        <5>2. buffer[s] = <<>>
          BY <4>3 DEF Empty
        <5> QED
          BY <4>3, <5>1, <5>2, RangeEmpty, InLogEmpty
      <4> QED
        BY <2>1, <4>4, <1>a
    <3>3. CASE ~RemoveDirectory /\ ~\E n \in Names : MakeDirectory(n)
      <4>1. owner' = owner
        BY <1>4, <3>3 DEF Quiet, Open, OpenFails, EmptyManifest, WriteManifest, EmptyMetadata,
                          Register, GetHandle, UnlinkMetadata, origin, vars
      <4> QED
        BY <2>3, <4>1
    <3>4. CASE s \notin Directories
      <4>1. InLog(wal, s) = {} /\ PointsIn(blocks[s]) = {} /\ Range(buffer[s]) = {}
        BY <3>4, NothingKept
      <4> QED
        BY <2>1, <4>1, <1>a
    <3> QED
      BY <3>1, <3>2, <3>3, <3>4
  <2> QED
    BY <2>2, <2>3
<1>5. CASE UNCHANGED vars
  BY <1>3, <1>5 DEF vars, disk, memory, origin
<1>6. CASE Replay
  <2>1. buffer'[s] = Logged(s) /\ UNCHANGED <<wal, blocks, owner>>
    BY <1>6, ReplayKnows
  <2>2. Logged(s) = LoggedIn(wal, s)
    BY ReadsAre
  <2>3. Range(LoggedIn(wal, s)) \subseteq InLog(wal, s)
    BY <1>1, LoggedIs
  <2>4. Range(buffer'[s]) \subseteq Home(s)
    BY <1>2, <2>1, <2>2, <2>3
  <2>5. Home(s)' = Home(s) /\ InLog(wal, s)' = InLog(wal, s) /\ PointsIn(blocks[s])' = PointsIn(blocks[s])
        /\ Range(buffer[s])' = Range(buffer'[s])
    BY <2>1 DEF Home, InLog, PointsIn, Range
  <2> QED
    BY <1>2, <2>4, <2>5
<1>7. ASSUME NEW i, AppendTo(i)
      PROVE  /\ InLog(wal, s)' \subseteq Home(s)'
             /\ PointsIn(blocks[s])' \subseteq Home(s)'
             /\ Range(buffer[s])' \subseteq Home(s)'
  <2>1. PICK n \in Names :
           /\ owner[n] # 0 /\ owner[n] \in Nat
           /\ wal' = Append(wal, WalRecord(n, <<owner[n]>>))
           /\ WalRecord(n, <<owner[n]>>) \in Record
           /\ buffer' = [buffer EXCEPT ![n] = Append(@, owner[n])]
           /\ UNCHANGED <<blocks, owner>>
    BY <1>7, AppendWrites
  <2>2. Home(s)' = Home(s) /\ PointsIn(blocks[s])' = PointsIn(blocks[s])
    BY <2>1 DEF Home, PointsIn, Range
  <2> DEFINE r == WalRecord(n, <<owner[n]>>)
  <2>3. r.series = n /\ r.points = <<owner[n]>> /\ Range(<<owner[n]>>) = {owner[n]}
    BY <2>1 DEF WalRecord, Range
  <2>4. r \in Record /\ wal' = Append(wal, r)
    BY <2>1
  <2> HIDE DEF r
  <2>5. InLog(wal', s) \subseteq Home(s)
    <3>1. InLog(wal', s) = InLog(wal, s) \union (IF r.series = s THEN Range(r.points) ELSE {})
      BY <1>1, <2>4, InLogAppend
    <3>2. r.series = s => Range(r.points) \subseteq Home(s)
      BY <2>1, <2>3 DEF Home
    <3> QED
      BY <1>2, <3>1, <3>2
  <2>6. Range(buffer'[s]) \subseteq Home(s)
    <3>1. CASE n # s
      <4>1. buffer'[s] = buffer[s]
        BY <2>1, <3>1 DEF DataInv
      <4> QED
        BY <1>2, <4>1
    <3>2. CASE n = s
      <4>1. buffer'[s] = Append(buffer[s], owner[s])
        BY <2>1, <3>2 DEF DataInv
      <4>2. \A j \in DOMAIN Append(buffer[s], owner[s]) :
              \/ j \in DOMAIN buffer[s] /\ Append(buffer[s], owner[s])[j] = buffer[s][j]
              \/ Append(buffer[s], owner[s])[j] = owner[s]
        BY <1>1, <2>1, <3>2, AppendMembers
      <4>3. \A v \in Range(buffer'[s]) : v \in Range(buffer[s]) \/ v = owner[s]
        BY <4>1, <4>2 DEF Range
      <4>4. owner[s] \in Home(s)
        BY <2>1, <3>2 DEF Home
      <4> QED
        BY <1>2, <4>3, <4>4
    <3> QED
      BY <3>1, <3>2
  <2>7. InLog(wal, s)' = InLog(wal', s) /\ Range(buffer[s])' = Range(buffer'[s])
    BY DEF InLog, Range
  <2> QED
    BY <1>2, <2>2, <2>5, <2>6, <2>7
<1>8. ASSUME NEW name \in {"flush_all", "close", "delete"}, NEW t \in Names \union {NoName},
             FlushAll(name, t)
      PROVE  /\ InLog(wal, s)' \subseteq Home(s)'
             /\ PointsIn(blocks[s])' \subseteq Home(s)'
             /\ Range(buffer[s])' \subseteq Home(s)'
  <2>1. /\ wal' = <<>> /\ buffer' = Empty /\ owner' = owner
        /\ \/ /\ Block(buffer[s]) \in AnyBlock
              /\ blocks'[s] = Append(blocks[s], Block(buffer[s]))
           \/ blocks'[s] = blocks[s]
    BY <1>8, FlushWrites
  <2>2. Home(s)' = Home(s) /\ InLog(wal, s)' = {} /\ Range(buffer[s])' = {}
    <3>1. buffer'[s] = <<>> /\ InLog(wal', s) = {}
      BY <2>1, InLogEmpty DEF Empty
    <3> QED
      BY <2>1, <3>1, RangeEmpty DEF Home, InLog, Range
  <2>3. PointsIn(blocks'[s]) \subseteq Home(s)
    <3>1. Block(buffer[s]).points = buffer[s]
      BY BlockPoints
    <3>2. Block(buffer[s]) \in AnyBlock => PointsIn(Append(blocks[s], Block(buffer[s]))) \subseteq Home(s)
      BY <1>1, <1>2, <3>1, BlockAppend
    <3> QED
      BY <1>2, <2>1, <3>2
  <2>4. PointsIn(blocks[s])' = PointsIn(blocks'[s])
    BY DEF PointsIn, Range
  <2> QED
    BY <2>2, <2>3, <2>4
<1>9. CASE UnlinkSegment
  <2>1. UNCHANGED <<wal, buffer, owner>> /\ blocks' = [blocks EXCEPT ![target] = <<>>]
    BY <1>9 DEF UnlinkSegment, memory, origin
  <2>2. Home(s)' = Home(s) /\ InLog(wal, s)' = InLog(wal, s) /\ Range(buffer[s])' = Range(buffer[s])
        /\ PointsIn(blocks[s])' = PointsIn(blocks'[s])
    BY <2>1 DEF Home, InLog, Range, PointsIn
  <2>3. blocks'[s] = <<>> \/ blocks'[s] = blocks[s]
    BY <2>1 DEF DataInv
  <2>4. \A n : n \notin PointsIn(<<>>)
    BY EmptySeq, PointsInMember
  <2> QED
    BY <1>2, <2>2, <2>3, <2>4
\* The process ends.
<1>10. ASSUME Stops, InLog(wal', s) \subseteq Home(s), PointsIn(blocks'[s]) \subseteq Home(s)
       PROVE  /\ InLog(wal, s)' \subseteq Home(s)'
              /\ PointsIn(blocks[s])' \subseteq Home(s)'
              /\ Range(buffer[s])' \subseteq Home(s)'
  <2>1. owner' = owner /\ buffer'[s] = <<>>
    BY <1>10 DEF Stops, Forget, Empty
  <2>2. Home(s)' = Home(s) /\ Range(buffer[s])' = {}
        /\ InLog(wal, s)' = InLog(wal', s) /\ PointsIn(blocks[s])' = PointsIn(blocks'[s])
    BY <2>1, RangeEmpty DEF Home, Range, InLog, PointsIn
  <2> QED
    BY <1>10, <2>2
<1>11. CASE ReplayFails \/ Crash
  <2>1. Stops /\ UNCHANGED <<wal, blocks>>
    BY <1>11, StopSteps
  <2> QED
    BY <1>2, <1>10, <2>1
<1>12. CASE CrashInAppend
  <2>1. Stops /\ blocks' = blocks
    BY <1>12, StopSteps
  <2>2. \/ wal' = wal
        \/ \E y \in Record : /\ wal' = Append(wal, y)
                             /\ owner[y.series] # 0 /\ y.points = <<owner[y.series]>>
    BY <1>12, CrashAppendWrites
  <2>3. ASSUME NEW y \in Record, wal' = Append(wal, y),
               owner[y.series] # 0, y.points = <<owner[y.series]>>
        PROVE  InLog(wal', s) \subseteq Home(s)
    <3>1. InLog(wal', s) = InLog(wal, s) \union (IF y.series = s THEN Range(y.points) ELSE {})
      <4>1. InLog(Append(wal, y), s) = InLog(wal, s) \union (IF y.series = s THEN Range(y.points) ELSE {})
        BY <1>1, InLogAppend
      <4> QED
        BY <2>3, <4>1
    <3>2. y.series = s => Range(y.points) = {owner[s]}
      <4>1. \A v : Range(<<v>>) = {v}
        BY DEF Range
      <4> QED
        BY <2>3, <4>1
    <3>3. y.series = s => Range(y.points) \subseteq Home(s)
      BY <2>3, <3>2 DEF Home
    <3> QED
      BY <1>2, <3>1, <3>3
  <2> QED
    BY <1>2, <1>10, <2>1, <2>2, <2>3
<1>13. CASE WriteStep
  <2>1. PICK kept \in [Names -> Seq(Nat)] : Writes(kept)
    BY <1>13, WriteStepIs
  <2>2. /\ wal' = wal \/ LeftOver(wal', Pending)
        /\ kept[s] = buffer[s] \/ kept[s] = <<>>
        /\ \/ blocks'[s] = blocks[s]
           \/ \E y \in AnyBlock : blocks'[s] = Append(blocks[s], y) /\ y.points = buffer[s]
        /\ Forget \/ buffer' = kept
        /\ owner' = owner
    BY <2>1 DEF Writes
  <2>3. ASSUME NEW y \in AnyBlock, blocks'[s] = Append(blocks[s], y), y.points = buffer[s]
        PROVE  PointsIn(blocks'[s]) \subseteq Home(s)
    <3>1. PointsIn(Append(blocks[s], y)) \subseteq Home(s)
      BY <1>1, <1>2, <2>3, BlockAppend
    <3> QED
      BY <2>3, <3>1
  <2>4. PointsIn(blocks'[s]) \subseteq Home(s)
    BY <1>2, <2>2, <2>3
  <2>5. InLog(wal', s) \subseteq Home(s)
    <3>1. CASE LeftOver(wal', Pending)
      <4>1. InLog(wal', s) \subseteq Range(buffer[s])
        BY <3>1, LeftOverHome
      <4> QED
        BY <1>2, <4>1
    <3> QED
      BY <1>2, <2>2, <3>1
  <2>6. Range(buffer'[s]) \subseteq Home(s)
    <3>1. buffer'[s] = buffer[s] \/ buffer'[s] = <<>>
      BY <2>2 DEF Forget, Empty
    <3> QED
      BY <1>2, <3>1, RangeEmpty
  <2>7. Home(s)' = Home(s)
    BY <2>2 DEF Home
  <2> QED
    BY <1>a, <2>4, <2>5, <2>6, <2>7
<1>14. CASE Fault
  <2>1. UNCHANGED <<manifest, metadata, blocks, wal, owner, births, owed, exposed>>
    BY <1>14, StopSteps
  <2>2. CASE Forget
    <3>1. Stops
      BY <2>1, <2>2 DEF Stops
    <3> QED
      BY <1>2, <1>10, <2>1, <3>1
  <2>3. CASE ~Forget
    BY <1>3, <1>14, <2>1, <2>3, StopSteps
  <2> QED
    BY <2>2, <2>3
<1> QED
  BY <1>4, <1>5, <1>6, <1>7, <1>8, <1>9, <1>11, <1>12, <1>13, <1>14, Steps

-----------------------------------------------------------------------------
(* What uninterrupted calls leave, and what manifest.txt lists *)

\* The parts of CleanInv.
NoFragmentsLeft == Fragments(wal) = {} /\ \A s \in Names : Fragments(blocks[s]) = {}

MetadataWritten ==
  \A s \in Directories :
    metadata[s] = "whole" \/ (s = target /\ pc \in {"metadata", "name", "unlink"})

ManifestWritten ==
  /\ pc \in {"idle", "metadata", "name", "unlink"} => manifest.state = "whole"
  /\ pc \in {"closed", "replay"} => manifest = NoManifest \/ manifest.state = "whole"

LEMMA CleanParts ==
  CleanInv <=> (~interrupted => /\ NoFragmentsLeft /\ MetadataWritten /\ ManifestWritten
                                /\ \A s \in hasSegment : blocks[s] # <<>>)
BY DEF CleanInv, NoFragmentsLeft, MetadataWritten, ManifestWritten

\* What one of the quiet steps does to metadata.txt and manifest.txt.
LEMMA QuietClean ==
  CatalogInv /\ Quiet /\ MetadataWritten /\ ManifestWritten => MetadataWritten' /\ ManifestWritten'
<1> SUFFICES ASSUME CatalogInv, Quiet, MetadataWritten, ManifestWritten
             PROVE  MetadataWritten' /\ ManifestWritten'
  OBVIOUS
<1>1. TypeInv /\ CallInv
  BY DEF CatalogInv
<1>2. CASE Open
  <2>1. pc = "closed" /\ pc' = "replay" /\ UNCHANGED <<manifest, metadata>>
    BY <1>2 DEF Open, disk
  <2>2. Directories' = Directories /\ NoManifest' = NoManifest
    BY <2>1 DEF Directories, NoManifest
  <2> QED
    BY <2>1, <2>2 DEF MetadataWritten, ManifestWritten
<1>3. CASE OpenFails \/ \E s \in Names : GetHandle(s)
  <2>1. UNCHANGED <<manifest, metadata, pc, target>>
    BY <1>3 DEF OpenFails, GetHandle, disk, call, vars
  <2>2. Directories' = Directories /\ NoManifest' = NoManifest
    BY <2>1 DEF Directories, NoManifest
  <2> QED
    BY <2>1, <2>2 DEF MetadataWritten, ManifestWritten
<1>4. CASE EmptyManifest \/ WriteManifest
  <2>1. /\ pc \in {"manifest", "listing"} /\ metadata' = metadata
        /\ pc' = "listing" \/ (pc' = "idle" /\ manifest'.state = "whole")
    BY <1>4 DEF EmptyManifest, WriteManifest, Return
  <2>2. Directories' = Directories
    BY <2>1 DEF Directories
  <2> QED
    BY <2>1, <2>2 DEF MetadataWritten, ManifestWritten
<1>5. ASSUME NEW s \in Names, MakeDirectory(s) PROVE MetadataWritten' /\ ManifestWritten'
  <2>1. /\ pc = "idle" /\ pc' = "metadata" /\ target' = s /\ manifest' = manifest
        /\ metadata' = metadata \/ metadata' = [metadata EXCEPT ![s] = "none"]
    BY <1>5 DEF MakeDirectory
  <2>2. \A n \in Directories' : n = s \/ (n \in Directories /\ metadata'[n] = metadata[n])
    BY <1>1, <2>1 DEF Directories, TypeInv
  <2> QED
    BY <2>1, <2>2 DEF MetadataWritten, ManifestWritten
<1>6. CASE EmptyMetadata \/ Register
  <2>1. /\ pc \in {"metadata", "name"} /\ target' = target /\ manifest' = manifest
        /\ target \in Names
        /\ \/ pc' = "name" /\ metadata' = [metadata EXCEPT ![target] = "empty"]
           \/ pc' = "manifest" /\ metadata' = [metadata EXCEPT ![target] = "whole"]
    BY <1>1, <1>6 DEF EmptyMetadata, Register, CallInv
  <2>2. \A n \in Directories' : n = target \/ (n \in Directories /\ metadata'[n] = metadata[n])
    BY <1>1, <2>1 DEF Directories, TypeInv
  <2>3. pc' = "manifest" => metadata'[target] = "whole"
    BY <1>1, <2>1 DEF TypeInv
  <2> QED
    BY <2>1, <2>2, <2>3 DEF MetadataWritten, ManifestWritten
<1>7. CASE UnlinkMetadata \/ RemoveDirectory
  <2>1. /\ pc = "unlink" /\ target' = target /\ manifest' = manifest
        /\ \/ pc' = "unlink" /\ metadata' = [metadata EXCEPT ![target] = "none"]
           \/ pc' = "manifest" /\ metadata' = [metadata EXCEPT ![target] = "nodir"]
    BY <1>7 DEF UnlinkMetadata, RemoveDirectory, call
  <2>2. target \in Names
    BY <1>1, <2>1, RegisteredNames DEF CallInv
  <2>3. \A n \in Directories' : n = target \/ (n \in Directories /\ metadata'[n] = metadata[n])
    BY <1>1, <2>1, <2>2 DEF Directories, TypeInv
  <2>4. pc' = "manifest" => target \notin Directories'
    BY <1>1, <2>1, <2>2 DEF Directories, TypeInv
  <2> QED
    BY <2>1, <2>3, <2>4 DEF MetadataWritten, ManifestWritten
<1> QED
  BY <1>2, <1>3, <1>4, <1>5, <1>6, <1>7 DEF Quiet

LEMMA CleanStep == CatalogInv /\ DataInv /\ PlaceInv /\ CleanInv /\ [Next]_vars => CleanInv'
<1> SUFFICES ASSUME CatalogInv, DataInv, PlaceInv, CleanInv, [Next]_vars, ~interrupted'
             PROVE  /\ NoFragmentsLeft' /\ MetadataWritten' /\ ManifestWritten'
                    /\ \A s \in hasSegment' : blocks'[s] # <<>>
  BY DEF CleanInv, NoFragmentsLeft, MetadataWritten, ManifestWritten
<1>1. ASSUME ~interrupted
      PROVE  /\ NoFragmentsLeft /\ MetadataWritten /\ ManifestWritten
             /\ \A s \in hasSegment : blocks[s] # <<>>
  BY <1>1, CleanParts
<1>2. wal \in Seq(Record) /\ blocks \in [Names -> Seq(AnyBlock)]
  BY DEF DataInv
<1>3. ASSUME UNCHANGED <<wal, blocks, hasSegment>>, ~interrupted
      PROVE  NoFragmentsLeft' /\ \A s \in hasSegment' : blocks'[s] # <<>>
  BY <1>1, <1>3 DEF NoFragmentsLeft
<1>4. CASE Quiet
  <2>1. UNCHANGED <<wal, blocks, hasSegment, interrupted>>
    BY <1>4, QuietFrame
  <2> QED
    BY <1>1, <1>3, <1>4, <2>1, QuietClean
<1>5. ASSUME UNCHANGED <<metadata, manifest, pc, target>>
      PROVE  Directories' = Directories /\ NoManifest' = NoManifest
  BY <1>5 DEF Directories, NoManifest
<1>6. CASE UNCHANGED vars
  <2>1. UNCHANGED <<wal, blocks, hasSegment, interrupted, metadata, manifest, pc, target>>
    BY <1>6 DEF vars, disk, memory, call, history
  <2> QED
    BY <1>1, <1>3, <1>5, <2>1 DEF MetadataWritten, ManifestWritten
<1>7. CASE Replay
  <2>1. /\ pc = "replay" /\ pc' = "manifest"
        /\ UNCHANGED <<wal, blocks, hasSegment, interrupted, metadata, manifest, target>>
    BY <1>7, ReplayKnows
  <2>2. Directories' = Directories
    BY <2>1 DEF Directories
  <2> QED
    BY <1>1, <1>3, <2>1, <2>2 DEF MetadataWritten, ManifestWritten
<1>8. ASSUME NEW i, AppendTo(i)
      PROVE  /\ NoFragmentsLeft' /\ MetadataWritten' /\ ManifestWritten'
             /\ \A s \in hasSegment' : blocks'[s] # <<>>
  <2>1. PICK n \in Names :
           /\ wal' = Append(wal, WalRecord(n, <<owner[n]>>))
           /\ WalRecord(n, <<owner[n]>>) \in Record
           /\ UNCHANGED <<manifest, metadata, hasSegment, blocks, pc, target, interrupted>>
    BY <1>8, AppendWrites
  <2>2. Fragments(wal') = {}
    <3> DEFINE r == WalRecord(n, <<owner[n]>>)
    <3>1. IsWhole(r) /\ r \in Record /\ wal' = Append(wal, r)
      BY <2>1, NewItemsAreWhole
    <3> HIDE DEF r
    <3>2. Fragments(wal) = {}
      BY <1>1, <2>1 DEF NoFragmentsLeft
    <3> QED
      BY <1>2, <3>1, <3>2, WholeAppend
  <2>3. NoFragmentsLeft'
    BY <1>1, <2>1, <2>2 DEF NoFragmentsLeft
  <2> QED
    BY <1>1, <1>5, <2>1, <2>3 DEF MetadataWritten, ManifestWritten
<1>9. ASSUME NEW name \in {"flush_all", "close", "delete"}, NEW t \in Names \union {NoName},
             FlushAll(name, t)
      PROVE  /\ NoFragmentsLeft' /\ MetadataWritten' /\ ManifestWritten'
             /\ \A s \in hasSegment' : blocks'[s] # <<>>
  <2>1. /\ pc = "idle" /\ wal' = <<>> /\ hasSegment' = hasSegment \union Pending
        /\ \A n \in Names :
              \/ n \in Pending /\ Block(buffer[n]) \in AnyBlock
                              /\ blocks'[n] = Append(blocks[n], Block(buffer[n]))
              \/ n \notin Pending /\ blocks'[n] = blocks[n]
        /\ UNCHANGED <<manifest, metadata, interrupted>>
        /\ pc' \in {"closed", "unlink", "idle"}
    BY <1>9, FlushWrites
  <2>2. MetadataWritten' /\ ManifestWritten'
    <3>1. Directories' = Directories
      BY <2>1 DEF Directories
    <3> QED
      BY <1>1, <2>1, <3>1 DEF MetadataWritten, ManifestWritten
  <2>3. ASSUME NEW n \in Names PROVE Fragments(blocks'[n]) = {}
    <3>1. Fragments(blocks[n]) = {} /\ blocks[n] \in Seq(AnyBlock) /\ IsWhole(Block(buffer[n]))
      BY <1>1, <1>2, <2>1, NewItemsAreWhole DEF NoFragmentsLeft
    <3>2. Block(buffer[n]) \in AnyBlock => Fragments(Append(blocks[n], Block(buffer[n]))) = {}
      BY <3>1, WholeAppend
    <3> QED
      BY <2>1, <3>1, <3>2
  <2>4. Fragments(wal') = {}
    <3>1. \A i \in 1..Len(<<>>) : FALSE
      BY EmptySeq
    <3> QED
      BY <2>1, <3>1 DEF Fragments
  <2>5. NoFragmentsLeft'
    BY <2>3, <2>4 DEF NoFragmentsLeft
  <2>6. ASSUME NEW n \in hasSegment' PROVE blocks'[n] # <<>>
    <3>1. n \in Names
      BY <2>1, <2>6, RegisteredNames DEF Pending, PlaceInv, Directories
    <3>2. CASE n \in Pending
      <4>1. Append(blocks[n], Block(buffer[n])) # <<>>
        BY <1>2, <2>1, <3>1, <3>2, AppendProperties
      <4> QED
        BY <2>1, <3>1, <3>2, <4>1
    <3>3. CASE n \notin Pending
      BY <1>1, <2>1, <3>1, <3>3
    <3> QED
      BY <3>2, <3>3
  <2> QED
    BY <2>2, <2>5, <2>6
<1>10. CASE UnlinkSegment
  <2>1. /\ UNCHANGED <<wal, interrupted, metadata, manifest, pc, target>>
        /\ hasSegment' = hasSegment \ {target}
        /\ blocks' = [blocks EXCEPT ![target] = <<>>]
    BY <1>10 DEF UnlinkSegment, memory, call
  <2>2. Fragments(<<>>) = {}
    <3>1. \A i \in 1..Len(<<>>) : FALSE
      BY EmptySeq
    <3> QED
      BY <3>1 DEF Fragments
  <2>3. \A n \in Names : blocks'[n] = <<>> \/ blocks'[n] = blocks[n]
    BY <1>2, <2>1
  <2>4. NoFragmentsLeft'
    BY <1>1, <2>1, <2>2, <2>3 DEF NoFragmentsLeft
  <2>5. \A n \in hasSegment' : blocks'[n] # <<>>
    <3>1. \A n \in hasSegment' : n \in hasSegment /\ n # target /\ n \in Names
      BY <2>1 DEF PlaceInv, Directories
    <3> QED
      BY <1>1, <1>2, <2>1, <3>1
  <2> QED
    BY <1>1, <1>5, <2>1, <2>4, <2>5 DEF MetadataWritten, ManifestWritten
<1>11. CASE ReplayFails \/ Crash
  <2>1. Stops /\ UNCHANGED <<wal, blocks, hasSegment>>
    BY <1>11, StopSteps
  <2>2. ~interrupted /\ pc \in {"replay", "idle"}
    <3>1. CASE ReplayFails
      BY <3>1 DEF ReplayFails, history
    <3>2. CASE Crash
      BY <3>2 DEF Crash
    <3> QED
      BY <1>11, <3>1, <3>2
  <2>3. pc' = "closed" /\ UNCHANGED <<manifest, metadata>>
    BY <2>1 DEF Stops, Forget
  <2>4. Directories' = Directories /\ NoManifest' = NoManifest
    BY <2>3 DEF Directories, NoManifest
  <2>5. MetadataWritten' /\ ManifestWritten'
    BY <1>1, <2>2, <2>3, <2>4 DEF MetadataWritten, ManifestWritten
  <2> QED
    BY <1>3, <2>1, <2>2, <2>5
<1>12. CASE CrashInAppend \/ Fault
  BY <1>12, StopSteps
<1>13. CASE WriteStep
  <2>1. WritesAll
    BY <1>13, WriteStepIs
  <2>2. /\ UNCHANGED <<manifest, metadata, interrupted, pc, target>>
        /\ Fragments(wal') = {}
        /\ \A n \in Names : \/ blocks'[n] = blocks[n]
                            \/ /\ Block(buffer[n]) \in AnyBlock
                               /\ blocks'[n] = Append(blocks[n], Block(buffer[n]))
        /\ \A n \in hasSegment' : n \in hasSegment \/ blocks'[n] # <<>>
    BY <2>1 DEF WritesAll
  <2>3. ASSUME NEW n \in Names
        PROVE  Fragments(blocks'[n]) = {} /\ (blocks[n] # <<>> => blocks'[n] # <<>>)
    <3>1. Fragments(blocks[n]) = {} /\ blocks[n] \in Seq(AnyBlock) /\ IsWhole(Block(buffer[n]))
      BY <1>1, <1>2, <2>2, NewItemsAreWhole DEF NoFragmentsLeft
    <3>2. ASSUME Block(buffer[n]) \in AnyBlock
          PROVE  /\ Fragments(Append(blocks[n], Block(buffer[n]))) = {}
                 /\ Append(blocks[n], Block(buffer[n])) # <<>>
      BY <3>1, <3>2, WholeAppend, AppendProperties
    <3> QED
      BY <2>2, <3>1, <3>2
  <2>4. NoFragmentsLeft'
    BY <2>2, <2>3 DEF NoFragmentsLeft
  <2>5. \A n \in hasSegment' : blocks'[n] # <<>>
    <3>1. \A n \in hasSegment : n \in Names
      BY DEF PlaceInv, Directories
    <3> QED
      BY <1>1, <2>2, <2>3, <3>1
  <2> QED
    BY <1>1, <1>5, <2>2, <2>4, <2>5 DEF MetadataWritten, ManifestWritten
<1> QED
  BY <1>4, <1>6, <1>7, <1>8, <1>9, <1>10, <1>11, <1>12, <1>13, Steps

LEMMA ListStep == CatalogInv /\ DataInv /\ PlaceInv /\ ListInv /\ [Next]_vars => ListInv'
<1> SUFFICES ASSUME CatalogInv, DataInv, PlaceInv, ListInv, [Next]_vars, faults' = 0,
                    pc' \in {"idle", "metadata", "name", "unlink"}
             PROVE  manifest' = [state |-> "whole", names |-> Registered']
  BY DEF ListInv
<1>1. faults \in Nat
  BY DEF DataInv
<1>2. ASSUME faults' = faults, manifest' = manifest, series' = series,
             pc \in {"idle", "metadata", "name", "unlink"}
      PROVE  manifest' = [state |-> "whole", names |-> Registered']
  BY <1>2 DEF ListInv, Registered
<1>3. CASE Quiet
  <2>1. faults' = faults
    BY <1>3, QuietFrame
  <2>2. CASE WriteManifest
    BY <2>2 DEF WriteManifest, memory, Registered
  <2>3. CASE ~WriteManifest
    <3>1. /\ manifest' = manifest /\ series' = series
          /\ pc \in {"idle", "metadata", "name", "unlink"}
      BY <1>3, <2>3 DEF Quiet, Open, OpenFails, EmptyManifest, MakeDirectory, EmptyMetadata, Register,
                        GetHandle, UnlinkMetadata, RemoveDirectory, disk, memory, call, vars
    <3> QED
      BY <1>2, <2>1, <3>1
  <2> QED
    BY <2>2, <2>3
<1>4. CASE UNCHANGED vars
  BY <1>2, <1>4 DEF vars, disk, memory, call, history
<1>5. CASE Replay
  BY <1>5, ReplayKnows
<1>6. ASSUME NEW i, AppendTo(i) PROVE manifest' = [state |-> "whole", names |-> Registered']
  BY <1>2, <1>6 DEF AppendTo
<1>7. ASSUME NEW name \in {"flush_all", "close", "delete"}, NEW t \in Names \union {NoName},
             FlushAll(name, t)
      PROVE  manifest' = [state |-> "whole", names |-> Registered']
  <2>1. /\ pc = "idle" /\ UNCHANGED <<manifest, faults>>
        /\ pc' = "closed" \/ series' = series
    BY <1>7, FlushWrites
  <2> QED
    BY <1>2, <2>1
<1>8. CASE UnlinkSegment
  BY <1>2, <1>8 DEF UnlinkSegment, memory, call
<1>9. CASE ReplayFails \/ Crash \/ CrashInAppend
  BY <1>9, StopSteps DEF Stops, Forget
<1>10. CASE Fault
  BY <1>1, <1>10, StopSteps
<1>11. CASE WriteStep
  <2>1. WritesAll
    <3>1. ~Forget /\ faults' # faults + 1
      BY <1>1 DEF Forget
    <3> QED
      BY <1>11, <3>1, WriteStepIs
  <2>2. pc = "idle"
    BY <1>11, WriteStepIs DEF Writes
  <2> QED
    BY <1>2, <2>1, <2>2 DEF WritesAll
<1> QED
  BY <1>3, <1>4, <1>5, <1>6, <1>7, <1>8, <1>9, <1>10, <1>11, Steps

-----------------------------------------------------------------------------
(* What an open database owes, its files have *)

\* One more block in a file without fragments takes nothing from a reader.
LEMMA StoredMore ==
  ASSUME NEW b \in Seq(AnyBlock), NEW x \in AnyBlock, Fragments(Append(b, x)) = {}
  PROVE  /\ Fragments(b) = {}
         /\ Len(StoredIn(Append(b, x))) = Len(StoredIn(b)) + Len(x.points)
<1>1. Fragments(b) = {} /\ StoredIn(Append(b, x)) = StoredIn(b) \o x.points
  BY StoredAppend
<1>2. StoredIn(b) \in Seq(Nat) /\ x.points \in Seq(Nat)
  BY StoredIs DEF AnyBlock
<1>3. Len(StoredIn(b) \o x.points) = Len(StoredIn(b)) + Len(x.points)
  BY <1>2, ConcatProperties
<1> QED
  BY <1>1, <1>3

\* OwedInv for one series: whether it has its record, what is owed, in the buffer, in
\* wal.log and in the file, and which of the files are without fragments.
OwedOf(isOpen, safe, o, n, w, b, s) ==
  /\ isOpen /\ Fragments(b) = {} => o <= n + Len(StoredIn(b))
  /\ isOpen /\ safe /\ Fragments(w) = {} => n <= Len(LoggedIn(w, s))
  /\ ~isOpen /\ safe /\ Fragments(w) = {} /\ Fragments(b) = {} =>
       o <= Len(LoggedIn(w, s)) + Len(StoredIn(b))

LEMMA OwedParts ==
  OwedInv <=> \A s \in Names : OwedOf(IsOpen, s \notin exposed, owed[s], Len(buffer[s]), wal, blocks[s], s)
BY DEF OwedInv, OwedOf

LEMMA OwedStep == CatalogInv /\ DataInv /\ PlaceInv /\ OwedInv /\ [Next]_vars => OwedInv'
<1> SUFFICES ASSUME CatalogInv, DataInv, PlaceInv, OwedInv, [Next]_vars, NEW s \in Names
             PROVE  OwedOf(IsOpen', s \notin exposed', owed'[s], Len(buffer'[s]), wal', blocks'[s], s)
  BY DEF OwedInv, OwedOf
<1>1. OwedOf(IsOpen, s \notin exposed, owed[s], Len(buffer[s]), wal, blocks[s], s)
  BY OwedParts
<1>2. /\ wal \in Seq(Record) /\ blocks[s] \in Seq(AnyBlock) /\ buffer[s] \in Seq(Nat)
      /\ owed \in [Names -> Nat] /\ buffer \in [Names -> Seq(Nat)]
      /\ blocks \in [Names -> Seq(AnyBlock)]
  BY DEF DataInv
<1>3. Len(buffer[s]) \in Nat /\ owed[s] \in Nat
  BY <1>2, LenProperties
<1>4. /\ \A w \in Seq(Record) : Len(LoggedIn(w, s)) \in Nat
      /\ \A b \in Seq(AnyBlock) : Len(StoredIn(b)) \in Nat
  BY LoggedIs, StoredIs, LenProperties
<1>5. ASSUME UNCHANGED <<wal, blocks, buffer, owed, exposed>>, IsOpen' <=> IsOpen
      PROVE  OwedOf(IsOpen', s \notin exposed', owed'[s], Len(buffer'[s]), wal', blocks'[s], s)
  BY <1>1, <1>5 DEF OwedOf
<1>6. CASE Quiet
  <2>1. UNCHANGED <<wal, blocks, buffer, owed, exposed>>
    BY <1>6, QuietFrame
  <2>2. IsOpen' <=> IsOpen
    <3>1. CASE Open
      BY <3>1 DEF Open, IsOpen
    <3>2. CASE OpenFails \/ EmptyManifest \/ WriteManifest \/ EmptyMetadata \/ Register
      BY <3>2 DEF OpenFails, EmptyManifest, WriteManifest, EmptyMetadata, Register, Return, IsOpen,
                  vars, call
    <3>3. CASE (\E n \in Names : MakeDirectory(n) \/ GetHandle(n)) \/ UnlinkMetadata \/ RemoveDirectory
      BY <3>3 DEF MakeDirectory, GetHandle, UnlinkMetadata, RemoveDirectory, IsOpen, call
    <3> QED
      BY <1>6, <3>1, <3>2, <3>3 DEF Quiet
  <2> QED
    BY <1>5, <2>1, <2>2
<1>7. CASE UNCHANGED vars
  BY <1>5, <1>7 DEF vars, disk, memory, call, history, IsOpen
<1>8. CASE Replay
  <2>1. /\ buffer'[s] = LoggedIn(wal, s) /\ UNCHANGED <<wal, blocks>>
        /\ owed'[s] = Len(LoggedIn(wal, s)) + Len(StoredIn(blocks[s]))
        /\ pc' = "manifest"
    BY <1>8, ReplayKnows, ReadsAre
  <2>2. IsOpen'
    BY <2>1 DEF IsOpen
  <2> QED
    BY <1>2, <1>4, <2>1, <2>2 DEF OwedOf
<1>9. ASSUME NEW i, AppendTo(i)
      PROVE  OwedOf(IsOpen', s \notin exposed', owed'[s], Len(buffer'[s]), wal', blocks'[s], s)
  <2>1. PICK n \in Names :
           /\ owner[n] \in Nat
           /\ wal' = Append(wal, WalRecord(n, <<owner[n]>>))
           /\ WalRecord(n, <<owner[n]>>) \in Record
           /\ buffer' = [buffer EXCEPT ![n] = Append(@, owner[n])]
           /\ owed' = [owed EXCEPT ![n] = @ + 1]
           /\ pc = "idle"
           /\ UNCHANGED <<blocks, pc, exposed>>
    BY <1>9, AppendWrites
  <2> DEFINE r == WalRecord(n, <<owner[n]>>)
             d == IF n = s THEN 1 ELSE 0
  <2>2. r \in Record /\ wal' = Append(wal, r) /\ r.series = n /\ Len(r.points) = 1
    BY <2>1 DEF WalRecord
  <2>3. owed'[s] = owed[s] + d
    BY <1>2, <1>3, <2>1
  <2>4. Len(buffer'[s]) = Len(buffer[s]) + d
    <3>1. CASE n = s
      <4>1. buffer'[s] = Append(buffer[s], owner[n])
        BY <1>2, <2>1, <3>1
      <4> QED
        BY <1>2, <2>1, <3>1, <4>1
    <3>2. CASE n # s
      <4>1. buffer'[s] = buffer[s]
        BY <1>2, <2>1, <3>2
      <4> QED
        BY <1>3, <3>2, <4>1
    <3> QED
      BY <3>1, <3>2
  <2> HIDE DEF r
  <2>5. Fragments(wal') = {} =>
          Fragments(wal) = {} /\ Len(LoggedIn(wal', s)) = Len(LoggedIn(wal, s)) + d
    <3> SUFFICES ASSUME Fragments(wal') = {}
                 PROVE  Fragments(wal) = {} /\ Len(LoggedIn(wal', s)) = Len(LoggedIn(wal, s)) + d
      OBVIOUS
    <3>1. Fragments(Append(wal, r)) = {}
      BY <2>2
    <3>2. /\ Fragments(wal) = {}
          /\ Len(LoggedIn(Append(wal, r), s)) =
               Len(LoggedIn(wal, s)) + IF r.series = s THEN Len(r.points) ELSE 0
      BY <1>2, <2>2, <3>1, LoggedMore
    <3> QED
      BY <2>2, <3>2
  <2>6. IsOpen /\ IsOpen' /\ blocks' = blocks /\ d \in Nat /\ exposed' = exposed
    BY <2>1 DEF IsOpen
  <2> HIDE DEF d
  <2>7. Len(LoggedIn(wal, s)) \in Nat /\ Len(StoredIn(blocks[s])) \in Nat
    BY <1>2, <1>4
  <2>8. ASSUME Fragments(blocks'[s]) = {}
        PROVE  owed'[s] <= Len(buffer'[s]) + Len(StoredIn(blocks'[s]))
    <3>1. owed[s] <= Len(buffer[s]) + Len(StoredIn(blocks[s]))
      BY <1>1, <2>6, <2>8 DEF OwedOf
    <3>2. Len(StoredIn(blocks'[s])) = Len(StoredIn(blocks[s]))
      BY <2>6
    <3>3. \A o, b, c, e \in Nat : o <= b + c => o + e <= b + e + c
      OBVIOUS
    <3>4. owed[s] + d <= Len(buffer[s]) + d + Len(StoredIn(blocks[s]))
      BY <1>3, <2>6, <2>7, <3>1, <3>3, Zenon
    <3> QED
      BY <2>3, <2>4, <3>2, <3>4, Zenon
  <2>9. ASSUME s \notin exposed', Fragments(wal') = {}
        PROVE  Len(buffer'[s]) <= Len(LoggedIn(wal', s))
    <3>1. Len(buffer[s]) <= Len(LoggedIn(wal, s))
      BY <1>1, <2>5, <2>6, <2>9 DEF OwedOf
    <3>2. Len(LoggedIn(wal', s)) = Len(LoggedIn(wal, s)) + d
      BY <2>5, <2>9
    <3> QED
      BY <1>3, <2>4, <2>6, <2>7, <3>1, <3>2
  <2> QED
    BY <2>6, <2>8, <2>9 DEF OwedOf
<1>10. ASSUME NEW name \in {"flush_all", "close", "delete"}, NEW t \in Names \union {NoName},
             FlushAll(name, t)
       PROVE  OwedOf(IsOpen', s \notin exposed', owed'[s], Len(buffer'[s]), wal', blocks'[s], s)
  <2>1. /\ pc = "idle" /\ wal' = <<>> /\ buffer' = Empty /\ owed' = owed
        /\ \/ s \in Pending /\ Block(buffer[s]) \in AnyBlock
                            /\ blocks'[s] = Append(blocks[s], Block(buffer[s]))
           \/ s \notin Pending /\ blocks'[s] = blocks[s]
        /\ blocks' \in [Names -> Seq(AnyBlock)]
    BY <1>10, FlushWrites
  <2>2. Len(buffer'[s]) = 0 /\ IsOpen
    BY <2>1, EmptySeq DEF Empty, IsOpen
  <2>3. Fragments(blocks'[s]) = {} => owed[s] <= Len(StoredIn(blocks'[s]))
    <3> SUFFICES ASSUME Fragments(blocks'[s]) = {} PROVE owed[s] <= Len(StoredIn(blocks'[s]))
      OBVIOUS
    <3>1. CASE s \in Pending
      <4>1. Block(buffer[s]) \in AnyBlock /\ blocks'[s] = Append(blocks[s], Block(buffer[s]))
        BY <2>1, <3>1
      <4>2. Fragments(Append(blocks[s], Block(buffer[s]))) = {}
        BY <4>1
      <4>3. /\ Fragments(blocks[s]) = {}
            /\ Len(StoredIn(Append(blocks[s], Block(buffer[s])))) =
                 Len(StoredIn(blocks[s])) + Len(Block(buffer[s]).points)
        BY <1>2, <4>1, <4>2, StoredMore
      <4>4. Len(Block(buffer[s]).points) = Len(buffer[s])
        BY BlockPoints
      <4> QED
        BY <1>1, <1>2, <1>3, <1>4, <2>2, <4>1, <4>3, <4>4 DEF OwedOf
    <3>2. CASE s \notin Pending
      <4>1. buffer[s] = <<>>
        BY <3>2 DEF Pending, PlaceInv
      <4>2. Len(buffer[s]) = 0 /\ blocks'[s] = blocks[s]
        BY <2>1, <3>2, <4>1, EmptySeq
      <4> QED
        BY <1>1, <1>2, <1>3, <1>4, <2>2, <4>2 DEF OwedOf
    <3> QED
      BY <3>1, <3>2
  <2>4. wal' \in Seq(Record) /\ blocks'[s] \in Seq(AnyBlock)
    BY <2>1, EmptySeq
  <2>5. Len(LoggedIn(wal', s)) \in Nat /\ Len(StoredIn(blocks'[s])) \in Nat
    BY <1>4, <2>4
  <2> QED
    BY <1>3, <2>1, <2>2, <2>3, <2>5 DEF OwedOf
<1>11. CASE UnlinkSegment
  <2>1. /\ pc = "unlink" /\ UNCHANGED <<wal, buffer, pc, exposed>>
        /\ blocks' = [blocks EXCEPT ![target] = <<>>] /\ owed' = [owed EXCEPT ![target] = 0]
    BY <1>11 DEF UnlinkSegment, memory, call
  <2>2. IsOpen /\ IsOpen'
    BY <2>1 DEF IsOpen
  <2>3. CASE target = s
    <3>1. blocks'[s] = <<>> /\ owed'[s] = 0
      BY <1>2, <2>1, <2>3
    <3>2. Len(StoredIn(<<>>)) \in Nat
      BY <1>4, EmptySeq
    <3>3. s \notin exposed /\ Fragments(wal) = {} => Len(buffer[s]) <= Len(LoggedIn(wal, s))
      BY <1>1, <2>2 DEF OwedOf
    <3>4. 0 <= Len(buffer[s]) + Len(StoredIn(<<>>))
      BY <1>3, <3>2
    <3> QED
      BY <2>1, <2>2, <3>1, <3>3, <3>4 DEF OwedOf
  <2>4. CASE target # s
    <3>1. blocks'[s] = blocks[s] /\ owed'[s] = owed[s]
      BY <1>2, <2>1, <2>4
    <3> QED
      BY <1>1, <2>1, <2>2, <3>1 DEF OwedOf
  <2> QED
    BY <2>3, <2>4
\* The process ends: what the buffer had is in wal.log.
<1>12. ASSUME Stops,
              Fragments(wal') = {} =>
                Fragments(wal) = {} /\ Len(LoggedIn(wal, s)) <= Len(LoggedIn(wal', s)),
              Fragments(blocks'[s]) = {} =>
                Fragments(blocks[s]) = {} /\ Len(StoredIn(blocks[s])) <= Len(StoredIn(blocks'[s])),
              Len(LoggedIn(wal', s)) \in Nat, Len(StoredIn(blocks'[s])) \in Nat
       PROVE  OwedOf(IsOpen', s \notin exposed', owed'[s], Len(buffer'[s]), wal', blocks'[s], s)
  <2>1. ~IsOpen' /\ owed' = owed /\ exposed' = exposed
    BY <1>12 DEF Stops, Forget, IsOpen
  <2>2. Len(LoggedIn(wal, s)) \in Nat /\ Len(StoredIn(blocks[s])) \in Nat
    BY <1>2, <1>4
  <2>3. ASSUME s \notin exposed, Fragments(wal') = {}, Fragments(blocks'[s]) = {}
        PROVE  owed[s] <= Len(LoggedIn(wal', s)) + Len(StoredIn(blocks'[s]))
    <3>1. owed[s] <= Len(LoggedIn(wal, s)) + Len(StoredIn(blocks[s]))
      <4>1. Fragments(wal) = {} /\ Fragments(blocks[s]) = {}
        BY <1>12, <2>3
      <4>2. \/ /\ owed[s] <= Len(buffer[s]) + Len(StoredIn(blocks[s]))
               /\ Len(buffer[s]) <= Len(LoggedIn(wal, s))
            \/ owed[s] <= Len(LoggedIn(wal, s)) + Len(StoredIn(blocks[s]))
        <5>1. CASE IsOpen
          BY <1>1, <2>3, <4>1, <5>1, Zenon DEF OwedOf
        <5>2. CASE ~IsOpen
          BY <1>1, <2>3, <4>1, <5>2, Zenon DEF OwedOf
        <5> QED
          BY <5>1, <5>2
      <4>3. \A o, n, l, f \in Nat : o <= n + f /\ n <= l => o <= l + f
        OBVIOUS
      <4> QED
        BY <1>3, <2>2, <4>2, <4>3, Zenon
    <3> QED
      BY <1>3, <1>12, <2>2, <2>3, <3>1
  <2> QED
    BY <2>1, <2>3 DEF OwedOf
<1>13. CASE ReplayFails \/ Crash
  <2>1. Stops /\ UNCHANGED <<wal, blocks>>
    BY <1>13, StopSteps
  <2> QED
    BY <1>2, <1>4, <1>12, <2>1
<1>14. CASE CrashInAppend
  <2>1. Stops /\ blocks' = blocks
    BY <1>14, StopSteps
  <2>2. wal' = wal \/ \E y \in Record : wal' = Append(wal, y)
    BY <1>14, CrashAppendWrites
  <2>3. ASSUME NEW y \in Record, wal' = Append(wal, y)
        PROVE  /\ Fragments(wal') = {} =>
                    Fragments(wal) = {} /\ Len(LoggedIn(wal, s)) <= Len(LoggedIn(wal', s))
               /\ Len(LoggedIn(wal', s)) \in Nat
    <3>1. Append(wal, y) \in Seq(Record)
      BY <1>2, AppendProperties
    <3>2. Len(LoggedIn(Append(wal, y), s)) \in Nat /\ Len(LoggedIn(wal, s)) \in Nat
      BY <1>2, <1>4, <3>1
    <3>3. ASSUME Fragments(Append(wal, y)) = {}
          PROVE  Fragments(wal) = {} /\ Len(LoggedIn(wal, s)) <= Len(LoggedIn(Append(wal, y), s))
      <4>1. /\ Fragments(wal) = {}
            /\ Len(LoggedIn(Append(wal, y), s)) =
                 Len(LoggedIn(wal, s)) + IF y.series = s THEN Len(y.points) ELSE 0
        BY <1>2, <3>3, LoggedMore
      <4>2. Len(y.points) \in Nat
        BY LenProperties DEF Record
      <4> QED
        BY <3>2, <4>1, <4>2
    <3> QED
      BY <2>3, <3>2, <3>3
  <2>4. Len(StoredIn(blocks[s])) \in Nat /\ Len(LoggedIn(wal, s)) \in Nat
    BY <1>2, <1>4
  <2> QED
    BY <1>12, <2>1, <2>2, <2>3, <2>4
<1>15. CASE WriteStep
  <2>1. PICK kept \in [Names -> Seq(Nat)] : Writes(kept)
    BY <1>15, WriteStepIs
  <2>2. /\ pc = "idle" /\ owed' = owed
        /\ \/ blocks'[s] = blocks[s] /\ kept[s] = buffer[s]
           \/ /\ kept[s] \in {buffer[s], <<>>}
              /\ \E y \in AnyBlock : blocks'[s] = Append(blocks[s], y) /\ y.points = buffer[s]
        /\ \/ wal' = wal /\ exposed \subseteq exposed'
           \/ /\ LeftOver(wal', Pending)
              /\ s \notin exposed' /\ Fragments(wal') = {} => Len(kept[s]) <= Len(LoggedIn(wal', s))
        /\ blocks' \in [Names -> Seq(AnyBlock)]
        /\ Forget \/ (buffer' = kept /\ pc' = pc)
    BY <2>1 DEF Writes
  <2>3. wal' \in Seq(Record) /\ blocks'[s] \in Seq(AnyBlock)
    BY <1>2, <2>2 DEF LeftOver
  <2>4. /\ Len(kept[s]) \in Nat /\ Len(LoggedIn(wal', s)) \in Nat /\ Len(LoggedIn(wal, s)) \in Nat
        /\ Len(StoredIn(blocks'[s])) \in Nat /\ Len(StoredIn(blocks[s])) \in Nat
    BY <1>2, <1>4, <2>3, LenProperties
  <2>5. IsOpen /\ Len(kept[s]) <= Len(buffer[s])
    BY <1>3, <2>2, EmptySeq DEF IsOpen
\* What is not in the buffer any more is in the block.
  <2>6. ASSUME Fragments(blocks'[s]) = {}
        PROVE  owed[s] <= Len(kept[s]) + Len(StoredIn(blocks'[s]))
    <3>1. CASE blocks'[s] = blocks[s] /\ kept[s] = buffer[s]
      BY <1>1, <2>5, <2>6, <3>1 DEF OwedOf
    <3>2. ASSUME NEW y \in AnyBlock, blocks'[s] = Append(blocks[s], y), y.points = buffer[s]
          PROVE  owed[s] <= Len(kept[s]) + Len(StoredIn(blocks'[s]))
      <4>1. Fragments(Append(blocks[s], y)) = {}
        BY <2>6, <3>2
      <4>2. /\ Fragments(blocks[s]) = {}
            /\ Len(StoredIn(Append(blocks[s], y))) = Len(StoredIn(blocks[s])) + Len(y.points)
        BY <1>2, <4>1, StoredMore
      <4>3. Len(StoredIn(blocks'[s])) = Len(StoredIn(blocks[s])) + Len(buffer[s])
        BY <3>2, <4>2
      <4>4. owed[s] <= Len(buffer[s]) + Len(StoredIn(blocks[s]))
        BY <1>1, <2>5, <4>2 DEF OwedOf
      <4>5. \A o, b, c, d, k \in Nat : o <= b + c /\ d = c + b => o <= k + d
        OBVIOUS
      <4> QED
        BY <1>3, <2>4, <4>3, <4>4, <4>5, Zenon
    <3> QED
      BY <2>2, <3>1, <3>2
\* What is still in the buffer is in wal.log.
  <2>7. ASSUME s \notin exposed', Fragments(wal') = {}
        PROVE  Len(kept[s]) <= Len(LoggedIn(wal', s))
    <3>1. CASE wal' = wal /\ exposed \subseteq exposed'
      <4>1. Len(buffer[s]) <= Len(LoggedIn(wal, s))
        BY <1>1, <2>5, <2>7, <3>1 DEF OwedOf
      <4> QED
        BY <1>3, <2>4, <2>5, <3>1, <4>1
    <3> QED
      BY <2>2, <2>7, <3>1
  <2>8. CASE Forget
    <3>1. ~IsOpen'
      BY <2>8 DEF Forget, IsOpen
    <3>2. ASSUME s \notin exposed', Fragments(wal') = {}, Fragments(blocks'[s]) = {}
          PROVE  owed[s] <= Len(LoggedIn(wal', s)) + Len(StoredIn(blocks'[s]))
      BY <1>3, <2>4, <2>6, <2>7, <3>2
    <3> QED
      BY <2>2, <3>1, <3>2 DEF OwedOf
  <2>9. CASE buffer' = kept /\ pc' = pc
    <3>1. IsOpen'
      BY <2>2, <2>9 DEF IsOpen
    <3> QED
      BY <2>2, <2>6, <2>7, <2>9, <3>1 DEF OwedOf
  <2> QED
    BY <2>2, <2>8, <2>9
<1>16. CASE Fault
  <2>1. UNCHANGED <<manifest, metadata, blocks, wal, owner, births, owed, exposed>>
    BY <1>16, StopSteps
  <2>2. CASE Forget
    <3>1. Stops
      BY <2>1, <2>2 DEF Stops
    <3> QED
      BY <1>2, <1>4, <1>12, <2>1, <3>1
  <2>3. CASE ~Forget
    <3>1. Return /\ buffer' = buffer /\ pc \notin {"closed", "replay"}
      BY <1>16, <2>3, StopSteps DEF Fault
    <3> QED
      BY <1>5, <2>1, <3>1 DEF Return, IsOpen
  <2> QED
    BY <2>2, <2>3
<1> QED
  BY <1>6, <1>7, <1>8, <1>9, <1>10, <1>11, <1>13, <1>14, <1>15, <1>16, Steps

-----------------------------------------------------------------------------
(* How many entries there can be *)

\* The births of the entries are different numbers from 1 to births.
LEMMA SeriesBounded ==
  ASSUME CatalogInv, births <= MaxBirths, NEW i \in DOMAIN series
  PROVE  i \in 1..MaxBirths
<1>1. series \in Seq(Entries) /\ births \in Nat /\ MaxBirths \in Nat /\ SeriesInv /\ OwnerInv
      /\ owner \in [Names -> Nat]
  BY CatalogAssumption DEF CatalogInv, TypeInv
<1>2. Len(series) \in Nat /\ DOMAIN series = 1..Len(series)
  BY <1>1
<1> DEFINE f == [j \in 1..Len(series) |-> series[j].birth]
<1>3. ASSUME NEW j \in 1..Len(series)
      PROVE  /\ series[j].name \in Names /\ series[j].birth = owner[series[j].name]
             /\ series[j].birth # 0 /\ series[j].birth \in 1..births
  <2>1. series[j] \in Entries
    BY <1>1
  <2>2. series[j].name \in Names /\ series[j].birth \in Nat
    BY <2>1 DEF Entries
  <2>3. series[j].birth = owner[series[j].name] /\ series[j].birth # 0
    BY <1>1, <1>2 DEF SeriesInv
  <2>4. series[j].birth <= births
    BY <1>1, <2>2, <2>3 DEF OwnerInv
  <2> QED
    BY <1>1, <2>2, <2>3, <2>4
<1>4. \A j, k \in 1..Len(series) : series[j].birth = series[k].birth => j = k
  <2> SUFFICES ASSUME NEW j \in 1..Len(series), NEW k \in 1..Len(series),
                      series[j].birth = series[k].birth
               PROVE  j = k
    OBVIOUS
  <2>1. series[j].name = series[k].name
    BY <1>1, <1>3 DEF OwnerInv
  <2> QED
    BY <1>1, <1>2, <2>1 DEF SeriesInv
<1>5. f \in Injection(1..Len(series), 1..births)
  <2>1. f \in [1..Len(series) -> 1..births]
    BY <1>3
  <2>2. \A j, k \in 1..Len(series) : f[j] = f[k] => j = k
    BY <1>4
  <2> QED
    BY <2>1, <2>2 DEF Injection, IsInjective
<1> HIDE DEF f
<1>6. IsFiniteSet(1..births) /\ Cardinality(1..births) = births
  BY <1>1, FS_Interval
<1>7. Cardinality(1..Len(series)) <= Cardinality(1..births)
  BY <1>5, <1>6, FS_Injection
<1>8. Cardinality(1..Len(series)) = Len(series)
  <2>1. \A n \in Nat : Cardinality(1..n) = n
    <3> TAKE n \in Nat
    <3>1. Cardinality(1..n) = IF 1 > n THEN 0 ELSE n - 1 + 1
      BY FS_Interval
    <3> QED
      BY <3>1
  <2> QED
    BY <1>2, <2>1
<1> QED
  BY <1>1, <1>2, <1>6, <1>7, <1>8

LEMMA BirthsStep ==
  CatalogInv /\ DataInv /\ PlaceInv /\ births <= MaxBirths /\ [Next]_vars => births' <= MaxBirths
<1> SUFFICES ASSUME CatalogInv, DataInv, PlaceInv, births <= MaxBirths, [Next]_vars
             PROVE  births' <= MaxBirths
  OBVIOUS
<1>1. births \in Nat /\ MaxBirths \in Nat
  BY CatalogAssumption DEF CatalogInv, TypeInv
<1>2. ASSUME NEW s \in Names, MakeDirectory(s) PROVE births' <= MaxBirths
  <2>1. births < MaxBirths /\ (births' = births \/ births' = births + 1)
    BY <1>2 DEF MakeDirectory, origin
  <2> QED
    BY <1>1, <2>1
<1>3. CASE births' = births
  BY <1>3
<1>4. CASE Quiet
  <2>1. CASE \E s \in Names : MakeDirectory(s)
    BY <1>2, <2>1
  <2>2. CASE ~\E s \in Names : MakeDirectory(s)
    BY <1>3, <1>4, <2>2 DEF Quiet, Open, OpenFails, EmptyManifest, WriteManifest, EmptyMetadata,
            Register, GetHandle, UnlinkMetadata, RemoveDirectory, origin, vars
  <2> QED
    BY <2>1, <2>2
<1>5. CASE UNCHANGED vars \/ UnlinkSegment
  BY <1>3, <1>5 DEF UnlinkSegment, vars, origin
<1>6. CASE Replay
  BY <1>3, <1>6, ReplayKnows
<1>7. ASSUME NEW i, AppendTo(i) PROVE births' = births
  BY <1>7 DEF AppendTo, origin
<1>8. ASSUME NEW name \in {"flush_all", "close", "delete"}, NEW t \in Names \union {NoName},
             FlushAll(name, t)
      PROVE  births' = births
  BY <1>8 DEF FlushAll, origin
<1>9. CASE ReplayFails \/ Crash \/ CrashInAppend \/ Fault
  BY <1>3, <1>9, StopSteps DEF Stops
<1>10. CASE WriteStep
  BY <1>3, <1>10, WriteStepIs DEF Writes
<1> QED
  BY <1>3, <1>4, <1>5, <1>6, <1>7, <1>8, <1>9, <1>10, Steps

Generations == \A i \in DOMAIN series : series[i].generation >= 1

\* The steps that change db->series.
LEMMA GenerationStep ==
  CatalogInv /\ DataInv /\ PlaceInv /\ Generations /\ [Next]_vars => Generations'
<1> SUFFICES ASSUME CatalogInv, DataInv, PlaceInv, Generations, [Next]_vars PROVE Generations'
  OBVIOUS
<1>1. series \in Seq(Entries) /\ nextGeneration \in Nat
  BY DEF CatalogInv, TypeInv
<1>2. CASE series' = series \/ series' = <<>>
  BY <1>2 DEF Generations
<1>3. CASE Quiet
  <2>1. CASE Open
    BY <2>1, OpenedEntries DEF Generations
  <2>2. CASE Register
    <3> DEFINE e == [name |-> target, generation |-> nextGeneration + 1, birth |-> owner[target]]
    <3>1. series' = Append(series, e) /\ target \in Names /\ owner[target] \in Nat
      BY <2>2 DEF Register, CatalogInv, CallInv, TypeInv
    <3>2. e \in Entries /\ e.generation >= 1
      BY <1>1, <3>1 DEF Entries
    <3> HIDE DEF e
    <3>3. \A j \in DOMAIN series' : (j \in DOMAIN series /\ series'[j] = series[j]) \/ series'[j] = e
      BY <1>1, <3>1, <3>2, AppendMembers
    <3> QED
      BY <3>2, <3>3 DEF Generations
  <2>3. CASE RemoveDirectory
    <3>1. \A j \in DOMAIN series' : \E i \in DOMAIN series : series'[j] = series[i]
      BY <2>3, RemovedEntries
    <3> QED
      BY <3>1 DEF Generations
  <2>4. CASE ~Open /\ ~Register /\ ~RemoveDirectory
    BY <1>2, <1>3, <2>4 DEF Quiet, OpenFails, EmptyManifest, WriteManifest, MakeDirectory,
            EmptyMetadata, GetHandle, UnlinkMetadata, memory, vars
  <2> QED
    BY <2>1, <2>2, <2>3, <2>4
<1>4. CASE UNCHANGED vars \/ UnlinkSegment
  BY <1>2, <1>4 DEF UnlinkSegment, vars, memory
<1>5. CASE Replay
  BY <1>2, <1>5, ReplayKnows
<1>6. ASSUME NEW i, AppendTo(i) PROVE series' = series
  BY <1>6 DEF AppendTo
<1>7. ASSUME NEW name \in {"flush_all", "close", "delete"}, NEW t \in Names \union {NoName},
             FlushAll(name, t)
      PROVE  series' = series \/ series' = <<>>
  BY <1>7, FlushWrites
<1>8. CASE ReplayFails \/ Crash \/ CrashInAppend \/ Fault
  BY <1>2, <1>8, StopSteps DEF Stops, Forget
<1>9. CASE WriteStep
  BY <1>2, <1>9, WriteStepIs DEF Writes, Forget
<1> QED
  BY <1>2, <1>3, <1>4, <1>5, <1>6, <1>7, <1>8, <1>9, Steps

Indexes == \A k \in DOMAIN handles : handles[k].index \in 1..MaxBirths

\* The steps that change db->handles.
LEMMA IndexStep ==
  CatalogInv /\ DataInv /\ PlaceInv /\ births <= MaxBirths /\ Indexes /\ [Next]_vars => Indexes'
<1> SUFFICES ASSUME CatalogInv, DataInv, PlaceInv, births <= MaxBirths, Indexes, [Next]_vars
             PROVE  Indexes'
  OBVIOUS
<1>1. handles \in Seq(Tokens) /\ series \in Seq(Entries)
  BY DEF CatalogInv, TypeInv
<1>2. CASE handles' = handles \/ handles' = <<>>
  BY <1>2 DEF Indexes
<1>3. ASSUME NEW s \in Names, GetHandle(s) PROVE Indexes'
  <2> DEFINE i == Position(s)
             h == [name |-> s, index |-> i, birth |-> series[i].birth,
                   generation |-> series[i].generation]
  <2>1. i \in DOMAIN series
    BY <1>3, PositionFinds DEF GetHandle
  <2>2. i \in 1..MaxBirths
    BY <2>1, SeriesBounded
  <2>3. \/ \E k \in DOMAIN handles : handles' = [handles EXCEPT ![k].index = i]
        \/ handles' = Append(handles, h)
    <3>1. CASE Cached(s) # {}
      <4>1. handles' = [handles EXCEPT ![CHOOSE k \in Cached(s) : TRUE].index = i]
        BY <1>3, <3>1 DEF GetHandle
      <4>2. (CHOOSE k \in Cached(s) : TRUE) \in DOMAIN handles
        BY <3>1 DEF Cached
      <4> QED
        BY <4>1, <4>2
    <3>2. CASE Cached(s) = {}
      BY <1>3, <3>2 DEF GetHandle
    <3> QED
      BY <3>1, <3>2
  <2>4. ASSUME NEW k \in DOMAIN handles, handles' = [handles EXCEPT ![k].index = i] PROVE Indexes'
    <3> HIDE DEF i
    <3>1. \A j \in DOMAIN handles' : /\ j \in DOMAIN handles
                                     /\ handles'[j].index \in {i, handles[j].index}
      BY <1>1, <2>4 DEF Tokens
    <3> QED
      BY <2>2, <3>1 DEF Indexes
  <2>5. CASE handles' = Append(handles, h)
    <3>1. series[i] \in Entries
      BY <1>1, <2>1
    <3>2. h \in Tokens /\ h.index = i
      BY <1>1, <2>1, <3>1 DEF Tokens, Entries
    <3> HIDE DEF h, i
    <3>3. \A j \in DOMAIN handles' : (j \in DOMAIN handles /\ handles'[j] = handles[j]) \/ handles'[j] = h
      BY <1>1, <2>5, <3>2, AppendMembers
    <3> QED
      BY <2>2, <3>2, <3>3 DEF Indexes
  <2> QED
    BY <2>3, <2>4, <2>5
<1>4. ASSUME NEW k \in DOMAIN handles, AppendByHandle(k) PROVE Indexes'
  <2> DEFINE i == Resolve(handles[k])
  <2>1. i # 0 /\ handles' = [handles EXCEPT ![k].index = i]
    BY <1>4 DEF AppendByHandle
  <2>2. i \in DOMAIN series
    BY <2>1, ResolveFinds DEF CatalogInv
  <2> HIDE DEF i
  <2>3. i \in 1..MaxBirths
    BY <2>2, SeriesBounded
  <2>4. \A j \in DOMAIN handles' : /\ j \in DOMAIN handles
                                   /\ handles'[j].index \in {i, handles[j].index}
    BY <1>1, <2>1 DEF Tokens
  <2> QED
    BY <2>3, <2>4 DEF Indexes
<1>5. CASE HandleStep
  <2>1. ASSUME NEW s \in Names, AppendByName(s) PROVE handles' = handles
    BY <2>1 DEF AppendByName
  <2> QED
    BY <1>2, <1>3, <1>4, <1>5, <2>1 DEF HandleStep
<1>6. CASE CreateStep
  BY <1>2, <1>6 DEF CreateStep, MakeDirectory, EmptyMetadata, Register, memory
<1>7. CASE DeleteStep
  BY <1>2, <1>7 DEF DeleteStep, UnlinkMetadata, UnlinkSegment, RemoveDirectory, memory
<1>8. CASE Open \/ OpenFails \/ Replay \/ EmptyManifest \/ WriteManifest \/ UNCHANGED vars
  BY <1>2, <1>8 DEF Open, OpenFails, Replay, EmptyManifest, WriteManifest, memory, vars
<1>9. CASE ReplayFails \/ Crash \/ CrashInAppend \/ Fault
  BY <1>2, <1>9, StopSteps DEF Stops, Forget
<1>10. CASE WriteStep
  BY <1>2, <1>10, WriteStepIs DEF Writes, Forget
<1>11. CASE FlushStep
  <2>1. ASSUME NEW name, NEW t, FlushAll(name, t) PROVE Indexes'
    BY <1>2, <2>1 DEF FlushAll, Forget
  <2> QED
    BY <1>10, <1>11, <2>1 DEF FlushStep, WriteStep
<1> QED
  BY <1>5, <1>6, <1>7, <1>8, <1>9, <1>10, <1>11 DEF Next, WriteStep

LEMMA CountStep == CatalogInv /\ DataInv /\ PlaceInv /\ CountInv /\ [Next]_vars => CountInv'
BY BirthsStep, GenerationStep, IndexStep DEF CountInv, Generations, Indexes

-----------------------------------------------------------------------------
(* The invariant, and what follows from it *)

KeptInv ==
  /\ CatalogInv /\ DataInv /\ PlaceInv
  /\ CountInv /\ HomeInv /\ CleanInv /\ ListInv /\ OwedInv

LEMMA InitKept == Init => KeptInv
<1> SUFFICES ASSUME Init PROVE KeptInv
  OBVIOUS
<1> USE DEF Init
<1>1. CatalogInv
  BY InitInv
<1>2. Empty \in [Names -> Seq(Nat)] /\ Empty \in [Names -> Seq(AnyBlock)] /\ <<>> \in Seq(Record)
      /\ \A s \in Names : Empty[s] = <<>>
  BY EmptySeq DEF Empty
<1>3. DataInv
  BY <1>2 DEF DataInv, NoManifest
<1>4. Directories = {} /\ Registered = {} /\ \A i \in 1..Len(wal) : FALSE
  BY EmptySeq DEF Directories, Registered
<1>5. PlaceInv
  BY <1>2, <1>4 DEF PlaceInv
<1>6. CountInv
  BY CatalogAssumption DEF CountInv
<1>7. HomeInv
  <2>1. \A n : n \notin PointsIn(<<>>)
    BY EmptySeq, PointsInMember
  <2>2. \A s : InLog(<<>>, s) = {}
    BY InLogEmpty
  <2> QED
    BY <1>2, <2>1, <2>2, RangeEmpty DEF HomeInv
<1>8. Fragments(<<>>) = {}
  BY <1>4 DEF Fragments
<1>9. CleanInv
  BY <1>2, <1>4, <1>8 DEF CleanInv
<1>10. ListInv
  BY DEF ListInv
<1>11. OwedInv
  <2>1. \A s \in Names : LoggedIn(wal, s) \in Seq(Nat) /\ StoredIn(blocks[s]) \in Seq(Nat)
    BY <1>2, LoggedIs, StoredIs
  <2>2. \A s \in Names : Len(LoggedIn(wal, s)) \in Nat /\ Len(StoredIn(blocks[s])) \in Nat
    BY <2>1, LenProperties
  <2>3. ~IsOpen /\ \A s \in Names : owed[s] = 0
    BY DEF IsOpen
  <2>4. \A a, b \in Nat : 0 <= a + b
    OBVIOUS
  <2>5. \A s \in Names : owed[s] <= Len(LoggedIn(wal, s)) + Len(StoredIn(blocks[s]))
    <3> TAKE s \in Names
    <3>1. Len(LoggedIn(wal, s)) \in Nat /\ Len(StoredIn(blocks[s])) \in Nat /\ owed[s] = 0
      BY ONLY <2>2, <2>3
    <3>2. 0 <= Len(LoggedIn(wal, s)) + Len(StoredIn(blocks[s]))
      BY ONLY <2>4, <3>1
    <3> QED
      BY ONLY <3>1, <3>2
  <2> QED
    BY ONLY <2>3, <2>5 DEF OwedInv
<1> QED
  BY <1>1, <1>3, <1>5, <1>6, <1>7, <1>9, <1>10, <1>11 DEF KeptInv

LEMMA NextKept == KeptInv /\ [Next]_vars => KeptInv'
BY NextInv, DataStep, PlaceStep, CountStep, HomeStep, CleanStep, ListStep, OwedStep DEF KeptInv

LEMMA KeptTypes == KeptInv => TypeOK
<1> SUFFICES ASSUME KeptInv PROVE TypeOK
  OBVIOUS
<1>1. /\ TypeInv /\ OwnerInv /\ SeriesInv /\ DataInv /\ PlaceInv /\ CountInv
  BY DEF KeptInv, CatalogInv
<1>2. /\ manifest \in [state : {"none", "empty", "whole"}, names : SUBSET Names]
      /\ metadata \in [Names -> {"nodir", "none", "empty", "whole"}]
      /\ pc \in {"closed", "replay", "manifest", "listing", "idle", "metadata", "name", "unlink"}
      /\ op \in {"none", "open", "create", "delete"}
      /\ target \in Names \union {NoName} /\ exposed \subseteq Names
  BY <1>1 DEF DataInv, TypeInv
<1>3. /\ hasSegment \subseteq Directories /\ Registered \subseteq Directories
      /\ \A s \in Names : blocks[s] # <<>> => s \in hasSegment
      /\ \A s \in Names : buffer[s] # <<>> => s \in Registered
  BY <1>1 DEF PlaceInv
<1>4. \A s \in Names : owner[s] \in 0..births /\ (owner[s] = 0 <=> s \notin Directories)
  BY <1>1 DEF TypeInv, OwnerInv, PlaceInv, Directories
<1>5. ASSUME NEW i \in DOMAIN series PROVE series[i].generation \in 1..nextGeneration
  <2>1. series[i] \in Entries
    BY <1>1 DEF TypeInv
  <2> QED
    BY <1>1, <2>1 DEF TypeInv, Entries, SeriesInv, CountInv
<1>6. \A k \in DOMAIN handles : handles[k].index \in 1..MaxBirths
  BY <1>1 DEF CountInv
<1> QED
  BY <1>2, <1>3, <1>4, <1>5, <1>6 DEF TypeOK

LEMMA KeptHome == KeptInv => PointsStayHome
<1> SUFFICES ASSUME KeptInv, NEW s \in Names
             PROVE  Range(Logged(s) \o Stored(s) \o buffer[s]) \subseteq {owner[s]} \ {0}
  BY DEF PointsStayHome
<1>1. wal \in Seq(Record) /\ blocks[s] \in Seq(AnyBlock) /\ buffer[s] \in Seq(Nat)
  BY DEF KeptInv, DataInv
<1>2. /\ Logged(s) \in Seq(Nat) /\ Range(Logged(s)) \subseteq InLog(wal, s)
      /\ Stored(s) \in Seq(Nat) /\ Range(Stored(s)) \subseteq PointsIn(blocks[s])
  BY <1>1, ReadsAre, LoggedIs, StoredIs
<1>3. /\ InLog(wal, s) \subseteq Home(s) /\ PointsIn(blocks[s]) \subseteq Home(s)
      /\ Range(buffer[s]) \subseteq Home(s)
  BY DEF KeptInv, HomeInv
<1>4. /\ Logged(s) \o Stored(s) \in Seq(Nat)
      /\ Range(Logged(s) \o Stored(s)) = Range(Logged(s)) \union Range(Stored(s))
  BY <1>2, ConcatProperties, RangeConcat
<1>5. Range((Logged(s) \o Stored(s)) \o buffer[s]) =
        Range(Logged(s) \o Stored(s)) \union Range(buffer[s])
  <2>1. ASSUME NEW u \in Seq(Nat), NEW v \in Seq(Nat)
        PROVE  Range(u \o v) = Range(u) \union Range(v)
    BY ONLY RangeConcat
  <2> QED
    BY ONLY <1>1, <1>4, <2>1, Zenon
<1> QED
  BY <1>2, <1>3, <1>4, <1>5 DEF Home

LEMMA KeptVerifies == KeptInv => CleanVerifies
<1> SUFFICES ASSUME KeptInv, ~interrupted, pc \in {"idle", "closed"}, manifest # NoManifest
             PROVE  Verified
  BY DEF CleanVerifies
<1>1. /\ Fragments(wal) = {} /\ manifest.state = "whole"
      /\ \A s \in Names : Fragments(blocks[s]) = {}
      /\ \A s \in hasSegment : blocks[s] # <<>>
      /\ \A s \in Directories : metadata[s] = "whole"
  BY DEF KeptInv, CleanInv
<1>2. \A s \in Directories : s \in Names
  BY DEF Directories
<1> QED
  BY <1>1, <1>2 DEF Verified, VerifySeries, VerifySegment, VerifyWal

LEMMA KeptListed == KeptInv => ManifestCurrent
BY DEF KeptInv, ListInv, ManifestCurrent

\* A payload cut short that later bytes fill exactly is no error for a scan.
LEMMA FilledIsNoError ==
  ASSUME NEW b \in Seq(AnyBlock), Fragments(b) # {},
         b[FirstFragment(b)].got > 0, CellsAfter(b) = Missing(b)
  PROVE  ~SegmentCorrupt(b)
<1> DEFINE x == b[FirstFragment(b)]
<1>1. x \in AnyBlock
  BY FirstFragmentIsFirst
<1>2. Missing(b) = Size(x) - x.got
  BY DEF Missing
<1> HIDE DEF x
<1>3. Size(x) \in Nat /\ x.got \in Nat
  <2>1. Len(x.points) \in Nat /\ x.got \in Nat
    BY <1>1, LenProperties DEF AnyBlock
  <2> QED
    BY <2>1 DEF Size
<1>4. Missing(b) \in Int
  BY <1>2, <1>3
<1> QED
  BY <1>3, <1>4 DEF SegmentCorrupt, x

LEMMA KeptRecovers == KeptInv => VerifiedRecovers
<1> SUFFICES ASSUME KeptInv, pc = "closed", Verified
             PROVE  /\ ~WalCorrupt(wal)
                    /\ \A s \in Directories \ Hidden :
                         /\ ~SegmentCorrupt(blocks[s])
                         /\ s \notin exposed /\ Fragments(blocks[s]) = {} =>
                              Len(Logged(s)) + Len(Stored(s)) >= owed[s]
  BY DEF VerifiedRecovers
<1>1. Fragments(wal) = {}
  BY DEF Verified, VerifyWal
<1>2. ASSUME NEW s \in Directories \ Hidden
      PROVE  /\ ~SegmentCorrupt(blocks[s])
             /\ s \notin exposed /\ Fragments(blocks[s]) = {} =>
                  Len(Logged(s)) + Len(Stored(s)) >= owed[s]
  <2>1. s \in Names /\ VerifySegment(s)
    BY <1>2 DEF Verified, VerifySeries, Directories
  <2>2. wal \in Seq(Record) /\ blocks[s] \in Seq(AnyBlock) /\ owed[s] \in Nat
    BY <2>1 DEF KeptInv, DataInv
  <2>3. s \notin hasSegment => Fragments(blocks[s]) = {}
    <3>1. \A i \in 1..Len(<<>>) : FALSE
      BY EmptySeq
    <3>2. s \notin hasSegment => blocks[s] = <<>>
      BY <2>1 DEF KeptInv, PlaceInv
    <3> QED
      BY <3>1, <3>2 DEF Fragments
  <2>4. ~SegmentCorrupt(blocks[s])
    <3>1. CASE Fragments(blocks[s]) = {}
      BY <3>1 DEF SegmentCorrupt
    <3>2. CASE Fragments(blocks[s]) # {}
      <4>1. /\ blocks[s][FirstFragment(blocks[s])].got > 0
            /\ CellsAfter(blocks[s]) = Missing(blocks[s])
        BY <2>1, <2>3, <3>2 DEF VerifySegment
      <4> QED
        BY <2>2, <3>2, <4>1, FilledIsNoError
    <3> QED
      BY <3>1, <3>2
  <2>5. ASSUME s \notin exposed, Fragments(blocks[s]) = {}
        PROVE  Len(Logged(s)) + Len(Stored(s)) >= owed[s]
    <3>1. owed[s] <= Len(LoggedIn(wal, s)) + Len(StoredIn(blocks[s]))
      BY <1>1, <2>1, <2>5 DEF KeptInv, OwedInv, IsOpen
    <3>2. Len(LoggedIn(wal, s)) \in Nat /\ Len(StoredIn(blocks[s])) \in Nat
      BY <2>2, LoggedIs, StoredIs, LenProperties
    <3> QED
      BY <2>2, <3>1, <3>2, ReadsAre
  <2> QED
    BY <2>4, <2>5
<1> QED
  BY <1>1, <1>2 DEF WalCorrupt

-----------------------------------------------------------------------------
(* The theorems *)

\* Values and places: whatever is kept for a series has a directory, a directory has a
\* birth, and the index a handle caches is that of an entry there could be.
THEOREM TypeCorrect == Spec => []TypeOK
<1> QED
  BY InitKept, NextKept, KeptTypes, PTL DEF Spec

\* Deleting and creating series, appends through old handles, crashes and replays never
\* bring a point under a series that it was not meant for.
THEOREM StayHome == Spec => []PointsStayHome
<1> QED
  BY InitKept, NextKept, KeptHome, PTL DEF Spec

\* tsedge_verify accepts what calls that ran to their end leave, whatever their order.
THEOREM CleanIsVerified == Spec => []CleanVerifies
<1> QED
  BY InitKept, NextKept, KeptVerifies, PTL DEF Spec

\* Between calls manifest.txt lists the series of the database, after any crashes, as
\* long as no file operation has failed.
THEOREM ManifestIsCurrent == Spec => []ManifestCurrent
<1> QED
  BY InitKept, NextKept, KeptListed, PTL DEF Spec

\* A closed database that tsedge_verify accepts can be opened, and gives back every
\* point that could be read before, but for what the files do not show any more: the
\* series that a rewrite of wal.log cut short has left without a record, and a block cut
\* short that later bytes fill exactly.
THEOREM AcceptedRecovers == Spec => []VerifiedRecovers
<1> QED
  BY InitKept, NextKept, KeptRecovers, PTL DEF Spec
=============================================================================
