----------------------------- MODULE MCSegments -----------------------------
(* Small instances of TsedgeSegments. *)
EXTENDS TsedgeSegments

MCRegistry == <<"s1", "s2">>

OneSeries == <<"s1">>

AllSteps == {"flush", "truncate", "measure", "evict", "expire", "reindex", "refresh"}
=============================================================================
