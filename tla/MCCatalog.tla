----------------------------- MODULE MCCatalog -----------------------------
(* Small instances of TsedgeCatalog. *)
EXTENDS TsedgeCatalog, TLC
=============================================================================
