----------------------------- MODULE CheckCacheMC -----------------------------
(* A cache of two keys, each with one result or none; writers are alike. *)
EXTENDS CheckCache

ASSUME CacheAssumption == IsCheckCache
=============================================================================
