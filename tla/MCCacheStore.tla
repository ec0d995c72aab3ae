---------------------------- MODULE MCCacheStore ----------------------------
(* CacheStore on a small instance; paths, compressions and workers are     *)
(* interchangeable.                                                        *)
EXTENDS CacheStore, TLC

Symmetry == Permutations(Paths) \cup Permutations(Exts) \cup Permutations(Workers)
=============================================================================
