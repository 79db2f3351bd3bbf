-------------------------- MODULE MCCacheHierarchy --------------------------
(***************************************************************************)
(* The cache hierarchy in small: two caches of two ways above DRAM, and    *)
(* three lines, one more than a set holds, that are all alike.             *)
(***************************************************************************)
EXTENDS CacheHierarchy

CONSTANTS t1, t2, t3

(* The latencies of l1_d_0, l2_0 and dram_0 in config/simple.yaml, without *)
(* its third level (l3_0, 19 cycles), and some where a write-back is still *)
(* under way when the line is asked for again.                             *)
MCLatencies == {<<3, 11, 99>>} \cup {<<a, b, d>> : a \in {1, 2, 4}, b \in {1, 3}, d \in {1, 2, 5}}

TagSymmetry == Permutations(Tags)
=============================================================================
