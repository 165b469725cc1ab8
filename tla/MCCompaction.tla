---------------------------- MODULE MCCompaction ----------------------------
(* Small instance of Compaction: the loop's compaction and one request's.   *)
EXTENDS Compaction

MCManual == {"request"}
=============================================================================
