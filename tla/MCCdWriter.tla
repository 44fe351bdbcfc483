----------------------------- MODULE MCCdWriter -----------------------------
(***************************************************************************)
(* Two DAQ threads, room for one event in the queue, and shards that hold  *)
(* four units of records, or one event key.  Of the four events the first  *)
(* two belong to one key and do not fit into one shard, unless a part of   *)
(* the first is left of a write that failed: then the second passes the    *)
(* limit.  The third is empty, the last is too large.  An L1 record fills  *)
(* a shard.                                                                *)
(***************************************************************************)
EXTENDS CdWriter

CONSTANTS f1, f2

MCFrontends  == {f1, f2}
MCStreams    == {"L1", "CD"}
MCEvents     == 1..4
MCEventKey   == <<1, 1, 2, 2>>
MCFragments  == <<1, 2, 0, 1>>
MCRecordSize == <<2, 2, 1, 5>>
=============================================================================
