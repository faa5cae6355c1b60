------------------------------ MODULE MCPleGather ------------------------------
(* Small instances of PleGather for TLC.                                   *)
EXTENDS PleGather

(* Seven rows in shards of three, three and one: ids 7 and 8 lie in the    *)
(* gap.  All checkpoints with up to four shards of up to three rows.       *)
MCLayouts == UNION {[S -> 0 .. 3] : S \in SUBSET (0 .. 3)}

(* Nothing; ids repeated and out of order; one shard in one task and in    *)
(* two; all shards; ids in the gap, in one task and in two; ids below and  *)
(* above.                                                                  *)
MCRequests == {<<>>, <<1, 0, 1>>, <<4, 0, 4>>, <<2, 0, 3, 1, 6>>,
               <<7, 6>>, <<8, 6, 7, 0>>, <<-1, 0>>, <<9, 1>>}
================================================================================
