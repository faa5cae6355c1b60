------------------------------- MODULE PleLayout -------------------------------
(***************************************************************************)
(* Where a row of the PLE n-gram table lies on disk (src/vllm_ple_mmap.py).*)
(* The table has Vocab rows, stored as Parts tensors shard_0, shard_1, ... *)
(* in the order of vLLM's copy_ple_embedding_shard_: shard s holds the     *)
(* rows from s * ShardSize on.                                             *)
(***************************************************************************)
EXTENDS Integers, Functions

CONSTANTS Vocab,     \* org_vocab_size
          Parts      \* split_ngram_parts

ASSUME VocabAssumption == Vocab \in Nat \ {0}
ASSUME PartsAssumption == Parts \in Nat \ {0}

Shard == 0 .. Parts - 1
RowId == 0 .. Vocab - 1

(* math.ceil(vocab / parts)                                                *)
ShardSize == (Vocab + Parts - 1) \div Parts

Least(a, b) == IF a < b THEN a ELSE b
Greatest(a, b) == IF a < b THEN b ELSE a

ExpectedRows(s) == Greatest(0, Least(ShardSize, Vocab - s * ShardSize))

(* Faulty: what the static audit looks at, the sum of the rows.            *)
ValidRowSum(found) == FoldFunction(+, 0, found) = Vocab

(* _validate_shard_layout: found maps the number of a shard that is on     *)
(* disk to its rows.                                                       *)
ValidLayout(found) ==
    /\ DOMAIN found = Shard
    /\ \A s \in DOMAIN found : found[s] = ExpectedRows(s)

(* The address gather works out for an id.                                 *)
ShardOf(id) == id \div ShardSize
LocalOf(id) == id - ShardOf(id) * ShardSize

(* gather's range check, on the smallest and the largest id.  shards is    *)
(* len(self.mm).                                                           *)
InRange(id, shards) == 0 <= id /\ id < ShardSize * shards
================================================================================
