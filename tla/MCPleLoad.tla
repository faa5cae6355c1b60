------------------------------- MODULE MCPleLoad -------------------------------
(* Checkpoints for PleLoad: three rows in shards of two and one.           *)
EXTENDS PleLoad, TLC

Shard0 == ShardName(0)
Shard1 == ShardName(1)
Extra == ShardName(2)
Trunk(f) == <<"other", f, Own>>

(* Of another module, before and after the layer's own in a header.        *)
Earlier == <<"shard", 0, 0>>
Later == <<"shard", 0, 2>>
OtherScale == <<"scale", 0, 2>>

At(d, rows, cols) == [dtype |-> d, rows |-> rows, cols |-> cols]
Trunks(f) == Trunk(f) :> At("BF16", 1, 1)

(* As a direct target has it: a shard in each of two files, between other  *)
(* tensors, and a scale if there has to be one.                            *)
Good(d) ==
    LET last == Shard1 :> At(d, 1, 1) @@ Trunks(2)
        header == 1 :> (Shard0 :> At(d, 2, 1) @@ Trunks(1))
                  @@ 2 :> IF NeedsScale[d] THEN Scale :> At("F32", 1, 1) @@ last ELSE last
    IN  [header |-> header,
         index |-> [t \in DOMAIN header[1] \cup DOMAIN header[2] |->
                       IF t \in DOMAIN header[1] THEN 1 ELSE 2],
         whole |-> {1, 2, 3}]

Without(g, x) == [y \in DOMAIN g \ {x} |-> g[y]]

(* One thing is different with each of these.                              *)
Variants(d) ==
    LET ck == Good(d)
        fp8 == [t \in {Shard0, Shard1, Scale} |->
                   At(IF t = Scale THEN "F32" ELSE "F8_E4M3", IF t = Shard0 THEN 2 ELSE 1, 1)]
    IN  {ck,
         \* the rows spread otherwise, too many of them, or too few
         [ck EXCEPT !.header[1][Shard0].rows = 1, !.header[2][Shard1].rows = 2],
         [ck EXCEPT !.header[2][Shard1].rows = 2],
         [ck EXCEPT !.header[1][Shard0].rows = 1],
         \* another width, another dtype, an unknown one
         [ck EXCEPT !.header[1][Shard0].cols = 2],
         [ck EXCEPT !.header[1][Shard0].dtype = "F8_E5M2"],
         [ck EXCEPT !.header[1][Shard0].dtype = "F16", !.header[2][Shard1].dtype = "F16"],
         \* a shard missing, one too many, a file missing or cut short
         [ck EXCEPT !.header[2] = Without(@, Shard1), !.index = Without(@, Shard1)],
         [ck EXCEPT !.header[1] = Extra :> At(d, 1, 1) @@ @, !.index = Extra :> 1 @@ @],
         [ck EXCEPT !.header = Without(@, 2)],
         [ck EXCEPT !.whole = {1}],
         \* the scale where none should be, none where one should be, or in
         \* the file and not in the index
         [ck EXCEPT !.header[1] = Scale :> At("F32", 1, 1) @@ @,
                    !.index = IF NeedsScale[d] THEN @ ELSE Scale :> 1 @@ @],
         [ck EXCEPT !.header[2] = Without(@, Scale), !.index = Without(@, Scale)],
         [ck EXCEPT !.header[1] = Scale :> At("F32", 1, 1) @@ @],
         \* the FP8 PLE of the target in a file beside the view's, or in one
         \* that other tensors are needed of
         [ck EXCEPT !.header = 3 :> fp8 @@ @],
         [ck EXCEPT !.header = 3 :> (fp8 @@ Trunks(3)) @@ @, !.index = Trunk(3) :> 3 @@ @],
         \* a tensor of another module that ends as a shard: of the same
         \* kind, of other rows before and after it, of another dtype or width;
         \* or that ends as the scale
         [ck EXCEPT !.header = 3 :> (Later :> At(d, 2, 1)) @@ @, !.index = Later :> 3 @@ @],
         [ck EXCEPT !.header[1] = Earlier :> At(d, 1, 1) @@ @, !.index = Earlier :> 1 @@ @],
         [ck EXCEPT !.header[1] = Later :> At(d, 1, 1) @@ @, !.index = Later :> 1 @@ @],
         [ck EXCEPT !.header[2] = Later :> At("F8_E5M2", 2, 1) @@ @, !.index = Later :> 2 @@ @],
         [ck EXCEPT !.header[2] = Later :> At(d, 2, 2) @@ @, !.index = Later :> 2 @@ @],
         [ck EXCEPT !.header[2] = OtherScale :> At("F32", 1, 1) @@ @,
                    !.index = OtherScale :> 2 @@ @],
         \* all the rows in one shard
         [ck EXCEPT !.header[1][Shard0].rows = 3,
                    !.header[2] = Without(@, Shard1), !.index = Without(@, Shard1)],
         \* no index
         [ck EXCEPT !.index = NoIndex]}

(* Targets as vLLM has the layer, and with other rows or shards.           *)
MCExpectations ==
    {[dtype |-> "BF16", count |-> c, rows |-> r] : c \in {1, 2}, r \in {3, 4}}
        \cup {[dtype |-> "F8_E4M3", count |-> 2, rows |-> 3]}

MCCheckpoints == Variants("BF16") \cup Variants("F8_E4M3")
================================================================================
