-------------------------------- MODULE PleLoad --------------------------------
(***************************************************************************)
(* From an audited checkpoint to a table that answers: the serve command   *)
(* audits the PLE tensors on the host (src/recipe/audit.py), a container   *)
(* starts, and inside it the patched class of the n-gram embedding is      *)
(* built and loaded (apply in src/vllm_ple_mmap.py).                       *)
(*                                                                         *)
(* Audit and loader read the same headers by rules of their own, minutes   *)
(* apart.  vLLM calls load_weights once for every run of tensors that      *)
(* belong to the layer, so any number of times, each time with some of     *)
(* them.  Its constructors and loaders may raise anywhere, and what calls  *)
(* them may catch that and go on.                                          *)
(***************************************************************************)
EXTENDS PleLayout

CONSTANTS
    Checkpoints,     \* what may be in the model directory, see below
    Expectations,    \* expected_ple of the targets, see below
    Width,           \* expected_ple.width, which is the layer's head_dim
    NoIndex,         \* there is no model.safetensors.index.json
    None             \* there is no table

(* A checkpoint is a record of                                             *)
(*   index   tensor -> file, or NoIndex                                    *)
(*   header  file -> tensor -> [dtype, rows, cols], files as numbers in    *)
(*           the order of their names                                      *)
(*   whole   the files that are as long as their header says               *)
(* A tensor is <<kind, number, prefix>>.  Those of the layer have the      *)
(* prefix Own; another module's may end in the same suffix.  A header      *)
(* lists tensors of one suffix in the order of the numbers that stand for  *)
(* their prefixes.                                                         *)
Own == 1
ShardName(s) == <<"shard", s, Own>>
Scale == <<"scale", 0, Own>>

(* The audit goes by the full name, the loader by how the name ends.       *)
EndsAsShard(t) == t[1] = "shard"
EndsAsScale(t) == t[1] = "scale"
IsShard(t) == EndsAsShard(t) /\ t[3] = Own
EndsAsPle(t) == EndsAsShard(t) \/ EndsAsScale(t)

(* PleStorageDType: the dtypes known, and whether they need a scale.       *)
NeedsScale == [BF16 |-> FALSE, F8_E4M3 |-> TRUE, F8_E5M2 |-> TRUE]

Table == [dtype : DOMAIN NeedsScale, rows : [Shard -> Nat], file : [Shard -> Nat]]

(* tensor_count and total_rows are the manifest's; that they are the       *)
(* layer's split_ngram_parts and org_vocab_size too, nobody checks.        *)
ASSUME ExpectationsAssumption ==
    \A x \in Expectations : x.dtype \in DOMAIN NeedsScale /\ x.count \in Nat \ {0} /\ x.rows \in Nat
ASSUME NoneAssumption == None \notin Table
ASSUME CheckpointsAssumption ==
    \A ck \in Checkpoints : DOMAIN ck.header \subseteq Nat /\ ck.whole \subseteq Nat

VARIABLES
    disk,            \* the checkpoint in the model directory
    expected,        \* expected_ple of the target that is served
    changed,         \* the directory has changed since it was audited
    at,              \* where the command, then the container's thread, is
    embedding,       \* what VocabParallelEmbedding names in vLLM's module
    saved,           \* real_embedding_cls of the constructor
    others,          \* what other classes of the module built from it
    layer,           \* "unbuilt", or what stands for the layer's embedding
    path,            \* _ple_mmap_model_path is known
    scaled,          \* the layer has a buffer _offload_weight_scale
    table,           \* ngram_embedding.table
    returned,        \* a call of load_weights has returned
    refused          \* a check of _setup_table has refused the checkpoint

host == <<disk, expected, changed>>
module == <<embedding, saved, others, layer, path>>
loaded == <<scaled, table, returned, refused>>
vars == <<host, at, module, loaded>>

Location == {"audit", "accepted", "ended",       \* the serve command
             "free", "init", "rest", "setup"}    \* the container's thread
--------------------------------------------------------------------------------
IndexedFiles(ck) == {ck.index[t] : t \in DOMAIN ck.index}

(* Faulty: what the index does not name is not looked at.                  *)
HeadersCoverIndex(ck) ==
    \A t \in DOMAIN ck.index : t \in DOMAIN ck.header[ck.index[t]]

(* The header of every file names what the index has in it, and no more.   *)
HeadersMatchIndex(ck) ==
    \A f \in IndexedFiles(ck) :
        DOMAIN ck.header[f] = {t \in DOMAIN ck.index : ck.index[t] = f}

(* What the headers say of the shard tensors that the manifest expects.    *)
PleMeta(ck, count) ==
    [s \in 0 .. count - 1 |-> ck.header[ck.index[ShardName(s)]][ShardName(s)]]

RowsOf(meta) == [s \in DOMAIN meta |-> meta[s].rows]

(* _validate_ple_entries: dtype and width of each, and the sum of the rows.*)
ValidEntries(meta, x) ==
    /\ \A s \in DOMAIN meta : meta[s].dtype = x.dtype /\ meta[s].cols = Width /\ meta[s].rows > 0
    /\ FoldFunction(+, 0, RowsOf(meta)) = x.rows

(* audit_checkpoint, as far as the PLE is concerned.                       *)
Accepts(ck, x) ==
    /\ ck.index # NoIndex
    /\ IndexedFiles(ck) \subseteq ck.whole \cap DOMAIN ck.header
    /\ HeadersMatchIndex(ck)
    /\ {t \in DOMAIN ck.index : IsShard(t)} = {ShardName(s) : s \in 0 .. x.count - 1}
    /\ (Scale \in DOMAIN ck.index) = NeedsScale[x.dtype]
    /\ ValidEntries(PleMeta(ck, x.count), x)
--------------------------------------------------------------------------------
(* Faulty: every file of the directory is searched, as without an index.   *)
FilesGlob(ck) == DOMAIN ck.header

(* _find_shards: the files the index has something in that ends as a PLE   *)
(* tensor of this layer.                                                   *)
Files(ck) ==
    IF ck.index = NoIndex THEN DOMAIN ck.header
    ELSE {ck.index[t] : t \in {u \in DOMAIN ck.index : EndsAsPle(u)}}

Present(ck) == Files(ck) \subseteq DOMAIN ck.header

(* All the tensors in them that end so, also those that the index has      *)
(* elsewhere.                                                              *)
Entries(ck) == {e \in UNION {{f} \X DOMAIN ck.header[f] : f \in Files(ck)} : EndsAsPle(e[2])}

ShardEntries(ck) == {e \in Entries(ck) : EndsAsShard(e[2])}
Meta(ck, e) == ck.header[e[1]][e[2]]

(* What is mapped for a shard: of several tensors with its number, the     *)
(* last of the last file.                                                  *)
Numbered(ck, s) == {e \in ShardEntries(ck) : e[2][2] = s}
Last(entries) ==
    CHOOSE e \in entries :
        \A d \in entries : d[1] < e[1] \/ (d[1] = e[1] /\ d[2][3] <= e[2][3])
EntryOf(ck, s) == Last(Numbered(ck, s))
FileOf(ck, s) == EntryOf(ck, s)[1]

Rows(ck) == [s \in {e[2][2] : e \in ShardEntries(ck)} |-> Meta(ck, EntryOf(ck, s)).rows]

ShardDtype(ck) == Meta(ck, CHOOSE e \in ShardEntries(ck) : TRUE).dtype

(* What _find_shards and _setup_table ask of the shards before the scale:  *)
(* there are some, of one known dtype and of the layer's width.            *)
Consistent(ck) ==
    /\ Present(ck)
    /\ ShardEntries(ck) # {}
    /\ \A e \in ShardEntries(ck) :
          /\ Meta(ck, e).dtype = ShardDtype(ck)
          /\ Meta(ck, e).cols = Width
    /\ ShardDtype(ck) \in DOMAIN NeedsScale

(* What stops it after the scale: the layout of the rows, or a file that   *)
(* cannot be mapped as far as a shard goes.                                *)
Opens(ck) ==
    /\ ValidLayout(Rows(ck))
    /\ \A s \in Shard : FileOf(ck, s) \in ck.whole

(* vLLM reads each file of the index from end to end.                      *)
Streamed(ck) ==
    LET files == IF ck.index = NoIndex THEN DOMAIN ck.header ELSE IndexedFiles(ck)
    IN  UNION {DOMAIN ck.header[f] : f \in files \cap DOMAIN ck.header}
--------------------------------------------------------------------------------
Init ==
    /\ disk \in Checkpoints
    /\ expected \in Expectations
    /\ changed = FALSE
    /\ at = "audit"
    /\ embedding = "real" /\ saved = "real" /\ others = {}
    /\ layer = "unbuilt" /\ path = FALSE
    /\ scaled = FALSE /\ table = None
    /\ returned = FALSE /\ refused = FALSE

(* The serve command audits the checkpoint.                                *)
Audit ==
    /\ at = "audit"
    /\ at' = IF Accepts(disk, expected) THEN "accepted" ELSE "ended"
    /\ UNCHANGED <<host, module, loaded>>

(* Someone puts something else in its place before the container is up.    *)
Replace ==
    /\ at = "accepted"
    /\ ~changed
    /\ disk' \in Checkpoints
    /\ changed' = TRUE
    /\ UNCHANGED <<expected, at, module, loaded>>

(* docker run, and the import of vLLM's module, which ends with apply.     *)
Start ==
    /\ at = "accepted"
    /\ at' = "free"
    /\ UNCHANGED <<host, module, loaded>>

(* Another class of vLLM's module builds an embedding of its own.          *)
BuildOther ==
    /\ at = "free"
    /\ others' = others \cup {embedding}
    /\ UNCHANGED <<host, at, embedding, saved, layer, path, loaded>>

(* __init__: the placeholder takes the place of VocabParallelEmbedding,    *)
(* and the stock constructor is called.                                    *)
BeginInit ==
    /\ at = "free" /\ layer = "unbuilt"
    /\ saved' = embedding
    /\ embedding' = "placeholder"
    /\ at' = "init"
    /\ UNCHANGED <<host, others, layer, path, loaded>>

(* It has built its embedding from whatever the name stood for.  The model *)
(* path is read from vLLM's configuration, or remains unknown.             *)
EndInit ==
    /\ at = "init"
    /\ layer' = embedding
    /\ path' \in BOOLEAN
    /\ embedding' = saved
    /\ at' = "free"
    /\ UNCHANGED <<host, saved, others, loaded>>

(* Faulty: the name is restored when all went well.                        *)
InitRaisesUnrestored ==
    /\ at = "init"
    /\ at' = "free"
    /\ UNCHANGED <<host, module, loaded>>

(* It raises.                                                              *)
InitRaises ==
    /\ at = "init"
    /\ embedding' = saved
    /\ at' = "free"
    /\ UNCHANGED <<host, saved, others, layer, path, loaded>>

(* load_weights is given some of the tensors of the stream, which may      *)
(* break off.  Shards are dropped, a scale is kept.                        *)
Stream ==
    /\ at = "free" /\ layer # "unbuilt"
    /\ \/ UNCHANGED scaled
       \/ Scale \in Streamed(disk) /\ scaled' = TRUE
    /\ at' \in {"rest", "free"}
    /\ UNCHANGED <<host, module, table, returned, refused>>

(* The rest goes to the stock load_weights.                                *)
LoadRest ==
    /\ at = "rest"
    /\ at' \in {"setup", "free"}
    /\ UNCHANGED <<host, module, loaded>>
--------------------------------------------------------------------------------
(* _setup_table, whose outcomes are the next four.                         *)
Settle == at = "setup" /\ at' = "free" /\ UNCHANGED <<host, module>>

(* An earlier call has opened the table.                                   *)
AlreadyOpen ==
    /\ Settle
    /\ table # None
    /\ returned' = TRUE
    /\ UNCHANGED <<scaled, table, refused>>

(* The shards are in order, and a scale is there or can be read from disk. *)
Usable ==
    /\ path
    /\ Consistent(disk)
    /\ NeedsScale[ShardDtype(disk)] => scaled \/ \E e \in Entries(disk) : EndsAsScale(e[2])

(* Refused before anything is changed.                                     *)
RefuseShards ==
    /\ Settle
    /\ table = None /\ ~Usable
    /\ refused' = TRUE
    /\ UNCHANGED <<scaled, table, returned>>

ReadScale ==
    /\ table = None /\ Usable
    /\ scaled' = (scaled \/ NeedsScale[ShardDtype(disk)])

(* Refused when the scale has been registered; or the system refuses to    *)
(* read the files.                                                         *)
RefuseTable ==
    /\ Settle
    /\ ReadScale
    /\ refused' \in {refused, refused \/ ~Opens(disk)}
    /\ ~Opens(disk) => refused'
    /\ UNCHANGED <<table, returned>>

OpenedTable ==
    [dtype |-> ShardDtype(disk), rows |-> Rows(disk),
     file |-> [s \in DOMAIN Rows(disk) |-> FileOf(disk, s)]]

(* Faulty: the table is set before its layout is validated.                *)
OpenTableFirst ==
    /\ Settle
    /\ ReadScale
    /\ table' = OpenedTable
    /\ returned' = (returned \/ Opens(disk))
    /\ UNCHANGED refused

OpenTable ==
    /\ Settle
    /\ ReadScale
    /\ Opens(disk)
    /\ table' = OpenedTable
    /\ returned' = TRUE
    /\ UNCHANGED refused
--------------------------------------------------------------------------------
Next ==
    \/ Audit \/ Replace \/ Start
    \/ BuildOther \/ BeginInit \/ EndInit \/ InitRaises
    \/ Stream \/ LoadRest
    \/ AlreadyOpen \/ RefuseShards \/ RefuseTable \/ OpenTable

Spec == Init /\ [][Next]_vars
--------------------------------------------------------------------------------
(* Types of the state.                                                     *)
TypeOK ==
    /\ disk \in Checkpoints
    /\ expected \in Expectations
    /\ at \in Location
    /\ {embedding, saved} \cup others \subseteq {"real", "placeholder"}
    /\ layer \in {"unbuilt", "real", "placeholder"}
    /\ {changed, path, scaled, returned, refused} \subseteq BOOLEAN
    /\ table \in Table \cup {None}

(* __init__: "Run the stock constructor ... with the embedding class       *)
(* swapped for our placeholder so nothing large is allocated."  The layer  *)
(* gets the placeholder and nothing else in the module ever does, whatever *)
(* raised before.                                                          *)
OnlyTheLayerSwapped ==
    /\ others \subseteq {"real"}
    /\ layer # "real"
    /\ at # "init" => embedding = "real"

(* forward: zeros are for weights that were "never loaded".  Once any call *)
(* of load_weights has returned, also after calls that raised half way,    *)
(* lookups are answered from a table that has every row where vLLM's       *)
(* layout puts it, and an FP8 table is not without its scale.              *)
LoadedIsServed ==
    returned => /\ table # None
                /\ ValidLayout(table.rows)
                /\ NeedsScale[table.dtype] => scaled

(* A tensor of another prefix in the loader's files ends as a shard of the *)
(* layer does.                                                             *)
Aliased(ck) == \E e \in ShardEntries(ck) : e[2][3] # Own

(* The layer that vLLM builds has its rows where the audited shards are.   *)
LaidOutAsAudited == ValidLayout(RowsOf(PleMeta(disk, expected.count)))

(* What an audit is worth to the loader, whose rules are others: of a      *)
(* checkpoint that is as it was audited, it refuses nothing but an alias   *)
(* of a shard, or a layout that is not vLLM's, be it in the number of      *)
(* shards, the number of rows or how the rows are spread.  What it opens   *)
(* has the expected dtype and, without an alias, is each shard's rows from *)
(* the file that the audit found them in.                                  *)
AuditCoversLoader ==
    ~changed =>
        /\ refused => ~path \/ Aliased(disk) \/ ~LaidOutAsAudited
        /\ table # None =>
              /\ table.dtype = expected.dtype
              /\ Aliased(disk) \/ /\ table.rows = RowsOf(PleMeta(disk, expected.count))
                                  /\ \A s \in Shard : table.file[s] = disk.index[ShardName(s)]

(* audit.py: "BF16 PLE must not have weight_scale", "FP8 PLE must have     *)
(* weight_scale".  So it is in the layer, wherever the scale came from:    *)
(* vLLM's stream, in any call, or a header on disk.                        *)
AuditedScale == ~changed /\ table # None => scaled = NeedsScale[expected.dtype]
================================================================================
