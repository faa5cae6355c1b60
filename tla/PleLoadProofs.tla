----------------------------- MODULE PleLoadProofs -----------------------------
(***************************************************************************)
(* The properties of PleLoad for every table, every set of checkpoints and *)
(* every history of calls.                                                 *)
(***************************************************************************)
EXTENDS PleLoad, PleLayoutProofs

LEMMA DtypesKnown == \A d \in DOMAIN NeedsScale : NeedsScale[d] \in BOOLEAN
<1>1. DOMAIN NeedsScale = {"BF16", "F8_E4M3", "F8_E5M2"}
  BY DEF NeedsScale
<1>2. /\ NeedsScale["BF16"] = FALSE
      /\ NeedsScale["F8_E4M3"] = TRUE
      /\ NeedsScale["F8_E5M2"] = TRUE
  BY DEF NeedsScale
<1> QED
  BY <1>1, <1>2, Zenon

(* In an audited checkpoint, a file has what the index has in it.          *)
LEMMA AuditedHeaders ==
    ASSUME NEW ck, NEW x, Accepts(ck, x),
           NEW f \in IndexedFiles(ck), NEW t \in DOMAIN ck.header[f]
    PROVE  t \in DOMAIN ck.index /\ ck.index[t] = f
BY DEF Accepts, HeadersMatchIndex

LEMMA AuditedIndex ==
    ASSUME NEW ck, NEW x, Accepts(ck, x), NEW t \in DOMAIN ck.index
    PROVE  /\ ck.index[t] \in IndexedFiles(ck)
           /\ t \in DOMAIN ck.header[ck.index[t]]
           /\ ck.index[t] \in ck.whole \cap DOMAIN ck.header
<1>1. ck.index[t] \in IndexedFiles(ck)
  BY DEF IndexedFiles
<1> QED
  BY <1>1 DEF Accepts, HeadersMatchIndex

LEMMA AuditedFiles ==
    ASSUME NEW ck, NEW x, Accepts(ck, x)
    PROVE  /\ Files(ck) \subseteq IndexedFiles(ck)
           /\ Present(ck)
<1>1. Files(ck) \subseteq IndexedFiles(ck)
  BY DEF Files, IndexedFiles, Accepts
<1>2. IndexedFiles(ck) \subseteq DOMAIN ck.header
  BY DEF Accepts
<1> QED
  BY <1>1, <1>2 DEF Present

(* The loader finds each shard that the audit found, where it is.          *)
Audited(ck, s) == <<ck.index[ShardName(s)], ShardName(s)>>

LEMMA AuditedShards ==
    ASSUME NEW ck, NEW x, Accepts(ck, x), NEW s \in 0 .. x.count - 1
    PROVE  /\ ShardName(s) \in DOMAIN ck.index
           /\ Audited(ck, s) \in ShardEntries(ck)
<1> DEFINE t == ShardName(s)
<1>1. EndsAsShard(t) /\ EndsAsPle(t)
  BY DEF ShardName, EndsAsShard, EndsAsPle
<1>2. t \in DOMAIN ck.index
  BY DEF Accepts
<1>3. ck.index[t] \in Files(ck)
  BY <1>1, <1>2 DEF Files, Accepts
<1>4. t \in DOMAIN ck.header[ck.index[t]]
  BY <1>2, AuditedIndex
<1> HIDE DEF t
<1>5. <<ck.index[t], t>> \in Entries(ck)
  BY <1>1, <1>3, <1>4 DEF Entries
<1> QED
  BY <1>1, <1>2, <1>5 DEF ShardEntries, Audited, t

(* And it finds nothing else, unless a shard has an alias.                 *)
LEMMA AuditedEntries ==
    ASSUME NEW ck, NEW x, Accepts(ck, x), ~Aliased(ck), NEW e \in ShardEntries(ck)
    PROVE  \E s \in 0 .. x.count - 1 : e = Audited(ck, s)
<1>0. PICK f \in Files(ck) : e \in {f} \X DOMAIN ck.header[f] /\ EndsAsShard(e[2])
  BY DEF ShardEntries, Entries
<1>1. PICK t \in DOMAIN ck.header[f] : e = <<f, t>> /\ EndsAsShard(t)
  BY <1>0
<1>2. t \in DOMAIN ck.index /\ ck.index[t] = f
  BY <1>1, AuditedHeaders, AuditedFiles
<1>3. IsShard(t)
  BY <1>1 DEF Aliased, IsShard
<1>4. PICK s \in 0 .. x.count - 1 : t = ShardName(s)
  BY <1>2, <1>3 DEF Accepts
<1> QED
  BY <1>1, <1>2, <1>4 DEF Audited

LEMMA AuditedMeta ==
    ASSUME NEW ck, NEW x, Accepts(ck, x), NEW s \in 0 .. x.count - 1
    PROVE  /\ Meta(ck, Audited(ck, s)) = PleMeta(ck, x.count)[s]
           /\ PleMeta(ck, x.count)[s].dtype = x.dtype
           /\ PleMeta(ck, x.count)[s].cols = Width
BY DEF Accepts, ValidEntries, Meta, PleMeta, Audited

(* What it goes by is the audited one then.                                *)
LEMMA AuditedEntryOf ==
    ASSUME NEW ck \in Checkpoints, NEW x, Accepts(ck, x), ~Aliased(ck),
           NEW s \in 0 .. x.count - 1
    PROVE  /\ EntryOf(ck, s) = Audited(ck, s)
           /\ FileOf(ck, s) = ck.index[ShardName(s)]
           /\ FileOf(ck, s) \in ck.whole
<1> DEFINE a == Audited(ck, s)
           E == Numbered(ck, s)
<1>1. a \in E
  BY AuditedShards DEF Numbered, Audited, ShardName
<1>2. ASSUME NEW e \in E PROVE e = a
  <2>1. e \in ShardEntries(ck) /\ e[2][2] = s
    BY DEF Numbered
  <2>2. PICK u \in 0 .. x.count - 1 : e = Audited(ck, u)
    BY <2>1, AuditedEntries
  <2>3. u = s
    BY <2>1, <2>2 DEF Audited, ShardName
  <2> QED
    BY <2>2, <2>3
<1>3. a[1] = ck.index[ShardName(s)] /\ a[2][3] = 1
  BY DEF Audited, ShardName, Own
<1>4. ck.index[ShardName(s)] \in ck.whole
  BY AuditedShards, AuditedIndex
<1> HIDE DEF a, E
<1>5. \A d \in E : d[1] < a[1] \/ (d[1] = a[1] /\ d[2][3] <= a[2][3])
  BY <1>2, <1>3
<1>6. Last(E) \in E
  BY <1>1, <1>5 DEF Last
<1> QED
  BY <1>2, <1>3, <1>4, <1>6 DEF EntryOf, FileOf, E, a

(* What the audit accepts, the loader knows the dtype and the scale of, if *)
(* it finds the shards in order at all.                                    *)
LEMMA AuditedKind ==
    ASSUME NEW ck, NEW x \in Expectations, Accepts(ck, x)
    PROVE  /\ Consistent(ck) => ShardDtype(ck) = x.dtype
           /\ NeedsScale[x.dtype] => \E e \in Entries(ck) : EndsAsScale(e[2])
<1>1. Consistent(ck) => ShardDtype(ck) = x.dtype
  <2>1. 0 \in 0 .. x.count - 1
    BY ExpectationsAssumption
  <2>2. Audited(ck, 0) \in ShardEntries(ck) /\ Meta(ck, Audited(ck, 0)).dtype = x.dtype
    BY <2>1, AuditedShards, AuditedMeta
  <2> QED
    BY <2>2 DEF Consistent
<1>2. NeedsScale[x.dtype] => \E e \in Entries(ck) : EndsAsScale(e[2])
  <2> SUFFICES ASSUME NeedsScale[x.dtype] PROVE \E e \in Entries(ck) : EndsAsScale(e[2])
    OBVIOUS
  <2>1. Scale \in DOMAIN ck.index
    BY DEF Accepts
  <2>2. EndsAsPle(Scale) /\ EndsAsScale(Scale)
    BY DEF EndsAsPle, EndsAsScale, Scale
  <2>3. ck.index[Scale] \in Files(ck) /\ Scale \in DOMAIN ck.header[ck.index[Scale]]
    BY <2>1, <2>2, AuditedIndex DEF Files, Accepts
  <2>4. <<ck.index[Scale], Scale>> \in Entries(ck)
    BY <2>2, <2>3 DEF Entries
  <2> QED
    BY <2>2, <2>4
<1> QED
  BY <1>1, <1>2

(* Without an alias it finds them in order, but for their layout.          *)
LEMMA AuditedLoads ==
    ASSUME NEW ck \in Checkpoints, NEW x \in Expectations, Accepts(ck, x), ~Aliased(ck)
    PROVE  /\ Consistent(ck)
           /\ Rows(ck) = RowsOf(PleMeta(ck, x.count))
           /\ \A s \in 0 .. x.count - 1 : FileOf(ck, s) = ck.index[ShardName(s)]
           /\ Opens(ck) <=> ValidLayout(RowsOf(PleMeta(ck, x.count)))
<1> DEFINE S == 0 .. x.count - 1
<1>1. ASSUME NEW e \in ShardEntries(ck)
      PROVE  Meta(ck, e).dtype = x.dtype /\ Meta(ck, e).cols = Width
  <2>1. PICK s \in S : e = Audited(ck, s)
    BY AuditedEntries
  <2> QED
    BY <2>1, AuditedMeta
<1>2. ShardEntries(ck) # {}
  <2>1. 0 \in S
    BY ExpectationsAssumption
  <2> QED
    BY <2>1, AuditedShards
<1>3. ShardDtype(ck) = x.dtype
  <2>1. (CHOOSE e \in ShardEntries(ck) : TRUE) \in ShardEntries(ck)
    BY <1>2
  <2> QED
    BY <2>1, <1>1 DEF ShardDtype
<1>4. Consistent(ck)
  BY <1>1, <1>2, <1>3, AuditedFiles, ExpectationsAssumption DEF Consistent
<1>5. Rows(ck) = RowsOf(PleMeta(ck, x.count))
  <2>1. {e[2][2] : e \in ShardEntries(ck)} = S
    <3>1. ASSUME NEW e \in ShardEntries(ck) PROVE e[2][2] \in S
      <4>1. PICK s \in S : e = Audited(ck, s)
        BY AuditedEntries
      <4> QED
        BY <4>1 DEF Audited, ShardName
    <3>2. ASSUME NEW s \in S PROVE \E e \in ShardEntries(ck) : e[2][2] = s
      <4>1. Audited(ck, s) \in ShardEntries(ck) /\ Audited(ck, s)[2][2] = s
        BY AuditedShards DEF Audited, ShardName
      <4> QED
        BY <4>1
    <3> QED
      BY <3>1, <3>2
  <2>2. Rows(ck) = [s \in S |-> Meta(ck, EntryOf(ck, s)).rows]
    BY <2>1 DEF Rows
  <2>3. DOMAIN PleMeta(ck, x.count) = S
    BY DEF PleMeta
  <2>4. \A s \in S : Meta(ck, EntryOf(ck, s)).rows = PleMeta(ck, x.count)[s].rows
    BY AuditedEntryOf, AuditedMeta
  <2> QED
    BY <2>2, <2>3, <2>4 DEF RowsOf
<1>6. \A s \in S : FileOf(ck, s) = ck.index[ShardName(s)] /\ FileOf(ck, s) \in ck.whole
  BY AuditedEntryOf
<1>7. ValidLayout(RowsOf(PleMeta(ck, x.count))) => Shard = S
  BY DEF ValidLayout, RowsOf, PleMeta
<1> QED
  BY <1>4, <1>5, <1>6, <1>7 DEF Opens

(* vLLM's stream has a scale only if there has to be one.                  *)
LEMMA AuditedStream ==
    ASSUME NEW ck, NEW x, Accepts(ck, x), Scale \in Streamed(ck)
    PROVE  NeedsScale[x.dtype]
<1>1. PICK f \in IndexedFiles(ck) : Scale \in DOMAIN ck.header[f]
  BY DEF Streamed, Accepts
<1>2. Scale \in DOMAIN ck.index
  BY <1>1, AuditedHeaders
<1> QED
  BY <1>2 DEF Accepts
--------------------------------------------------------------------------------
(* The rows of an accepted layout are numbers.                             *)
LEMMA LayoutRows ==
    ASSUME NEW rows, rows = [s \in DOMAIN rows |-> rows[s]], ValidLayout(rows)
    PROVE  rows \in [Shard -> Nat]
<1>1. \A s \in Shard : ExpectedRows(s) \in Nat
  <2> SUFFICES ASSUME NEW s \in Shard PROVE ExpectedRows(s) \in Nat
    OBVIOUS
  <2>1. s \in Int /\ ShardSize \in Nat /\ Vocab \in Nat
    BY ShardSizeSuffices, PartsAssumption, VocabAssumption DEF Shard
  <2>2. Vocab - s * ShardSize \in Int
    BY <2>1
  <2> QED
    BY <2>1, <2>2 DEF ExpectedRows, Greatest, Least
<1>2. DOMAIN rows = Shard /\ \A s \in Shard : rows[s] = ExpectedRows(s)
  BY DEF ValidLayout
<1> QED
  BY <1>1, <1>2

LEMMA TableOpened ==
    ASSUME disk \in Checkpoints, Usable, Opens(disk)
    PROVE  OpenedTable \in Table /\ OpenedTable # None
<1>1. ShardDtype(disk) \in DOMAIN NeedsScale
  BY DEF Usable, Consistent
<1>2. Rows(disk) = [s \in DOMAIN Rows(disk) |-> Rows(disk)[s]]
  BY DEF Rows
<1>3. ValidLayout(Rows(disk))
  BY DEF Opens
<1>4. Rows(disk) \in [Shard -> Nat]
  BY <1>2, <1>3, LayoutRows
<1>5. [s \in DOMAIN Rows(disk) |-> FileOf(disk, s)] \in [Shard -> Nat]
  <2>1. DOMAIN Rows(disk) = Shard
    BY <1>4
  <2>2. \A s \in Shard : FileOf(disk, s) \in Nat
    BY CheckpointsAssumption DEF Opens
  <2> QED
    BY <2>1, <2>2
<1> QED
  BY <1>1, <1>4, <1>5, NoneAssumption DEF Table, OpenedTable
--------------------------------------------------------------------------------
(* The state keeps its types (TypeOK).                                     *)
LEMMA TypeInit == Init => TypeOK
BY DEF Init, TypeOK, Location

LEMMA TypeStep == TypeOK /\ [Next]_vars => TypeOK'
<1> SUFFICES ASSUME TypeOK, [Next]_vars PROVE TypeOK'
  OBVIOUS
<1> USE DEF TypeOK, Location
<1>1. CASE Audit
  BY <1>1 DEF Audit, host, module, loaded
<1>2. CASE Replace
  BY <1>2 DEF Replace, module, loaded
<1>3. CASE Start
  BY <1>3 DEF Start, host, module, loaded
<1>4. CASE BuildOther
  BY <1>4 DEF BuildOther, host, loaded
<1>5. CASE BeginInit
  BY <1>5 DEF BeginInit, host, loaded
<1>6. CASE EndInit
  BY <1>6 DEF EndInit, host, loaded
<1>7. CASE InitRaises
  BY <1>7 DEF InitRaises, host, loaded
<1>8. CASE Stream
  BY <1>8 DEF Stream, host, module
<1>9. CASE LoadRest
  BY <1>9 DEF LoadRest, host, module, loaded
<1>10. CASE AlreadyOpen
  BY <1>10 DEF AlreadyOpen, Settle, host, module
<1>11. CASE RefuseShards
  BY <1>11 DEF RefuseShards, Settle, host, module
<1>12. CASE RefuseTable
  BY <1>12 DEF RefuseTable, Settle, ReadScale, host, module
<1>13. CASE OpenTable
  <2>1. table' \in Table
    BY <1>13, TableOpened DEF OpenTable, ReadScale, TypeOK
  <2> QED
    BY <1>13, <2>1 DEF OpenTable, Settle, ReadScale, host, module
<1>14. CASE UNCHANGED vars
  BY <1>14 DEF vars, host, module, loaded
<1> QED
  BY <1>1, <1>2, <1>3, <1>4, <1>5, <1>6, <1>7, <1>8, <1>9, <1>10, <1>11, <1>12,
     <1>13, <1>14 DEF Next

(* Types of the state (TypeOK).                                            *)
THEOREM LoadTypeCorrect == Spec => []TypeOK
BY TypeInit, TypeStep, PTL DEF Spec
--------------------------------------------------------------------------------
(* While the constructor runs the name is the placeholder's, and the real  *)
(* class is what it gets back.                                             *)
SwapInv ==
    /\ embedding = IF at = "init" THEN "placeholder" ELSE "real"
    /\ saved = "real"
    /\ others \subseteq {"real"}
    /\ layer \in {"unbuilt", "placeholder"}

LEMMA SwapStep == SwapInv /\ [Next]_vars => SwapInv'
<1> SUFFICES ASSUME SwapInv, [Next]_vars PROVE SwapInv'
  OBVIOUS
<1> USE DEF SwapInv
<1>1. CASE Audit \/ Replace \/ Start
  BY <1>1 DEF Audit, Replace, Start, module
<1>2. CASE BuildOther
  BY <1>2 DEF BuildOther
<1>3. CASE BeginInit
  BY <1>3 DEF BeginInit
<1>4. CASE EndInit \/ InitRaises
  BY <1>4 DEF EndInit, InitRaises
<1>5. CASE Stream \/ LoadRest
  BY <1>5 DEF Stream, LoadRest, module
<1>6. CASE AlreadyOpen \/ RefuseShards \/ RefuseTable \/ OpenTable
  BY <1>6 DEF AlreadyOpen, RefuseShards, RefuseTable, OpenTable, Settle, module
<1>7. CASE UNCHANGED vars
  BY <1>7 DEF vars, module
<1> QED
  BY <1>1, <1>2, <1>3, <1>4, <1>5, <1>6, <1>7 DEF Next

(* No constructor that raises leaves the placeholder in vLLM's module      *)
(* (OnlyTheLayerSwapped).                                                  *)
THEOREM SwapIsUndone == Spec => []OnlyTheLayerSwapped
<1>1. Init => SwapInv
  BY DEF Init, SwapInv
<1>2. SwapInv => OnlyTheLayerSwapped
  BY DEF SwapInv, OnlyTheLayerSwapped
<1> QED
  BY <1>1, <1>2, SwapStep, PTL DEF Spec
--------------------------------------------------------------------------------
(* A table is only ever set with all it needs.                             *)
LoadInv ==
    /\ returned => table # None
    /\ table # None => ValidLayout(table.rows) /\ (NeedsScale[table.dtype] => scaled)

LEMMA LoadStep == TypeOK /\ LoadInv /\ [Next]_vars => LoadInv'
<1> SUFFICES ASSUME TypeOK, LoadInv, [Next]_vars PROVE LoadInv'
  OBVIOUS
<1>1. CASE UNCHANGED loaded
  BY <1>1 DEF loaded, LoadInv
<1>2. CASE Stream
  BY <1>2 DEF Stream, LoadInv
<1>3. CASE AlreadyOpen \/ RefuseShards
  BY <1>3 DEF AlreadyOpen, RefuseShards, LoadInv
<1>4. CASE RefuseTable
  BY <1>4 DEF RefuseTable, ReadScale, LoadInv
<1>5. CASE OpenTable
  <2>1. /\ Usable /\ Opens(disk)
        /\ table' = OpenedTable
        /\ scaled' = (scaled \/ NeedsScale[ShardDtype(disk)])
    BY <1>5 DEF OpenTable, ReadScale
  <2>2. table' # None /\ ValidLayout(table'.rows)
    BY <2>1, TableOpened DEF Opens, OpenedTable, TypeOK
  <2>3. NeedsScale[table'.dtype] => scaled'
    BY <2>1 DEF OpenedTable
  <2> QED
    BY <2>2, <2>3 DEF LoadInv
<1> QED
  BY <1>1, <1>2, <1>3, <1>4, <1>5
     DEF Next, vars, Audit, Replace, Start, BuildOther, BeginInit, EndInit, InitRaises, LoadRest

(* Once a call of load_weights has returned, lookups are answered, from a  *)
(* table with every row in its place and the scale it needs                *)
(* (LoadedIsServed).                                                       *)
THEOREM LoadedServes == Spec => []LoadedIsServed
<1>1. Init => LoadInv
  BY DEF Init, LoadInv
<1>2. LoadInv => LoadedIsServed
  BY DEF LoadInv, LoadedIsServed
<1> QED
  BY <1>1, <1>2, LoadStep, LoadTypeCorrect, PTL DEF Spec
--------------------------------------------------------------------------------
(* Of a checkpoint that is as it was audited.  Until the container starts  *)
(* nothing of the layer is there; and a constructor runs, and finds out    *)
(* whether it knows the path, before anything is refused.                  *)
Untouched == ~scaled /\ table = None /\ ~refused

AsAudited ==
    /\ table.dtype = expected.dtype
    /\ Aliased(disk) \/ /\ table.rows = RowsOf(PleMeta(disk, expected.count))
                        /\ \A s \in Shard : table.file[s] = disk.index[ShardName(s)]

AuditInv ==
    /\ at \in {"audit", "accepted", "ended"} => Untouched /\ layer = "unbuilt"
    /\ at = "audit" => ~changed
    /\ layer = "unbuilt" => ~refused /\ at \notin {"rest", "setup"}
    /\ at = "init" => layer = "unbuilt"
    /\ ~changed =>
          /\ at \notin {"audit", "ended"} => Accepts(disk, expected)
          /\ scaled => NeedsScale[expected.dtype]
          /\ refused => ~path \/ Aliased(disk) \/ ~LaidOutAsAudited
          /\ table # None => AsAudited /\ (NeedsScale[table.dtype] => scaled)

LEMMA AuditStep == TypeOK /\ SwapInv /\ AuditInv /\ [Next]_vars => AuditInv'
<1> SUFFICES ASSUME TypeOK, SwapInv, AuditInv, [Next]_vars PROVE AuditInv'
  OBVIOUS
<1>0. disk \in Checkpoints /\ expected \in Expectations /\ at \in Location
  BY DEF TypeOK
<1>h. UNCHANGED host => /\ UNCHANGED <<Aliased(disk), LaidOutAsAudited>>
                        /\ UNCHANGED table => UNCHANGED AsAudited
  BY DEF host, LaidOutAsAudited, AsAudited
<1>1. CASE Audit
  BY <1>1, <1>h DEF Audit, AuditInv, Untouched, host, module, loaded
<1>2. CASE Replace
  BY <1>2 DEF Replace, AuditInv, Untouched, module, loaded
<1>3. CASE Start
  BY <1>3, <1>h DEF Start, AuditInv, Untouched, host, module, loaded
<1>4. CASE BuildOther
  BY <1>4, <1>h DEF BuildOther, AuditInv, Untouched, host, loaded
<1>5. CASE BeginInit
  BY <1>5, <1>h DEF BeginInit, AuditInv, Untouched, host, loaded
<1>6. CASE EndInit
  BY <1>6, <1>h DEF EndInit, SwapInv, AuditInv, Untouched, host, loaded
<1>7. CASE InitRaises
  BY <1>7, <1>h DEF InitRaises, AuditInv, Untouched, host, loaded
<1>8. CASE Stream
  <2>1. ~changed /\ Scale \in Streamed(disk) => NeedsScale[expected.dtype]
    BY <1>8, AuditedStream DEF Stream, AuditInv
  <2> QED
    BY <1>8, <1>h, <2>1 DEF Stream, AuditInv, Untouched, host, module
<1>9. CASE LoadRest
  BY <1>9, <1>h DEF LoadRest, AuditInv, Untouched, host, module, loaded
<1>10. CASE AlreadyOpen
  BY <1>10, <1>h DEF AlreadyOpen, Settle, AuditInv, Untouched, host, module
<1>11. ASSUME ~changed, at = "setup"
       PROVE  /\ Accepts(disk, expected)
              /\ Consistent(disk) => ShardDtype(disk) = expected.dtype
              /\ NeedsScale[expected.dtype] => \E e \in Entries(disk) : EndsAsScale(e[2])
              /\ ~Aliased(disk) =>
                    /\ Consistent(disk)
                    /\ Rows(disk) = RowsOf(PleMeta(disk, expected.count))
                    /\ \A s \in 0 .. expected.count - 1 :
                          FileOf(disk, s) = disk.index[ShardName(s)]
                    /\ Opens(disk) <=> LaidOutAsAudited
  <2>1. Accepts(disk, expected)
    BY <1>11 DEF AuditInv
  <2> QED
    BY <2>1, <1>0, AuditedKind, AuditedLoads DEF LaidOutAsAudited
<1>12. CASE RefuseShards
  <2>1. at = "setup" /\ at' = "free" /\ refused' = TRUE /\ ~Usable
        /\ UNCHANGED <<host, module, scaled, table>>
    BY <1>12 DEF RefuseShards, Settle
  <2>2. ~changed => ~path \/ Aliased(disk)
    BY <2>1, <1>11 DEF Usable
  <2> QED
    BY <2>1, <2>2, <1>h DEF AuditInv, Untouched, host, module
<1>13. CASE RefuseTable
  <2>1. at = "setup" /\ at' = "free" /\ UNCHANGED <<host, module, table>> /\ Usable
        /\ table = None /\ scaled' = (scaled \/ NeedsScale[ShardDtype(disk)])
        /\ refused' \in {refused, refused \/ ~Opens(disk)}
    BY <1>13 DEF RefuseTable, Settle, ReadScale
  <2>2. ~changed /\ scaled' => NeedsScale[expected.dtype]
    BY <2>1, <1>11 DEF AuditInv, Usable
  <2>3. ~changed /\ refused' => ~path \/ Aliased(disk) \/ ~LaidOutAsAudited
    BY <2>1, <1>11 DEF AuditInv
  <2> QED
    BY <2>1, <2>2, <2>3, <1>h DEF AuditInv, Untouched, host, module
<1>14. CASE OpenTable
  <2>1. at = "setup" /\ at' = "free" /\ UNCHANGED <<host, module, refused>>
        /\ Usable /\ Opens(disk)
        /\ table' = OpenedTable
        /\ scaled' = (scaled \/ NeedsScale[ShardDtype(disk)])
    BY <1>14 DEF OpenTable, Settle, ReadScale
  <2>2. ~changed => ShardDtype(disk) = expected.dtype
    BY <2>1, <1>11 DEF Usable
  <2>3. ~changed => AsAudited'
    <3> SUFFICES ASSUME ~changed PROVE AsAudited'
      OBVIOUS
    <3>1. UNCHANGED <<disk, expected>>
      BY <2>1 DEF host
    <3>2. table'.dtype = ShardDtype(disk) /\ table'.rows = Rows(disk)
          /\ table'.file = [s \in DOMAIN Rows(disk) |-> FileOf(disk, s)]
      BY <2>1 DEF OpenedTable
    <3>3. DOMAIN Rows(disk) = Shard
      BY <2>1 DEF Opens, ValidLayout
    <3>4. CASE Aliased(disk)
      BY <3>1, <3>2, <3>4, <2>2 DEF AsAudited
    <3>5. CASE ~Aliased(disk)
      <4>1. Rows(disk) = RowsOf(PleMeta(disk, expected.count))
            /\ \A s \in 0 .. expected.count - 1 : FileOf(disk, s) = disk.index[ShardName(s)]
        BY <2>1, <3>5, <1>11
      <4>2. Shard = 0 .. expected.count - 1
        BY <3>3, <4>1 DEF RowsOf, PleMeta
      <4>3. table'.rows = RowsOf(PleMeta(disk, expected.count))
        BY <3>2, <4>1
      <4>4. \A s \in Shard : table'.file[s] = disk.index[ShardName(s)]
        BY <3>2, <3>3, <4>1, <4>2
      <4> QED
        BY <3>1, <3>2, <4>3, <4>4, <2>2 DEF AsAudited
    <3> QED
      BY <3>4, <3>5
  <2>4. ~changed /\ scaled' => NeedsScale[expected.dtype]
    BY <2>1, <2>2 DEF AuditInv
  <2>5. NeedsScale[table'.dtype] => scaled'
    BY <2>1 DEF OpenedTable
  <2>6. UNCHANGED <<disk, expected, changed, path, layer, refused>>
    BY <2>1 DEF host, module
  <2>7. ~changed => /\ Accepts(disk, expected)
                    /\ refused => ~path \/ Aliased(disk) \/ ~LaidOutAsAudited
    BY <2>1, <1>11 DEF AuditInv
  <2> QED
    BY <2>1, <2>3, <2>4, <2>5, <2>6, <2>7, <1>h DEF AuditInv, Untouched
<1>15. CASE UNCHANGED vars
  BY <1>15, <1>h DEF vars, AuditInv, Untouched, host, module, loaded
<1> QED
  BY <1>1, <1>2, <1>3, <1>4, <1>5, <1>6, <1>7, <1>8, <1>9, <1>10, <1>12, <1>13,
     <1>14, <1>15 DEF Next

LEMMA AuditHolds == Spec => []AuditInv
<1>1. Init => AuditInv
  BY DEF Init, AuditInv, Untouched
<1>2. Init => SwapInv
  BY DEF Init, SwapInv
<1> QED
  BY <1>1, <1>2, AuditStep, SwapStep, LoadTypeCorrect, PTL DEF Spec

(* What the audit accepted and nobody changed, the loader refuses for an   *)
(* alias of a shard or for its layout only, and what it opens is what was  *)
(* audited (AuditCoversLoader).                                            *)
THEOREM AuditAndLoaderAgree == Spec => []AuditCoversLoader
<1>1. AuditInv => AuditCoversLoader
  BY DEF AuditInv, AsAudited, AuditCoversLoader
<1> QED
  BY <1>1, AuditHolds, PTL

(* Then a BF16 table has no scale and an FP8 table has one (AuditedScale). *)
THEOREM ScaleAsAudited == Spec => []AuditedScale
<1>1. TypeOK /\ AuditInv => AuditedScale
  <2> SUFFICES ASSUME TypeOK, AuditInv, ~changed, table # None
               PROVE  scaled = NeedsScale[expected.dtype]
    BY DEF AuditedScale
  <2>1. scaled \in BOOLEAN /\ NeedsScale[expected.dtype] \in BOOLEAN
    BY DtypesKnown, ExpectationsAssumption DEF TypeOK
  <2>2. scaled <=> NeedsScale[expected.dtype]
    BY DEF AuditInv, AsAudited
  <2> QED
    BY <2>1, <2>2
<1> QED
  BY <1>1, AuditHolds, LoadTypeCorrect, PTL
================================================================================
