---------------------------- MODULE PleLayoutProofs ----------------------------
(***************************************************************************)
(* The address arithmetic of the mapped table, for every vocabulary and    *)
(* every number of shards.                                                 *)
(***************************************************************************)
EXTENDS PleLayout, TLAPS

(* Euclid: what \div and the remainder it leaves are.                      *)
LEMMA Division ==
    ASSUME NEW a \in Nat, NEW b \in Nat \ {0}
    PROVE  /\ a \div b \in Nat
           /\ (a \div b) * b <= a
           /\ a < (a \div b) * b + b
BY SMT

(* The shards together are no shorter than the table, and not empty.       *)
LEMMA ShardSizeSuffices ==
    /\ ShardSize \in Nat \ {0}
    /\ Vocab <= ShardSize * Parts
<1> DEFINE a == Vocab + Parts - 1
<1>1. a \in Nat /\ Parts \in Nat \ {0} /\ Vocab \in Nat \ {0} /\ a >= Parts
  BY VocabAssumption, PartsAssumption
<1>2. /\ a \div Parts \in Nat
      /\ (a \div Parts) * Parts <= a
      /\ a < (a \div Parts) * Parts + Parts
  BY <1>1, Division
<1>3. a \div Parts # 0
  BY <1>1, <1>2
<1> QED
  BY <1>1, <1>2, <1>3 DEF ShardSize

(* A larger quotient means a larger product.                               *)
LEMMA ProductGrows ==
    ASSUME NEW s \in Nat, NEW t \in Nat, s + 1 <= t, NEW n \in Nat
    PROVE  s * n + n <= t * n
<1>1. PICK d \in Nat : t = s + 1 + d
  <2>1. t - s - 1 \in Nat /\ t = s + 1 + (t - s - 1)
    OBVIOUS
  <2> QED BY <2>1
<1>2. t * n = s * n + n + d * n
  BY <1>1
<1>3. d * n \in Nat
  BY <1>1
<1> QED
  BY <1>2, <1>3

(* gather addresses an id by division: within range, the shard exists and  *)
(* the row within it is in a full shard.                                   *)
LEMMA Addressed ==
    ASSUME NEW id \in Int, InRange(id, Parts)
    PROVE  /\ ShardOf(id) \in Shard
           /\ LocalOf(id) \in 0 .. ShardSize - 1
           /\ id = ShardOf(id) * ShardSize + LocalOf(id)
<1>1. id \in Nat /\ ShardSize \in Nat \ {0} /\ Parts \in Nat \ {0} /\ id < ShardSize * Parts
  BY ShardSizeSuffices, PartsAssumption DEF InRange
<1>2. /\ ShardOf(id) \in Nat
      /\ ShardOf(id) * ShardSize <= id
      /\ id < ShardOf(id) * ShardSize + ShardSize
  BY <1>1, Division DEF ShardOf
<1>3. ShardOf(id) < Parts
  <2> SUFFICES ASSUME ShardOf(id) >= Parts PROVE FALSE
    BY <1>1, <1>2
  <2> DEFINE s == ShardOf(id)
             n == ShardSize
  <2>1. s \in Nat /\ n \in Nat /\ Parts \in Nat /\ Parts + 1 <= s + 1
    BY <1>1, <1>2
  <2> HIDE DEF s, n
  <2>2. Parts * n + n <= (s + 1) * n
    BY <2>1, ProductGrows
  <2>3. (s + 1) * n = s * n + n /\ Parts * n = n * Parts /\ s * n \in Nat /\ n * Parts \in Nat
    BY <2>1
  <2>4. n * Parts <= s * n
    BY <2>1, <2>2, <2>3
  <2> QED
    BY <1>1, <1>2, <2>1, <2>3, <2>4 DEF s, n
<1>4. ShardOf(id) * ShardSize \in Nat
  BY <1>1, <1>2
<1> QED
  BY <1>1, <1>2, <1>3, <1>4 DEF Shard, LocalOf

(* _validate_shard_layout and gather agree: in a checkpoint that was let   *)
(* in, an id within gather's range is a row of the vocabulary exactly when *)
(* the address gather works out lies inside a mapped shard.  So no known   *)
(* id raises, and no id of the gap after the last row reads bytes of       *)
(* another tensor.                                                         *)
THEOREM RowsWhereTheyAreRead ==
    ASSUME NEW found, ValidLayout(found), NEW id \in Int, InRange(id, Parts)
    PROVE  /\ ShardOf(id) \in DOMAIN found
           /\ id \in RowId <=> LocalOf(id) \in 0 .. found[ShardOf(id)] - 1
<1> DEFINE s == ShardOf(id)
           l == LocalOf(id)
<1>1. s \in Shard /\ l \in 0 .. ShardSize - 1 /\ id = s * ShardSize + l
  BY Addressed
<1>2. s \in DOMAIN found /\ found[s] = ExpectedRows(s)
  BY <1>1 DEF ValidLayout
<1>3. ShardSize \in Nat \ {0} /\ Vocab \in Nat /\ s \in Nat /\ s * ShardSize \in Nat
  BY <1>1, ShardSizeSuffices, VocabAssumption, PartsAssumption DEF Shard
<1>4. id \in RowId <=> l < Vocab - s * ShardSize
  BY <1>1, <1>3 DEF RowId
<1>5. l < Vocab - s * ShardSize <=> l < ExpectedRows(s)
  <2> DEFINE m == Vocab - s * ShardSize
  <2>1. m \in Int /\ l \in Int /\ 0 <= l /\ l < ShardSize /\ ShardSize \in Nat
    BY <1>1, <1>3
  <2>2. ExpectedRows(s) = Greatest(0, Least(ShardSize, m))
    BY DEF ExpectedRows
  <2> HIDE DEF m, l, s
  <2> QED
    BY <2>1, <2>2 DEF Greatest, Least, m
<1>6. ExpectedRows(s) \in Int
  BY <1>3 DEF ExpectedRows, Greatest, Least
<1> QED
  BY <1>1, <1>2, <1>4, <1>5, <1>6

(* Every known id passes gather's range check.                             *)
THEOREM KnownIdsInRange == \A id \in RowId : InRange(id, Parts)
BY ShardSizeSuffices, VocabAssumption, PartsAssumption DEF RowId, InRange

(* Two ids never read the same row: the address tells them apart.          *)
THEOREM AddressesDiffer ==
    ASSUME NEW i \in Int, NEW j \in Int, InRange(i, Parts), InRange(j, Parts),
           ShardOf(i) = ShardOf(j), LocalOf(i) = LocalOf(j)
    PROVE  i = j
BY Addressed
================================================================================
