----------------------------- MODULE PleGatherProofs -----------------------------
(***************************************************************************)
(* What gather returns, for every table, chunk, pool and schedule.         *)
(*                                                                         *)
(* The lemmas about Sorted, Uniq and Tasks say that the tasks of a call    *)
(* cut its ids without a gap.  The inductive invariant IInv says of each   *)
(* call, over or not, which of its futures are done and that their rows    *)
(* are in its array; what is returned follows from it and from             *)
(* PleLayoutProofs.                                                        *)
(***************************************************************************)
EXTENDS PleGather, PleLayoutProofs, FiniteSetTheorems, FunctionTheorems, SequenceTheorems

(* A function on 1 .. n is a sequence of length n.                         *)
LEMMA FunctionIsSequence ==
    ASSUME NEW n \in Nat, NEW S, NEW f \in [1 .. n -> S]
    PROVE  f \in Seq(S) /\ Len(f) = n
<1>1. f \in Seq(S)
  BY SeqDef
<1>2. Len(f) \in Nat /\ 1 .. Len(f) = 1 .. n
  BY <1>1, LenProperties
<1> QED
  BY <1>1, <1>2

(* Sorted gives the members of a finite set of integers once each, in      *)
(* ascending order.                                                        *)
LEMMA SortedAscends ==
    ASSUME NEW S \in SUBSET Int, IsFiniteSet(S)
    PROVE  /\ Cardinality(S) \in Nat
           /\ Sorted(S) \in [1 .. Cardinality(S) -> S]
           /\ \A p, q \in 1 .. Cardinality(S) : p < q => Sorted(S)[p] < Sorted(S)[q]
           /\ \A v \in S : \E p \in 1 .. Cardinality(S) : Sorted(S)[p] = v
<1> DEFINE n == Cardinality(S)
           UpTo(v) == {w \in S : w <= v}
           rank == [v \in S |-> Cardinality(UpTo(v))]
<1>1. n \in Nat
  BY FS_CardinalityType
<1>2. ASSUME NEW v \in S PROVE IsFiniteSet(UpTo(v)) /\ Cardinality(UpTo(v)) \in 1 .. n
  <2>1. UpTo(v) \in SUBSET S /\ v \in UpTo(v)
    OBVIOUS
  <2>2. IsFiniteSet(UpTo(v)) /\ Cardinality(UpTo(v)) <= n
    BY <2>1, FS_Subset
  <2>3. Cardinality(UpTo(v)) \in Nat /\ Cardinality(UpTo(v)) # 0
    BY <2>1, <2>2, FS_CardinalityType, FS_EmptySet
  <2> HIDE DEF UpTo, n
  <2> QED
    BY <1>1, <2>2, <2>3
<1>3. ASSUME NEW v \in S, NEW u \in S, v < u PROVE rank[v] < rank[u]
  <2>1. UpTo(v) \in SUBSET UpTo(u) /\ u \in UpTo(u) /\ u \notin UpTo(v)
    <3>1. \A w \in S : w <= v => w <= u
      BY <1>3
    <3>2. u <= u /\ ~(u <= v)
      BY <1>3
    <3> QED
      BY <3>1, <3>2
  <2>2. IsFiniteSet(UpTo(u))
    BY <1>2
  <2>3. Cardinality(UpTo(v)) <= Cardinality(UpTo(u)) /\ Cardinality(UpTo(v)) # Cardinality(UpTo(u))
    BY <2>1, <2>2, FS_Subset
  <2> HIDE DEF UpTo
  <2> QED
    BY <1>2, <2>3
<1>4. rank \in [S -> 1 .. n]
  BY <1>2
<1> HIDE DEF n
<1>5. rank \in Injection(S, 1 .. n)
  <2>1. \A a, b \in S : rank[a] = rank[b] => a = b
    <3> SUFFICES ASSUME NEW a \in S, NEW b \in S, a # b PROVE rank[a] # rank[b]
      OBVIOUS
    <3>1. a < b \/ b < a
      OBVIOUS
    <3>2. rank[a] \in 1 .. n /\ rank[b] \in 1 .. n
      BY <1>4
    <3> HIDE DEF rank
    <3> QED
      BY <1>1, <1>3, <3>1, <3>2
  <2> HIDE DEF rank
  <2> QED
    BY <1>4, <2>1, Fun_IsInj
<1>6. rank \in Surjection(S, 1 .. n)
  <2>1. IsFiniteSet(1 .. n) /\ Cardinality(1 .. n) = n
    BY <1>1, FS_Interval
  <2> HIDE DEF rank
  <2> QED
    BY <1>5, <2>1, FS_Injection DEF n
<1>7. ASSUME NEW p \in 1 .. n PROVE Sorted(S)[p] \in S /\ rank[Sorted(S)[p]] = p
  <2>1. \E v \in S : rank[v] = p
    <3> HIDE DEF rank
    <3>1. \A t \in 1 .. n : \E v \in S : rank[v] = t
      BY <1>6, Fun_SurjectionProperties, Zenon
    <3> QED
      BY <3>1
  <2>2. \E v \in S : Cardinality(UpTo(v)) = p
    <3> HIDE DEF UpTo
    <3> QED
      BY <2>1
  <2>3. Sorted(S)[p] = CHOOSE v \in S : Cardinality(UpTo(v)) = p
    BY DEF Sorted, n
  <2> QED
    BY <2>2, <2>3
<1>8. Sorted(S) \in [1 .. n -> S]
  BY <1>7 DEF Sorted, n
<1>9. ASSUME NEW p \in 1 .. n, NEW q \in 1 .. n, p < q PROVE Sorted(S)[p] < Sorted(S)[q]
  <2> DEFINE v == Sorted(S)[p]
             u == Sorted(S)[q]
  <2>1. v \in S /\ u \in S /\ rank[v] = p /\ rank[u] = q
    BY <1>7
  <2> HIDE DEF v, u, rank
  <2>2. ~(u < v) /\ u # v
    BY <1>1, <1>3, <1>9, <2>1
  <2>3. v < u
    BY <2>1, <2>2
  <2> QED
    BY <2>3 DEF v, u
<1>10. ASSUME NEW v \in S PROVE \E p \in 1 .. n : Sorted(S)[p] = v
  <2>1. rank[v] \in 1 .. n
    BY <1>4
  <2>2. Sorted(S)[rank[v]] \in S /\ rank[Sorted(S)[rank[v]]] = rank[v]
    BY <1>7, <2>1
  <2> HIDE DEF rank
  <2>3. Sorted(S)[rank[v]] = v
    BY <1>5, <2>2, Fun_InjectionProperties
  <2> QED
    BY <2>1, <2>3
<1> QED
  BY <1>1, <1>8, <1>9, <1>10 DEF n

(* A finite set of integers that is not empty has a least member.          *)
LEMMA LeastMember ==
    ASSUME NEW S \in SUBSET Int, IsFiniteSet(S), S # {}
    PROVE  Min(S) \in S /\ \A v \in S : Min(S) <= v
<1> DEFINE n == Cardinality(S)
           f == Sorted(S)
<1>1. /\ n \in Nat
      /\ f \in [1 .. n -> S]
      /\ \A p, q \in 1 .. n : p < q => f[p] < f[q]
      /\ \A v \in S : \E p \in 1 .. n : f[p] = v
  BY SortedAscends
<1> HIDE DEF n, f
<1>2. n \in Nat /\ 1 \in 1 .. n
  <2>1. PICK p \in 1 .. n : TRUE
    BY <1>1
  <2> QED
    BY <1>1, <2>1
<1>3. f[1] \in S /\ \A v \in S : f[1] <= v
  <2>1. ASSUME NEW p \in 1 .. n PROVE f[p] \in Int /\ (p = 1 \/ 1 < p)
    <3>1. p = 1 \/ 1 < p
      BY <1>2
    <3> QED
      BY <1>1, <3>1
  <2>2. \A p \in 1 .. n : f[1] <= f[p]
    BY <1>1, <1>2, <2>1
  <2> QED
    BY <1>1, <1>2, <2>2
<1>4. \E v \in S : \A w \in S : v <= w
  BY <1>3
<1> QED
  BY <1>4 DEF Min

(* What np.unique returns: the ids, each once and in ascending order.      *)
LEMMA UniqAscends ==
    ASSUME NEW ids \in Seq(Int)
    PROVE  \E n \in Nat :
              /\ Uniq(ids) \in [1 .. n -> Int]
              /\ \A p, q \in 1 .. n : p < q => Uniq(ids)[p] < Uniq(ids)[q]
              /\ \A p \in 1 .. n : \E i \in DOMAIN ids : Uniq(ids)[p] = ids[i]
              /\ \A i \in DOMAIN ids : \E p \in 1 .. n : Uniq(ids)[p] = ids[i]
<1> DEFINE S == ToSet(ids)
<1>1. /\ DOMAIN ids = 1 .. Len(ids)
      /\ Len(ids) \in Nat
      /\ ids \in [1 .. Len(ids) -> Int]
  BY LenProperties
<1>2. S \in SUBSET Int /\ \A v \in S : \E i \in DOMAIN ids : v = ids[i]
  BY <1>1 DEF ToSet
<1>3. \A i \in DOMAIN ids : ids[i] \in S
  BY DEF ToSet
<1> HIDE DEF S
<1>4. IsFiniteSet(S)
  <2>1. ids \in [1 .. Len(ids) -> S]
    BY <1>1, <1>3
  <2>2. ids \in Surjection(1 .. Len(ids), S)
    BY <1>1, <1>2, <2>1, Fun_IsSurj
  <2>3. IsFiniteSet(1 .. Len(ids))
    BY <1>1, FS_Interval
  <2> QED
    BY <2>2, <2>3, FS_Surjection
<1>5. Uniq(ids) = Sorted(S)
  BY DEF Uniq, S
<1>6. /\ Cardinality(S) \in Nat
      /\ Sorted(S) \in [1 .. Cardinality(S) -> S]
      /\ \A p, q \in 1 .. Cardinality(S) : p < q => Sorted(S)[p] < Sorted(S)[q]
      /\ \A v \in S : \E p \in 1 .. Cardinality(S) : Sorted(S)[p] = v
  BY <1>2, <1>4, SortedAscends
<1>7. Sorted(S) \in [1 .. Cardinality(S) -> Int]
  BY <1>2, <1>6
<1>8. \A p \in 1 .. Cardinality(S) : Sorted(S)[p] \in S
  BY <1>6
<1> QED
  BY <1>2, <1>3, <1>5, <1>6, <1>7, <1>8

(* A larger id is in the same shard or in a later one.                     *)
LEMMA QuotientGrows ==
    ASSUME NEW a \in Nat, NEW b \in Nat, a <= b, NEW n \in Nat \ {0}
    PROVE  a \div n <= b \div n
<1> DEFINE s == b \div n
           t == a \div n
<1>1. s \in Nat /\ t \in Nat /\ t * n <= a /\ b < s * n + n
  BY Division
<1> HIDE DEF s, t
<1>2. s * n \in Nat /\ t * n \in Nat
  BY <1>1
<1>3. s + 1 <= t => s * n + n <= t * n
  BY <1>1, ProductGrows
<1>4. t <= s
  BY <1>1, <1>2, <1>3
<1> QED
  BY <1>4 DEF s, t

(* Rounding down to a multiple.                                            *)
LEMMA RoundedDown ==
    ASSUME NEW d \in Nat, NEW n \in Nat \ {0}
    PROVE  /\ d % n \in 0 .. n - 1
           /\ d % n <= d
           /\ (d - (d % n)) % n = 0
<1>1. /\ d % n \in 0 .. n - 1
      /\ d \div n \in Nat
      /\ d = (d \div n) * n + (d % n)
  BY SMT
<1> DEFINE q == d \div n
           r == d % n
           m == q * n
<1>2. m \in Nat
  BY <1>1
<1>3. m = (m \div n) * n + (m % n) /\ m % n \in 0 .. n - 1 /\ m \div n \in Nat
  <2> HIDE DEF m
  <2> QED
    BY <1>2, SMT
<1>4. m % n = 0
  <2> DEFINE k == m \div n
             e == m % n
  <2>1. q * n = k * n + e /\ e \in 0 .. n - 1 /\ k \in Nat /\ q \in Nat
    BY <1>1, <1>3
  <2> HIDE DEF q, k, e
  <2>2. k + 1 <= q => k * n + n <= q * n
    BY <2>1, ProductGrows
  <2>3. q + 1 <= k => q * n + n <= k * n
    BY <2>1, ProductGrows
  <2>4. q * n \in Nat /\ k * n \in Nat
    BY <2>1
  <2>5. q = k
    BY <2>1, <2>2, <2>3, <2>4
  <2>6. e = 0
    BY <2>1, <2>4, <2>5
  <2> QED
    BY <2>6 DEF e
<1>5. d - r = m
  <2> HIDE DEF m, r
  <2>1. d = m + r /\ r \in Nat
    BY <1>1 DEF m, r
  <2> QED
    BY <1>2, <2>1
<1> QED
  BY <1>1, <1>2, <1>4, <1>5
--------------------------------------------------------------------------------
(* Where gather looks for an id.                                           *)
AddressOf(id) == <<ShardOf(id), LocalOf(id)>>

AllInRange(ids) == \A i \in DOMAIN ids : InRange(ids[i], Parts)

(* The tasks cut what was asked for: each position is in one of them, and  *)
(* a task has at least one, and only positions of its shard.               *)
LEMMA TasksCover ==
    ASSUME NEW ids \in Seq(Int), AllInRange(ids)
    PROVE  LET uniq == Uniq(ids)
               tasks == Tasks(uniq)
           IN  /\ \E m \in Nat : DOMAIN tasks = 1 .. m
               /\ \A k \in DOMAIN tasks :
                     /\ tasks[k].slice \subseteq DOMAIN uniq /\ tasks[k].slice # {}
                     /\ \A p \in tasks[k].slice : ShardOf(uniq[p]) = tasks[k].shard
               /\ \A p \in DOMAIN uniq : \E k \in DOMAIN tasks : p \in tasks[k].slice
<1> DEFINE uniq == Uniq(ids)
           tasks == Tasks(uniq)
           T == Starts(uniq)
           start == Sorted(T)
<1>1. PICK n \in Nat :
         /\ uniq \in [1 .. n -> Int]
         /\ \A p, q \in 1 .. n : p < q => uniq[p] < uniq[q]
         /\ \A p \in 1 .. n : \E i \in DOMAIN ids : uniq[p] = ids[i]
  BY UniqAscends
<1> HIDE DEF uniq
<1>2. DOMAIN uniq = 1 .. n
  BY <1>1
<1>3. ShardSize \in Nat \ {0}
  BY ShardSizeSuffices
<1>4. \A p \in 1 .. n : uniq[p] \in Nat
  BY <1>1 DEF AllInRange, InRange
<1>5. IsFiniteSet(1 .. n)
  BY FS_Interval
<1>6. T \in SUBSET (1 .. n)
  BY <1>2 DEF Starts
<1>7. /\ Cardinality(T) \in Nat
      /\ start \in [1 .. Cardinality(T) -> T]
      /\ \A v \in T : \E k \in 1 .. Cardinality(T) : start[k] = v
  <2>1. IsFiniteSet(T) /\ T \in SUBSET Int
    BY <1>5, <1>6, FS_Subset
  <2> HIDE DEF T
  <2> QED
    BY <2>1, SortedAscends
<1>8. tasks = [k \in 1 .. Cardinality(T) |->
                  [shard |-> ShardOf(uniq[start[k]]),
                   slice |-> {p \in SameShard(uniq, start[k]) :
                                 start[k] <= p /\ p < start[k] + Chunk}]]
  BY <1>7 DEF Tasks
<1>9. ASSUME NEW p \in 1 .. n
      PROVE  \E q \in T : q <= p /\ p < q + Chunk /\ ShardOf(uniq[p]) = ShardOf(uniq[q])
  <2> DEFINE S == SameShard(uniq, p)
             least == Min(S)
             q == p - ((p - least) % Chunk)
  <2>1. S \in SUBSET (1 .. n) /\ p \in S
    BY <1>2 DEF SameShard
  <2>2. least \in S /\ least <= p
    <3>1. IsFiniteSet(S) /\ S \in SUBSET Int /\ S # {}
      BY <1>5, <2>1, FS_Subset
    <3> HIDE DEF S
    <3> QED
      BY <2>1, <3>1, LeastMember
  <2>3. least \in 1 .. n /\ ShardOf(uniq[least]) = ShardOf(uniq[p])
    BY <2>1, <2>2 DEF SameShard
  <2> HIDE DEF least
  <2> DEFINE d == p - least
             r == d % Chunk
  <2>4. d \in Nat /\ Chunk \in Nat \ {0}
    BY <2>2, <2>3, PoolAssumption
  <2>5. r \in 0 .. Chunk - 1 /\ r <= d /\ (d - r) % Chunk = 0
    <3> HIDE DEF d
    <3> QED
      BY <2>4, RoundedDown
  <2>6. q = p - r
    OBVIOUS
  <2> HIDE DEF r, q
  <2>7. q \in 1 .. n /\ least <= q /\ q <= p /\ p < q + Chunk /\ d - r = q - least
    BY <2>2, <2>3, <2>4, <2>5, <2>6
  <2>8. uniq[least] <= uniq[q] /\ uniq[q] <= uniq[p]
    <3>1. least = q \/ least < q
      BY <2>3, <2>7
    <3>2. q = p \/ q < p
      BY <2>3, <2>7
    <3>3. uniq[q] \in Int /\ uniq[p] \in Int /\ uniq[least] \in Int
      BY <1>1, <2>3, <2>7
    <3>4. least < q => uniq[least] < uniq[q]
      BY <1>1, <2>3, <2>7
    <3>5. q < p => uniq[q] < uniq[p]
      BY <1>1, <2>7
    <3>6. uniq[least] <= uniq[q]
      BY <3>1, <3>3, <3>4
    <3> QED
      BY <3>2, <3>3, <3>5, <3>6
  <2>9. ShardOf(uniq[q]) = ShardOf(uniq[p])
    <3>1. uniq[q] \in Nat /\ uniq[p] \in Nat /\ uniq[least] \in Nat
      BY <1>4, <2>3, <2>7
    <3>2. /\ uniq[least] \div ShardSize <= uniq[q] \div ShardSize
          /\ uniq[q] \div ShardSize <= uniq[p] \div ShardSize
      BY <1>3, <2>8, <3>1, QuotientGrows
    <3>3. /\ uniq[least] \div ShardSize \in Nat
          /\ uniq[q] \div ShardSize \in Nat
          /\ uniq[p] \div ShardSize \in Nat
      BY <1>3, <3>1, Division
    <3>4. uniq[least] \div ShardSize = uniq[p] \div ShardSize
      BY <2>3 DEF ShardOf
    <3> QED
      BY <3>2, <3>3, <3>4 DEF ShardOf
  <2>10. SameShard(uniq, q) = S
    BY <2>9 DEF SameShard
  <2>11. (q - Min(SameShard(uniq, q))) % Chunk = 0
    BY <2>5, <2>7, <2>10 DEF least
  <2>12. q \in T
    BY <1>2, <2>7, <2>11 DEF Starts
  <2> QED
    BY <2>7, <2>9, <2>12
<1> HIDE DEF T, start, tasks
<1>10. ASSUME NEW p \in 1 .. n PROVE \E k \in DOMAIN tasks : p \in tasks[k].slice
  <2>1. PICK q \in T : q <= p /\ p < q + Chunk /\ ShardOf(uniq[p]) = ShardOf(uniq[q])
    BY <1>9
  <2>2. PICK k \in 1 .. Cardinality(T) : start[k] = q
    BY <1>7, <2>1
  <2>3. p \in SameShard(uniq, q)
    BY <1>2, <2>1 DEF SameShard
  <2> QED
    BY <1>8, <2>1, <2>2, <2>3
<1>11. ASSUME NEW k \in 1 .. Cardinality(T)
       PROVE  /\ tasks[k].slice \subseteq 1 .. n /\ tasks[k].slice # {}
              /\ \A p \in tasks[k].slice : ShardOf(uniq[p]) = tasks[k].shard
  <2>1. start[k] \in 1 .. n
    BY <1>6, <1>7
  <2>2. start[k] \in SameShard(uniq, start[k]) /\ start[k] <= start[k] /\ start[k] < start[k] + Chunk
    BY <1>2, <2>1, PoolAssumption DEF SameShard
  <2>3. start[k] \in tasks[k].slice
    BY <1>8, <2>2
  <2> QED
    BY <1>2, <1>8, <2>3 DEF SameShard
<1>12. DOMAIN tasks = 1 .. Cardinality(T)
  BY <1>8
<1> QED
  BY <1>2, <1>7, <1>10, <1>11, <1>12 DEF tasks, uniq

(* An address stands for one id only, and RowOf finds it.                  *)
LEMMA RowIsAddress ==
    ASSUME NEW id \in RowId
    PROVE  RowOf(id) = AddressOf(id) /\ AddressOf(id) \in Row
<1> DEFINE n == ShardSize
           R == {<<s, l>> : s \in Shard, l \in 0 .. ShardSize - 1}
           s0 == ShardOf(id)
           l0 == LocalOf(id)
<1>1. /\ n \in Nat \ {0} /\ id \in Nat
      /\ s0 \in Shard /\ l0 \in 0 .. n - 1 /\ id = s0 * n + l0
  BY ShardSizeSuffices, KnownIdsInRange, Addressed, VocabAssumption DEF RowId
<1>2. Shard \subseteq Nat
  BY PartsAssumption DEF Shard
<1> HIDE DEF n, s0, l0
<1>3. ASSUME NEW s \in Shard, NEW l \in 0 .. n - 1, s * n + l = id
      PROVE  s = s0 /\ l = l0
  <2>1. s \in Nat /\ s0 \in Nat /\ s * n \in Nat /\ s0 * n \in Nat
    BY <1>1, <1>2
  <2>2. s + 1 <= s0 => s * n + n <= s0 * n
    BY <1>1, <2>1, ProductGrows
  <2>3. s0 + 1 <= s => s0 * n + n <= s * n
    BY <1>1, <2>1, ProductGrows
  <2>4. s = s0
    BY <1>1, <1>3, <2>1, <2>2, <2>3
  <2> QED
    BY <1>1, <1>3, <2>1, <2>4
<1>4. <<s0, l0>> \in R /\ s0 * n + l0 = id
  BY <1>1 DEF n
<1>5. ASSUME NEW row \in R, row[1] * n + row[2] = id PROVE row = <<s0, l0>>
  <2>1. PICK s \in Shard, l \in 0 .. n - 1 : row = <<s, l>>
    BY DEF n
  <2> QED
    BY <1>3, <1>5, <2>1
<1>6. RowOf(id) = CHOOSE row \in R : row[1] * n + row[2] = id
  BY DEF RowOf, n
<1> HIDE DEF R
<1>7. RowOf(id) = <<s0, l0>>
  BY <1>4, <1>5, <1>6
<1>8. s0 \in Nat /\ l0 \in Nat
  BY <1>1, <1>2
<1> QED
  BY <1>7, <1>8 DEF AddressOf, Row, s0, l0
--------------------------------------------------------------------------------
FutureState == {"pending", "running", "done", "failed", "cancelled"}

UniqSet == {Uniq(ids) : ids \in Requests}
TaskLists == {Tasks(u) : u \in UniqSet} \union {<<>>}
Array(u) == [DOMAIN u -> Row \union {Unwritten}]

CallRecord ==
    [ids : Requests, uniq : UniqSet, tasks : TaskLists,
     future : UNION {[DOMAIN t -> FutureState] : t \in TaskLists},
     awaited : Nat, rows : Seq(Row), state : {"running", "raised", "returned"}]

(* Task k of the call r meets an id that the shards f do not hold.         *)
TaskFails(f, r, k) ==
    LET t == r.tasks[k]
    IN  ~ /\ t.shard \in DOMAIN f
          /\ \A p \in t.slice : LET l == r.uniq[p] - t.shard * ShardSize
                                IN  0 <= l /\ l < f[t.shard]

(* What is known of a call r and of its array b, over the shards f: the    *)
(* tasks are those of the ids; the futures before the awaited one are      *)
(* done; a task has failed only if it had to; what a done task covers is   *)
(* written; and the call is over only as these say.                        *)
Sound(f, r, b) ==
    /\ r.uniq = Uniq(r.ids)
    /\ r.tasks = IF AllInRange(r.ids) THEN Tasks(r.uniq) ELSE <<>>
    /\ r.future \in [DOMAIN r.tasks -> FutureState]
    /\ r.awaited \in 1 .. Len(r.future) + 1
    /\ \A k \in 1 .. r.awaited - 1 : r.future[k] = "done"
    /\ \A k \in DOMAIN r.tasks :
          /\ r.future[k] = "done" => ~TaskFails(f, r, k)
          /\ r.future[k] = "failed" => TaskFails(f, r, k)
    /\ b \in Array(r.uniq)
    /\ \A k \in DOMAIN r.tasks : r.future[k] = "done" =>
          \A p \in r.tasks[k].slice : b[p] = AddressOf(r.uniq[p])
    /\ r.state = "running" => AllInRange(r.ids)
    /\ r.state = "raised" =>
          ~AllInRange(r.ids) \/ \E k \in DOMAIN r.tasks : r.future[k] = "failed"
    /\ r.state = "returned" =>
          /\ AllInRange(r.ids)
          /\ \A k \in DOMAIN r.tasks : r.future[k] = "done"
          /\ r.rows = [i \in DOMAIN r.ids |-> AddressOf(r.ids[i])]

IInv ==
    /\ found \in Layouts
    /\ table \in {"none", "open", "refused"}
    /\ table = "open" => ValidLayout(found)
    /\ call # <<>> => table = "open"
    /\ call \in Seq(CallRecord)
    /\ buf \in Seq(UNION {Array(u) : u \in UniqSet})
    /\ Len(buf) = Len(call)
    /\ \A c \in 1 .. Len(call) : Sound(found, call[c], buf[c])

(* The shape of a call's tasks and futures.                                *)
LEMMA CallShape ==
    ASSUME NEW f, NEW r \in CallRecord, NEW b, Sound(f, r, b)
    PROVE  \E m \in Nat :
              /\ DOMAIN r.tasks = 1 .. m
              /\ r.future \in [1 .. m -> FutureState] /\ DOMAIN r.future = 1 .. m
              /\ r.future \in Seq(FutureState) /\ Len(r.future) = m
<1>1. r.ids \in Seq(Int)
  BY RequestsAssumption DEF CallRecord
<1>2. PICK m \in Nat : DOMAIN r.tasks = 1 .. m
  <2>1. CASE AllInRange(r.ids)
    BY <1>1, <2>1, TasksCover DEF Sound
  <2>2. CASE ~AllInRange(r.ids)
    <3>1. r.tasks = <<>>
      BY <2>2 DEF Sound
    <3>2. DOMAIN r.tasks = 1 .. 0
      BY <3>1
    <3> QED
      BY <3>2
  <2> QED
    BY <2>1, <2>2
<1>3. r.future \in [1 .. m -> FutureState]
  BY <1>2 DEF Sound
<1> QED
  BY <1>2, <1>3, FunctionIsSequence

(* What makes a call sound that has tasks and has not returned.            *)
LEMMA UnreturnedSound ==
    ASSUME NEW f, NEW r, NEW b,
           r.uniq = Uniq(r.ids), AllInRange(r.ids), r.tasks = Tasks(r.uniq),
           r.future \in [DOMAIN r.tasks -> FutureState], b \in Array(r.uniq),
           r.awaited \in 1 .. Len(r.future) + 1,
           \A j \in 1 .. r.awaited - 1 : r.future[j] = "done",
           \A j \in DOMAIN r.tasks : /\ r.future[j] = "done" => ~TaskFails(f, r, j)
                                     /\ r.future[j] = "failed" => TaskFails(f, r, j),
           \A j \in DOMAIN r.tasks : r.future[j] = "done" =>
              \A p \in r.tasks[j].slice : b[p] = AddressOf(r.uniq[p]),
           r.state # "returned",
           r.state = "raised" => \E j \in DOMAIN r.tasks : r.future[j] = "failed"
    PROVE  Sound(f, r, b)
BY DEF Sound

(* The call r and its array b when task k has ended.                       *)
Ended(f, r, k) ==
    [r EXCEPT !.future = [@ EXCEPT ![k] = IF TaskFails(f, r, k) THEN "failed" ELSE "done"]]
Filled(f, r, b, k) ==
    IF TaskFails(f, r, k) THEN b
    ELSE [p \in DOMAIN b |->
             IF p \in r.tasks[k].slice
             THEN <<r.tasks[k].shard, r.uniq[p] - r.tasks[k].shard * ShardSize>>
             ELSE b[p]]

(* A task that ends leaves the call sound.                                 *)
LEMMA TaskKeepsSound ==
    ASSUME NEW f, NEW r \in CallRecord, NEW b, Sound(f, r, b), NEW k \in DOMAIN r.tasks,
           \/ r.future[k] = "running"
           \/ r.future[k] = "pending" /\ r.state = "running"
    PROVE  Ended(f, r, k) \in CallRecord /\ Sound(f, Ended(f, r, k), Filled(f, r, b, k))
<1> DEFINE r2 == Ended(f, r, k)
           b2 == Filled(f, r, b, k)
           new == IF TaskFails(f, r, k) THEN "failed" ELSE "done"
<1>1. PICK m \in Nat :
         /\ DOMAIN r.tasks = 1 .. m
         /\ r.future \in [1 .. m -> FutureState] /\ DOMAIN r.future = 1 .. m
         /\ Len(r.future) = m
  BY CallShape
<1>2. new \in FutureState /\ new \in {"failed", "done"}
  BY DEF FutureState
<1>3. r2.future \in [1 .. m -> FutureState]
  BY <1>1, <1>2 DEF CallRecord, Ended
<1>4. Len(r2.future) = m
  BY <1>3, FunctionIsSequence
<1>5. /\ r2.ids = r.ids /\ r2.uniq = r.uniq /\ r2.tasks = r.tasks /\ r2.awaited = r.awaited
      /\ r2.rows = r.rows /\ r2.state = r.state
  BY DEF CallRecord, Ended
<1>6. /\ r2.future[k] = new
      /\ \A j \in 1 .. m : j # k => r2.future[j] = r.future[j]
  BY <1>1 DEF CallRecord, Ended
<1>7. r2 \in CallRecord
  <2>1. r2.future \in UNION {[DOMAIN t -> FutureState] : t \in TaskLists}
    BY <1>1, <1>3 DEF CallRecord
  <2> QED
    BY <2>1 DEF CallRecord, Ended
<1>8. AllInRange(r.ids) /\ r.tasks = Tasks(r.uniq) /\ r.uniq = Uniq(r.ids)
  <2>1. ~AllInRange(r.ids) => r.tasks = <<>>
    BY DEF Sound
  <2>2. r.tasks # <<>>
    OBVIOUS
  <2> QED
    BY <2>1, <2>2 DEF Sound
<1>9. r.ids \in Seq(Int)
  BY RequestsAssumption DEF CallRecord
<1>10. /\ r.tasks[k].slice \subseteq DOMAIN r.uniq
       /\ \A p \in r.tasks[k].slice : ShardOf(r.uniq[p]) = r.tasks[k].shard
  BY <1>8, <1>9, TasksCover
<1>11. \A p \in DOMAIN r.uniq : AddressOf(r.uniq[p]) \in Row
  <2>1. PICK n \in Nat :
           /\ Uniq(r.ids) \in [1 .. n -> Int]
           /\ \A p \in 1 .. n : \E i \in DOMAIN r.ids : Uniq(r.ids)[p] = r.ids[i]
    BY <1>9, UniqAscends
  <2>2. \A i \in DOMAIN r.ids : r.ids[i] \in Int /\ InRange(r.ids[i], Parts)
    BY <1>8, <1>9 DEF AllInRange
  <2>3. ASSUME NEW p \in DOMAIN r.uniq PROVE AddressOf(r.uniq[p]) \in Row
    <3>1. r.uniq[p] \in Int /\ InRange(r.uniq[p], Parts)
      BY <1>8, <2>1, <2>2
    <3>2. ShardOf(r.uniq[p]) \in Nat /\ LocalOf(r.uniq[p]) \in Nat
      BY <3>1, Addressed, ShardSizeSuffices, PartsAssumption DEF Shard
    <3> QED
      BY <3>2 DEF AddressOf, Row
  <2> QED
    BY <2>3
<1>12. b \in Array(r.uniq)
  BY DEF Sound
<1>13. \A p \in r.tasks[k].slice :
          <<r.tasks[k].shard, r.uniq[p] - r.tasks[k].shard * ShardSize>> = AddressOf(r.uniq[p])
  BY <1>10 DEF AddressOf, LocalOf
<1>14. ~TaskFails(f, r, k) =>
          \A p \in DOMAIN r.uniq : b2[p] = IF p \in r.tasks[k].slice THEN AddressOf(r.uniq[p]) ELSE b[p]
  BY <1>12, <1>13 DEF Array, Filled
<1>15. b2 \in Array(r.uniq)
  <2>1. CASE TaskFails(f, r, k)
    BY <1>12, <2>1 DEF Filled
  <2>2. CASE ~TaskFails(f, r, k)
    BY <1>11, <1>12, <1>14, <2>2 DEF Array, Filled
  <2> QED
    BY <2>1, <2>2
<1>16. ASSUME NEW j \in 1 .. m, r2.future[j] = "done", NEW p \in r.tasks[j].slice
       PROVE  b2[p] = AddressOf(r.uniq[p])
  <2>1. p \in DOMAIN r.uniq
    BY <1>1, <1>8, <1>9, TasksCover
  <2>2. CASE j = k
    BY <1>6, <1>14, <1>16, <2>1, <2>2
  <2>3. CASE j # k
    <3>1. b[p] = AddressOf(r.uniq[p])
      BY <1>1, <1>6, <1>16, <2>3 DEF Sound
    <3>2. TaskFails(f, r, k) => b2 = b
      BY DEF Filled
    <3> QED
      BY <1>14, <2>1, <3>1, <3>2
  <2> QED
    BY <2>2, <2>3
<1>17. \A j \in 1 .. m : TaskFails(f, r2, j) <=> TaskFails(f, r, j)
  BY <1>5 DEF TaskFails
<1>18. r.state # "returned"
  BY <1>1 DEF Sound
<1>19. \A j \in 1 .. r.awaited - 1 : r2.future[j] = "done"
  BY <1>1, <1>6 DEF Sound
<1>20. ASSUME r.state = "raised" PROVE \E j \in 1 .. m : r2.future[j] = "failed"
  BY <1>1, <1>6, <1>8, <1>20 DEF Sound
<1>21. r.awaited \in 1 .. Len(r2.future) + 1
  BY <1>1, <1>4 DEF Sound
<1>22. \A j \in 1 .. m : /\ r2.future[j] = "done" => ~TaskFails(f, r, j)
                         /\ r2.future[j] = "failed" => TaskFails(f, r, j)
  BY <1>1, <1>6 DEF Sound
<1> HIDE DEF new, r2, b2
<1>23. Sound(f, r2, b2)
  <2>1. DOMAIN r2.tasks = 1 .. m
    BY <1>1, <1>5
  <2>2. r2.uniq = Uniq(r2.ids) /\ AllInRange(r2.ids) /\ r2.tasks = Tasks(r2.uniq)
    BY <1>5, <1>8
  <2>3. \A j \in DOMAIN r2.tasks : /\ r2.future[j] = "done" => ~TaskFails(f, r2, j)
                                   /\ r2.future[j] = "failed" => TaskFails(f, r2, j)
    BY <1>17, <1>22, <2>1
  <2>4. \A j \in DOMAIN r2.tasks : r2.future[j] = "done" =>
           \A p \in r2.tasks[j].slice : b2[p] = AddressOf(r2.uniq[p])
    BY <1>5, <1>16, <2>1
  <2>5. b2 \in Array(r2.uniq) /\ r2.future \in [DOMAIN r2.tasks -> FutureState]
    BY <1>3, <1>5, <1>15, <2>1
  <2>6. r2.state = "raised" => \E j \in DOMAIN r2.tasks : r2.future[j] = "failed"
    BY <1>5, <1>20, <2>1
  <2>7. /\ r2.awaited \in 1 .. Len(r2.future) + 1
        /\ \A j \in 1 .. r2.awaited - 1 : r2.future[j] = "done"
        /\ r2.state # "returned"
    BY <1>5, <1>18, <1>19, <1>21
  <2> QED
    BY <2>2, <2>3, <2>4, <2>5, <2>6, <2>7, UnreturnedSound
<1> QED
  BY <1>7, <1>23 DEF r2, b2

(* A call that changes, with its array, stays within the invariant.        *)
LEMMA CallChanges ==
    ASSUME IInv, UNCHANGED <<found, table>>,
           NEW c \in 1 .. Len(call),
           NEW r, r \in CallRecord, NEW b, Sound(found, r, b),
           call' = [call EXCEPT ![c] = r],
           buf' = [buf EXCEPT ![c] = b]
    PROVE  IInv'
<1> DEFINE A == UNION {Array(u) : u \in UniqSet}
<1>1. /\ call \in Seq(CallRecord) /\ buf \in Seq(A) /\ Len(buf) = Len(call)
      /\ Len(call) \in Nat /\ call # <<>>
  BY DEF IInv
<1>2. b \in A
  <2>1. b \in Array(r.uniq) /\ r.uniq \in UniqSet
    BY DEF Sound, CallRecord
  <2> QED
    BY <2>1
<1> HIDE DEF A
<1>3. /\ call' \in Seq(CallRecord) /\ Len(call') = Len(call)
      /\ \A d \in 1 .. Len(call) : call'[d] = IF d = c THEN r ELSE call[d]
  BY <1>1, ExceptSeq
<1>4. /\ buf' \in Seq(A) /\ Len(buf') = Len(buf)
      /\ \A d \in 1 .. Len(call) : buf'[d] = IF d = c THEN b ELSE buf[d]
  BY <1>1, <1>2, ExceptSeq
<1>5. \A d \in 1 .. Len(call) : Sound(found, call'[d], buf'[d])
  BY <1>3, <1>4 DEF IInv
<1>6. A' = A
  BY DEF A, Array, UniqSet
<1>7. /\ found' \in Layouts /\ table' \in {"none", "open", "refused"}
      /\ table' = "open" => ValidLayout(found')
      /\ table' = "open"
  BY <1>1 DEF IInv
<1>8. \A d \in 1 .. Len(call') : Sound(found', call'[d], buf'[d])
  BY <1>3, <1>5
<1> QED
  BY <1>3, <1>4, <1>6, <1>7, <1>8 DEF IInv, A

(* A worker that begins a task.                                            *)
LEMMA BeginKeepsSound ==
    ASSUME NEW f, NEW r \in CallRecord, NEW b, Sound(f, r, b), NEW k \in DOMAIN r.tasks,
           r.future[k] = "pending", r.state = "running"
    PROVE  LET r2 == [r EXCEPT !.future = [@ EXCEPT ![k] = "running"]]
           IN  r2 \in CallRecord /\ Sound(f, r2, b)
<1> DEFINE r2 == [r EXCEPT !.future = [@ EXCEPT ![k] = "running"]]
<1>1. PICK m \in Nat :
         /\ DOMAIN r.tasks = 1 .. m
         /\ r.future \in [1 .. m -> FutureState] /\ DOMAIN r.future = 1 .. m
         /\ Len(r.future) = m
  BY CallShape
<1>2. r2.future \in [1 .. m -> FutureState]
  BY <1>1 DEF CallRecord, FutureState
<1>3. Len(r2.future) = m
  BY <1>2, FunctionIsSequence
<1>4. /\ r2.ids = r.ids /\ r2.uniq = r.uniq /\ r2.tasks = r.tasks /\ r2.awaited = r.awaited
      /\ r2.rows = r.rows /\ r2.state = r.state
  BY DEF CallRecord
<1>5. \A j \in 1 .. m : r2.future[j] = IF j = k THEN "running" ELSE r.future[j]
  BY <1>1 DEF CallRecord
<1>6. r2 \in CallRecord
  <2>1. r2.future \in UNION {[DOMAIN t -> FutureState] : t \in TaskLists}
    BY <1>1, <1>2 DEF CallRecord
  <2> QED
    BY <2>1 DEF CallRecord
<1> HIDE DEF r2
<1>7. \A j \in 1 .. m : TaskFails(f, r2, j) <=> TaskFails(f, r, j)
  BY <1>4 DEF TaskFails
<1>8. /\ \A j \in DOMAIN r2.tasks : /\ r2.future[j] = "done" => ~TaskFails(f, r2, j)
                                    /\ r2.future[j] = "failed" => TaskFails(f, r2, j)
      /\ \A j \in DOMAIN r2.tasks : r2.future[j] = "done" =>
            \A p \in r2.tasks[j].slice : b[p] = AddressOf(r2.uniq[p])
  BY <1>1, <1>4, <1>5, <1>7 DEF Sound
<1>9. /\ r2.awaited \in 1 .. Len(r2.future) + 1
      /\ \A j \in 1 .. r2.awaited - 1 : r2.future[j] = "done"
  BY <1>1, <1>3, <1>4, <1>5 DEF Sound
<1> QED
  BY <1>1, <1>2, <1>4, <1>6, <1>8, <1>9 DEF Sound, r2

(* What Await makes of the call it waits for.                              *)
LEMMA AwaitKeepsSound ==
    ASSUME NEW f, NEW r \in CallRecord, NEW b, Sound(f, r, b), r.state = "running",
           NEW r2,
           \/ /\ r.awaited <= Len(r.future) /\ r.future[r.awaited] = "done"
              /\ r2 = [r EXCEPT !.awaited = r.awaited + 1]
           \/ /\ r.awaited <= Len(r.future) /\ r.future[r.awaited] = "failed"
              /\ r2 = [r EXCEPT !.state = "raised",
                                !.future = [k \in DOMAIN r.future |->
                                    IF r.future[k] = "pending" THEN "cancelled" ELSE r.future[k]]]
           \/ /\ r.awaited > Len(r.future)
              /\ r2 = [r EXCEPT !.state = "returned",
                                !.rows = [i \in DOMAIN r.ids |->
                                    b[CHOOSE p \in DOMAIN r.uniq : r.uniq[p] = r.ids[i]]]]
    PROVE  r2 \in CallRecord /\ Sound(f, r2, b)
<1>1. PICK m \in Nat :
         /\ DOMAIN r.tasks = 1 .. m
         /\ r.future \in [1 .. m -> FutureState] /\ DOMAIN r.future = 1 .. m
         /\ Len(r.future) = m
  BY CallShape
<1>2. r.awaited \in 1 .. m + 1
  BY <1>1 DEF Sound
<1>3. AllInRange(r.ids) /\ r.uniq = Uniq(r.ids) /\ r.tasks = Tasks(r.uniq)
  BY DEF Sound
<1>4. r.ids \in Seq(Int)
  BY RequestsAssumption DEF CallRecord
<1>5. CASE /\ r.awaited <= Len(r.future) /\ r.future[r.awaited] = "done"
           /\ r2 = [r EXCEPT !.awaited = r.awaited + 1]
  <2>1. /\ r2.ids = r.ids /\ r2.uniq = r.uniq /\ r2.tasks = r.tasks /\ r2.future = r.future
        /\ r2.rows = r.rows /\ r2.state = r.state /\ r2.awaited = r.awaited + 1
    BY <1>5 DEF CallRecord
  <2>2. r2 \in CallRecord
    BY <1>2, <1>5 DEF CallRecord
  <2>3. r2.awaited \in 1 .. Len(r2.future) + 1
    BY <1>1, <1>2, <1>5, <2>1
  <2>4. \A j \in 1 .. r2.awaited - 1 : r2.future[j] = "done"
    BY <1>2, <1>5, <2>1 DEF Sound
  <2>5. \A j : TaskFails(f, r2, j) <=> TaskFails(f, r, j)
    BY <2>1 DEF TaskFails
  <2> QED
    BY <2>1, <2>2, <2>3, <2>4, <2>5 DEF Sound
<1>6. CASE /\ r.awaited <= Len(r.future) /\ r.future[r.awaited] = "failed"
           /\ r2 = [r EXCEPT !.state = "raised",
                             !.future = [k \in DOMAIN r.future |->
                                 IF r.future[k] = "pending" THEN "cancelled" ELSE r.future[k]]]
  <2>1. /\ r2.ids = r.ids /\ r2.uniq = r.uniq /\ r2.tasks = r.tasks
        /\ r2.rows = r.rows /\ r2.state = "raised" /\ r2.awaited = r.awaited
        /\ r2.future = [k \in 1 .. m |-> IF r.future[k] = "pending" THEN "cancelled" ELSE r.future[k]]
    BY <1>1, <1>6 DEF CallRecord
  <2>2. r2.future \in [1 .. m -> FutureState]
    BY <1>1, <2>1 DEF FutureState
  <2>3. Len(r2.future) = m
    BY <2>2, FunctionIsSequence
  <2>4. r2 \in CallRecord
    <3>1. r.tasks \in TaskLists /\ r2.future \in [DOMAIN r.tasks -> FutureState]
      BY <1>1, <2>2 DEF CallRecord
    <3>2. r2.future \in UNION {[DOMAIN t -> FutureState] : t \in TaskLists}
      BY <3>1
    <3> QED
      BY <1>6, <2>1, <3>2 DEF CallRecord
  <2>5. \A j : TaskFails(f, r2, j) <=> TaskFails(f, r, j)
    BY <2>1 DEF TaskFails
  <2>6. \A j \in 1 .. m : /\ r2.future[j] = "done" <=> r.future[j] = "done"
                          /\ r2.future[j] = "failed" <=> r.future[j] = "failed"
    BY <2>1
  <2>7. /\ r2.awaited \in 1 .. Len(r2.future) + 1
        /\ \A j \in 1 .. r2.awaited - 1 : r2.future[j] = "done"
    <3>1. \A j \in 1 .. r.awaited - 1 : j \in 1 .. m
      BY <1>2
    <3> QED
      BY <1>2, <2>1, <2>3, <2>6, <3>1 DEF Sound
  <2>8. \E j \in 1 .. m : r2.future[j] = "failed"
    BY <1>1, <1>2, <1>6, <2>6
  <2>9. \A j \in 1 .. m : /\ r2.future[j] = "done" => ~TaskFails(f, r2, j)
                          /\ r2.future[j] = "failed" => TaskFails(f, r2, j)
                          /\ r2.future[j] = "done" =>
                                \A p \in r2.tasks[j].slice : b[p] = AddressOf(r2.uniq[p])
    BY <1>1, <2>1, <2>5, <2>6 DEF Sound
  <2>10. b \in Array(r2.uniq)
    BY <2>1 DEF Sound
  <2> QED
    BY <1>1, <1>3, <2>1, <2>2, <2>4, <2>7, <2>8, <2>9, <2>10 DEF Sound
<1>7. CASE /\ r.awaited > Len(r.future)
           /\ r2 = [r EXCEPT !.state = "returned",
                             !.rows = [i \in DOMAIN r.ids |->
                                 b[CHOOSE p \in DOMAIN r.uniq : r.uniq[p] = r.ids[i]]]]
  <2>1. \A j \in 1 .. m : r.future[j] = "done"
    <3>1. r.awaited = m + 1
      BY <1>1, <1>2, <1>7
    <3> QED
      BY <3>1 DEF Sound
  <2>2. ASSUME NEW i \in DOMAIN r.ids
        PROVE  b[CHOOSE p \in DOMAIN r.uniq : r.uniq[p] = r.ids[i]] = AddressOf(r.ids[i])
    <3> DEFINE q == CHOOSE p \in DOMAIN r.uniq : r.uniq[p] = r.ids[i]
    <3>1. \E p \in DOMAIN r.uniq : r.uniq[p] = r.ids[i]
      <4>1. PICK n \in Nat :
               /\ Uniq(r.ids) \in [1 .. n -> Int]
               /\ \A j \in DOMAIN r.ids : \E p \in 1 .. n : Uniq(r.ids)[p] = r.ids[j]
        BY <1>4, UniqAscends
      <4> QED
        BY <1>3, <4>1
    <3>2. q \in DOMAIN r.uniq /\ r.uniq[q] = r.ids[i]
      BY <3>1
    <3> HIDE DEF q
    <3>3. PICK k \in DOMAIN r.tasks : q \in r.tasks[k].slice
      BY <1>3, <1>4, <3>2, TasksCover
    <3>4. b[q] = AddressOf(r.uniq[q])
      BY <1>1, <2>1, <3>3 DEF Sound
    <3> QED
      BY <3>2, <3>4 DEF q
  <2>3. /\ r2.ids = r.ids /\ r2.uniq = r.uniq /\ r2.tasks = r.tasks /\ r2.future = r.future
        /\ r2.state = "returned" /\ r2.awaited = r.awaited
        /\ r2.rows = [i \in DOMAIN r.ids |-> b[CHOOSE p \in DOMAIN r.uniq : r.uniq[p] = r.ids[i]]]
    BY <1>7 DEF CallRecord
  <2>4. r2.rows = [i \in DOMAIN r.ids |-> AddressOf(r.ids[i])]
    BY <2>2, <2>3
  <2>5. r2.rows \in Seq(Row)
    <3>1. DOMAIN r.ids = 1 .. Len(r.ids) /\ Len(r.ids) \in Nat /\ \A i \in DOMAIN r.ids : r.ids[i] \in Int
      BY <1>4, LenProperties
    <3>2. ASSUME NEW i \in DOMAIN r.ids PROVE AddressOf(r.ids[i]) \in Row
      <4>1. InRange(r.ids[i], Parts) /\ r.ids[i] \in Int
        BY <1>3, <3>1 DEF AllInRange
      <4>2. ShardOf(r.ids[i]) \in Nat /\ LocalOf(r.ids[i]) \in Nat
        BY <4>1, Addressed, ShardSizeSuffices, PartsAssumption DEF Shard
      <4> QED
        BY <4>2 DEF AddressOf, Row
    <3>3. r2.rows \in [1 .. Len(r.ids) -> Row]
      BY <2>4, <3>1, <3>2
    <3> QED
      BY <3>1, <3>3, FunctionIsSequence
  <2>6. r2 \in CallRecord
    <3> DEFINE new == [i \in DOMAIN r.ids |-> b[CHOOSE p \in DOMAIN r.uniq : r.uniq[p] = r.ids[i]]]
    <3>1. new \in Seq(Row)
      BY <2>3, <2>5
    <3>2. r2 = [r EXCEPT !.state = "returned", !.rows = new]
      BY <1>7
    <3> HIDE DEF new
    <3> QED
      BY <3>1, <3>2 DEF CallRecord
  <2>7. \A j : TaskFails(f, r2, j) <=> TaskFails(f, r, j)
    BY <2>3 DEF TaskFails
  <2>8. \A j \in DOMAIN r2.tasks : /\ r2.future[j] = "done"
                                   /\ ~TaskFails(f, r2, j)
                                   /\ \A p \in r2.tasks[j].slice : b[p] = AddressOf(r2.uniq[p])
    BY <1>1, <2>1, <2>3, <2>7 DEF Sound
  <2>9. /\ r2.awaited \in 1 .. Len(r2.future) + 1
        /\ \A j \in 1 .. r2.awaited - 1 : r2.future[j] = "done"
        /\ b \in Array(r2.uniq) /\ r2.future \in [DOMAIN r2.tasks -> FutureState]
    BY <2>3 DEF Sound
  <2>10. /\ r2.uniq = Uniq(r2.ids) /\ AllInRange(r2.ids) /\ r2.tasks = Tasks(r2.uniq)
         /\ r2.state = "returned" /\ r2.rows = [i \in DOMAIN r2.ids |-> AddressOf(r2.ids[i])]
    BY <1>3, <2>3, <2>4
  <2> QED
    BY <2>6, <2>8, <2>9, <2>10 DEF Sound
<1> QED
  BY <1>5, <1>6, <1>7
--------------------------------------------------------------------------------
LEMMA InitSound == Init => IInv
<1> SUFFICES ASSUME Init PROVE IInv
  OBVIOUS
<1>1. call = <<>> /\ buf = <<>> /\ Len(call) = 0 /\ Len(buf) = 0
  BY DEF Init
<1>2. call \in Seq(CallRecord) /\ buf \in Seq(UNION {Array(u) : u \in UniqSet})
  BY <1>1
<1> QED
  BY <1>1, <1>2 DEF Init, IInv

LEMMA SetupTableSound == ASSUME IInv, SetupTable PROVE IInv'
<1>1. /\ call' = call /\ buf' = buf /\ found' = found
      /\ table = "none" /\ table' = IF ValidLayout(found) THEN "open" ELSE "refused"
  BY DEF SetupTable
<1>2. call = <<>>
  BY <1>1 DEF IInv
<1>3. /\ table' \in {"none", "open", "refused"}
      /\ table' = "open" => ValidLayout(found')
  BY <1>1
<1> QED
  BY <1>1, <1>2, <1>3 DEF IInv, Array, UniqSet

(* What gather compares the ids with is the number of shards.              *)
LEMMA CountedShards ==
    ASSUME ValidLayout(found)
    PROVE  Max(DOMAIN found) + 1 = Parts
<1>1. DOMAIN found = 0 .. Parts - 1 /\ Parts - 1 \in 0 .. Parts - 1
  BY PartsAssumption DEF ValidLayout, Shard
<1>2. \A x \in 0 .. Parts - 1 : (\A y \in 0 .. Parts - 1 : x >= y) <=> x = Parts - 1
  BY <1>1, PartsAssumption
<1>3. Max(0 .. Parts - 1) = Parts - 1
  BY <1>1, <1>2 DEF Max
<1> QED
  BY <1>1, <1>3, PartsAssumption

(* A new call is sound.                                                    *)
LEMMA GatherSound ==
    ASSUME IInv, NEW ids \in Requests, Gather(ids)
    PROVE  IInv'
<1> DEFINE uniq == Uniq(ids)
           refused == ~AllInRange(ids)
           tasks == IF refused THEN <<>> ELSE Tasks(uniq)
           r == [ids |-> ids, uniq |-> uniq, tasks |-> tasks,
                 future |-> [k \in DOMAIN tasks |-> "pending"], awaited |-> 1, rows |-> <<>>,
                 state |-> CASE ids = <<>> -> "returned"
                             [] ids # <<>> /\ refused -> "raised"
                             [] OTHER -> "running"]
           b == [p \in DOMAIN uniq |-> Unwritten]
           A == UNION {Array(u) : u \in UniqSet}
<1>1. /\ table = "open" /\ ValidLayout(found) /\ UNCHANGED <<found, table>>
      /\ call \in Seq(CallRecord) /\ buf \in Seq(A) /\ Len(buf) = Len(call) /\ Len(call) \in Nat
  BY DEF Gather, IInv
<1>2. (\E i \in DOMAIN ids : ~InRange(ids[i], Max(DOMAIN found) + 1)) <=> refused
  BY <1>1, CountedShards DEF AllInRange
<1>3. call' = Append(call, r) /\ buf' = Append(buf, b)
  BY <1>2 DEF Gather
<1>4. ids \in Seq(Int)
  BY RequestsAssumption
<1>5. uniq \in UniqSet /\ tasks \in TaskLists
  BY DEF UniqSet, TaskLists
<1>6. PICK m \in Nat : DOMAIN tasks = 1 .. m
  <2>1. CASE ~refused
    BY <1>4, <2>1, TasksCover
  <2>2. CASE refused
    <3>1. tasks = <<>>
      BY <2>2
    <3> HIDE DEF tasks
    <3>2. DOMAIN tasks = 1 .. 0
      BY <3>1
    <3> QED
      BY <3>2
  <2> QED
    BY <2>1, <2>2
<1>7. b \in Array(uniq) /\ b \in A
  BY <1>5 DEF Array
<1>8. ids = <<>> => ~refused /\ DOMAIN ids = {} /\ <<>> = [i \in DOMAIN ids |-> AddressOf(ids[i])]
  BY DEF AllInRange
<1> DEFINE future == [k \in DOMAIN tasks |-> "pending"]
           state == CASE ids = <<>> -> "returned"
                      [] ids # <<>> /\ refused -> "raised"
                      [] OTHER -> "running"
<1>9. future \in [DOMAIN tasks -> FutureState] /\ future \in Seq(FutureState) /\ Len(future) = m
  <2>1. future \in [1 .. m -> FutureState]
    BY <1>6 DEF FutureState
  <2> HIDE DEF future
  <2> QED
    BY <1>6, <2>1, FunctionIsSequence
<1>10. \A k \in DOMAIN tasks : future[k] = "pending"
  OBVIOUS
<1>11. /\ state \in {"running", "raised", "returned"}
       /\ state = "returned" => ids = <<>>
       /\ state = "raised" => refused
       /\ state = "running" => ~refused
  OBVIOUS
<1>12. ids = <<>> => DOMAIN tasks = {}
  <2> SUFFICES ASSUME ids = <<>>, NEW k \in DOMAIN tasks PROVE FALSE
    OBVIOUS
  <2>1. PICK n \in Nat : /\ uniq \in [1 .. n -> Int]
                         /\ \A p \in 1 .. n : \E i \in DOMAIN ids : uniq[p] = ids[i]
    BY <1>4, UniqAscends
  <2>2. DOMAIN uniq = {}
    BY <1>8, <2>1
  <2> HIDE DEF uniq
  <2>3. Starts(uniq) = {}
    BY <2>2 DEF Starts
  <2>4. tasks = Tasks(uniq)
    BY <1>8
  <2>5. DOMAIN Sorted({}) = 1 .. 0
    BY FS_EmptySet DEF Sorted
  <2>6. DOMAIN Tasks(uniq) = DOMAIN Sorted(Starts(uniq))
    BY DEF Tasks
  <2> QED
    BY <2>3, <2>4, <2>5, <2>6
<1>13. r = [ids |-> ids, uniq |-> uniq, tasks |-> tasks, future |-> future,
            awaited |-> 1, rows |-> <<>>, state |-> state]
  OBVIOUS
<1>14. uniq = Uniq(ids) /\ tasks = IF AllInRange(ids) THEN Tasks(uniq) ELSE <<>>
  OBVIOUS
<1>15. ids = <<>> => AllInRange(ids)
  BY <1>8
<1>16. refused => ~AllInRange(ids)
  OBVIOUS
<1> HIDE DEF future, state, tasks, b, uniq, r, A
<1>17. r \in CallRecord
  <2>1. future \in UNION {[DOMAIN t -> FutureState] : t \in TaskLists}
    BY <1>5, <1>9
  <2> QED
    BY <1>5, <1>11, <1>13, <2>1 DEF CallRecord
<1>18. Sound(found, r, b)
  <2>1. /\ r.ids = ids /\ r.uniq = uniq /\ r.tasks = tasks /\ r.future = future
        /\ r.awaited = 1 /\ r.rows = <<>> /\ r.state = state
    BY <1>13
  <2>2. 1 \in 1 .. Len(future) + 1 /\ 1 .. 1 - 1 = {}
    BY <1>9
  <2>3. \A k \in DOMAIN tasks : future[k] # "done" /\ future[k] # "failed"
    BY <1>10
  <2>4. state = "returned" => /\ AllInRange(ids)
                              /\ DOMAIN tasks = {}
                              /\ <<>> = [i \in DOMAIN ids |-> AddressOf(ids[i])]
    BY <1>8, <1>11, <1>12
  <2>5. /\ state = "running" => AllInRange(ids)
        /\ state = "raised" => ~AllInRange(ids)
    BY <1>11
  <2> HIDE DEF refused
  <2> QED
    BY <1>7, <1>9, <1>14, <2>1, <2>2, <2>3, <2>4, <2>5 DEF Sound
<1>19. /\ call' \in Seq(CallRecord) /\ Len(call') = Len(call) + 1
       /\ \A c \in 1 .. Len(call) : call'[c] = call[c]
       /\ call'[Len(call) + 1] = r
  BY <1>1, <1>3, <1>17, AppendProperties
<1>20. /\ buf' \in Seq(A) /\ Len(buf') = Len(buf) + 1
       /\ \A c \in 1 .. Len(call) : buf'[c] = buf[c]
       /\ buf'[Len(call) + 1] = b
  BY <1>1, <1>3, <1>7, AppendProperties
<1>21. \A c \in 1 .. Len(call) + 1 : Sound(found, call'[c], buf'[c])
  <2>1. \A c \in 1 .. Len(call) : Sound(found, call[c], buf[c])
    BY DEF IInv
  <2>2. \A c \in 1 .. Len(call) + 1 : c \in 1 .. Len(call) \/ c = Len(call) + 1
    BY <1>1
  <2> QED
    BY <1>18, <1>19, <1>20, <2>1, <2>2
<1>22. A' = A
  BY DEF A, Array, UniqSet
<1>23. found' \in Layouts /\ table' = "open" /\ ValidLayout(found')
  BY <1>1 DEF IInv
<1> QED
  BY <1>1, <1>19, <1>20, <1>21, <1>22, <1>23 DEF IInv, A

(* The calls and their arrays, one by one.                                 *)
LEMMA EachCallSound ==
    ASSUME IInv
    PROVE  /\ Len(call) \in Nat /\ DOMAIN call = 1 .. Len(call)
           /\ \A c \in 1 .. Len(call) :
                 call[c] \in CallRecord /\ Sound(found, call[c], buf[c])
BY LenProperties, ElementOfSeq DEF IInv

(* A task of any call that runs on, or that the caller runs itself.        *)
LEMMA RunTaskSound ==
    ASSUME IInv, NEW c \in 1 .. Len(call), NEW k \in DOMAIN call[c].future, RunTask(c, k),
           \/ call[c].future[k] = "running"
           \/ call[c].future[k] = "pending" /\ call[c].state = "running"
    PROVE  IInv'
<1> DEFINE r == call[c]
           b == buf[c]
<1>1. r \in CallRecord /\ Sound(found, r, b) /\ k \in DOMAIN r.tasks
  BY EachCallSound DEF Sound
<1>2. Fails(c, k) <=> TaskFails(found, r, k)
  BY DEF Fails, LocalRow, Readable, TaskFails
<1>3. call' = [call EXCEPT ![c] = Ended(found, r, k)]
  BY <1>2 DEF RunTask, Ended
<1>4. buf' = [buf EXCEPT ![c] = Filled(found, r, b, k)]
  <2>1. buf \in Seq(UNION {Array(u) : u \in UniqSet}) /\ Len(buf) = Len(call)
    BY DEF IInv
  <2>2. c \in DOMAIN buf /\ buf = [d \in DOMAIN buf |-> buf[d]]
    BY <2>1
  <2>3. CASE Fails(c, k)
    BY <1>2, <2>2, <2>3 DEF RunTask, Filled
  <2>4. CASE ~Fails(c, k)
    BY <1>2, <2>4 DEF RunTask, Filled, LocalRow
  <2> QED
    BY <2>3, <2>4
<1>5. Ended(found, r, k) \in CallRecord /\ Sound(found, Ended(found, r, k), Filled(found, r, b, k))
  BY <1>1, TaskKeepsSound
<1>6. UNCHANGED <<found, table>>
  BY DEF RunTask
<1> HIDE DEF r, b
<1> QED
  BY <1>3, <1>4, <1>5, <1>6, CallChanges

LEMMA FinishSound ==
    ASSUME IInv, NEW c \in DOMAIN call, NEW k \in DOMAIN call[c].future, Finish(c, k)
    PROVE  IInv'
BY EachCallSound, RunTaskSound DEF Finish

LEMMA BusyCall ==
    ASSUME IInv, Busy
    PROVE  Now \in 1 .. Len(call) /\ call[Now].state = "running"
BY EachCallSound DEF Busy, Now

LEMMA RunInlineSound == ASSUME IInv, RunInline PROVE IInv'
<1>1. Now \in 1 .. Len(call) /\ call[Now].state = "running"
  BY BusyCall DEF RunInline
<1>2. call[Now] \in CallRecord /\ Sound(found, call[Now], buf[Now])
  BY <1>1, EachCallSound
<1>3. 1 \in DOMAIN call[Now].future
  <2>1. PICK m \in Nat : DOMAIN call[Now].future = 1 .. m /\ Len(call[Now].future) = m
    BY <1>2, CallShape
  <2> QED
    BY <2>1 DEF RunInline, Inline
<1> QED
  BY <1>1, <1>3, RunTaskSound DEF RunInline

LEMMA BeginSound == ASSUME IInv, Begin PROVE IInv'
<1> DEFINE r == call[Now]
           b == buf[Now]
           I == {i \in 1 .. Len(r.future) : r.future[i] = "pending"}
           k == IF I # {} THEN Min(I) ELSE 0
<1>1. Now \in 1 .. Len(call) /\ r.state = "running"
  BY BusyCall DEF Begin
<1>2. r \in CallRecord /\ Sound(found, r, b)
  BY <1>1, EachCallSound
<1>3. PICK m \in Nat : /\ DOMAIN r.tasks = 1 .. m /\ DOMAIN r.future = 1 .. m
                       /\ Len(r.future) = m
  BY <1>2, CallShape
<1>4. k # 0 /\ call' = [call EXCEPT ![Now].future[k] = "running"]
  BY DEF Begin, SelectInSeq
<1>5. k \in 1 .. m /\ r.future[k] = "pending"
  <2>1. I \in SUBSET (1 .. m) /\ I # {}
    BY <1>3, <1>4
  <2>2. IsFiniteSet(I) /\ I \in SUBSET Int
    <3>1. IsFiniteSet(1 .. m)
      BY FS_Interval
    <3>2. 1 .. m \in SUBSET Int
      OBVIOUS
    <3> HIDE DEF I
    <3>3. IsFiniteSet(I)
      BY <2>1, <3>1, FS_Subset
    <3> QED
      BY <2>1, <3>2, <3>3
  <2>3. Min(I) \in I
    <3> HIDE DEF I
    <3> QED
      BY <2>1, <2>2, LeastMember
  <2>4. k = Min(I)
    BY <2>1
  <2> QED
    BY <2>1, <2>3, <2>4
<1> HIDE DEF k
<1>6. call' = [call EXCEPT ![Now] = [r EXCEPT !.future = [@ EXCEPT ![k] = "running"]]]
  BY <1>4
<1>7. buf' = [buf EXCEPT ![Now] = b] /\ UNCHANGED <<found, table>>
  <2>1. buf \in Seq(UNION {Array(u) : u \in UniqSet})
    BY DEF IInv
  <2>2. buf = [d \in DOMAIN buf |-> buf[d]]
    BY <2>1
  <2>3. [buf EXCEPT ![Now] = buf[Now]] = buf
    BY <2>2
  <2> QED
    BY <2>3 DEF Begin
<1>8. [r EXCEPT !.future = [@ EXCEPT ![k] = "running"]] \in CallRecord
  BY <1>1, <1>2, <1>3, <1>5, BeginKeepsSound
<1>9. Sound(found, [r EXCEPT !.future = [@ EXCEPT ![k] = "running"]], b)
  BY <1>1, <1>2, <1>3, <1>5, BeginKeepsSound
<1> HIDE DEF r, b
<1> QED
  BY <1>1, <1>6, <1>7, <1>8, <1>9, CallChanges

LEMMA AwaitSound == ASSUME IInv, Await PROVE IInv'
<1> DEFINE r == call[Now]
           b == buf[Now]
           r1 == [r EXCEPT !.awaited = r.awaited + 1]
           r2 == [r EXCEPT !.state = "raised",
                           !.future = [k \in DOMAIN r.future |->
                               IF r.future[k] = "pending" THEN "cancelled" ELSE r.future[k]]]
           r3 == [r EXCEPT !.state = "returned",
                           !.rows = [i \in DOMAIN r.ids |->
                               b[CHOOSE p \in DOMAIN r.uniq : r.uniq[p] = r.ids[i]]]]
<1>1. Now \in 1 .. Len(call) /\ r.state = "running"
  BY BusyCall DEF Await
<1>2. r \in CallRecord /\ Sound(found, r, b) /\ Now \in Nat
  BY <1>1, EachCallSound
<1>3. PICK m \in Nat : Len(r.future) = m
  BY <1>2, CallShape
<1>4. r.awaited \in Nat
  BY <1>2 DEF CallRecord
<1>5. buf' = [buf EXCEPT ![Now] = b] /\ UNCHANGED <<found, table>>
  <2>1. buf \in Seq(UNION {Array(u) : u \in UniqSet})
    BY DEF IInv
  <2>2. buf = [d \in DOMAIN buf |-> buf[d]]
    BY <2>1
  <2>3. [buf EXCEPT ![Now] = buf[Now]] = buf
    BY <2>2
  <2> QED
    BY <2>3 DEF Await
<1>6. CASE r.awaited <= Len(r.future) /\ r.future[r.awaited] = "done"
           /\ call' = [call EXCEPT ![Now].awaited = r.awaited + 1]
  <2>1. call' = [call EXCEPT ![Now] = r1]
    BY <1>6
  <2>2. r1 \in CallRecord /\ Sound(found, r1, b)
    BY <1>1, <1>2, <1>6, AwaitKeepsSound
  <2> HIDE DEF r, b, r1
  <2> QED
    BY <1>1, <1>5, <2>1, <2>2, CallChanges
<1>7. CASE r.awaited <= Len(r.future) /\ r.future[r.awaited] = "failed"
           /\ call' = [call EXCEPT ![Now].state = "raised",
                                   ![Now].future = [k \in DOMAIN r.future |->
                                       IF r.future[k] = "pending" THEN "cancelled" ELSE r.future[k]]]
  <2>1. call' = [call EXCEPT ![Now] = r2]
    BY <1>7
  <2>2. r2 \in CallRecord /\ Sound(found, r2, b)
    BY <1>1, <1>2, <1>7, AwaitKeepsSound
  <2> HIDE DEF r, b, r2
  <2> QED
    BY <1>1, <1>5, <2>1, <2>2, CallChanges
<1>8. CASE r.awaited > Len(r.future)
           /\ call' = [call EXCEPT ![Now].state = "returned", ![Now].rows = Scattered(Now)]
  <2>1. call' = [call EXCEPT ![Now] = r3]
    BY <1>8 DEF Scattered
  <2>2. r3 \in CallRecord /\ Sound(found, r3, b)
    BY <1>1, <1>2, <1>8, AwaitKeepsSound
  <2> HIDE DEF r, b, r3
  <2> QED
    BY <1>1, <1>5, <2>1, <2>2, CallChanges
<1> QED
  BY <1>6, <1>7, <1>8 DEF Await

LEMMA IInvInductive == IInv /\ [Next]_vars => IInv'
<1> SUFFICES ASSUME IInv, [Next]_vars PROVE IInv'
  OBVIOUS
<1>1. CASE UNCHANGED vars
  BY <1>1 DEF IInv, vars, Array, UniqSet
<1>2. CASE SetupTable
  BY <1>2, SetupTableSound
<1>3. ASSUME NEW ids \in Requests, Gather(ids) PROVE IInv'
  BY <1>3, GatherSound
<1>4. CASE Begin
  BY <1>4, BeginSound
<1>5. ASSUME NEW c \in DOMAIN call, NEW k \in DOMAIN call[c].future, Finish(c, k) PROVE IInv'
  BY <1>5, FinishSound
<1>6. CASE RunInline
  BY <1>6, RunInlineSound
<1>7. CASE Await
  BY <1>7, AwaitSound
<1> QED
  BY <1>1, <1>2, <1>3, <1>4, <1>5, <1>6, <1>7 DEF Next

LEMMA AlwaysSound == Spec => []IInv
BY InitSound, IInvInductive, PTL DEF Spec
--------------------------------------------------------------------------------
(* What a call has asked for when it returns are rows of the vocabulary.   *)
LEMMA ReturnedAreKnown ==
    ASSUME IInv, NEW c \in 1 .. Len(call), Returned(c), NEW i \in DOMAIN call[c].ids
    PROVE  call[c].ids[i] \in RowId
<1> DEFINE r == call[c]
           id == r.ids[i]
<1>1. r \in CallRecord /\ Sound(found, r, buf[c]) /\ r.state = "returned"
  BY EachCallSound DEF Returned
<1>2. r.ids \in Seq(Int) /\ AllInRange(r.ids) /\ r.uniq = Uniq(r.ids) /\ r.tasks = Tasks(r.uniq)
  BY <1>1, RequestsAssumption DEF CallRecord, Sound
<1>3. id \in Int /\ InRange(id, Parts)
  BY <1>2 DEF AllInRange
<1>4. PICK p \in DOMAIN r.uniq : r.uniq[p] = id
  <2>1. PICK n \in Nat :
           /\ Uniq(r.ids) \in [1 .. n -> Int]
           /\ \A j \in DOMAIN r.ids : \E p \in 1 .. n : Uniq(r.ids)[p] = r.ids[j]
    BY <1>2, UniqAscends
  <2> QED
    BY <1>2, <2>1
<1>5. PICK k \in DOMAIN r.tasks : p \in r.tasks[k].slice /\ ShardOf(r.uniq[p]) = r.tasks[k].shard
  BY <1>2, <1>4, TasksCover
<1>6. ~TaskFails(found, r, k)
  BY <1>1, <1>5 DEF Sound
<1>7. 0 <= LocalOf(id) /\ LocalOf(id) < found[ShardOf(id)]
  BY <1>4, <1>5, <1>6 DEF TaskFails, LocalOf
<1>8. ValidLayout(found)
  BY EachCallSound DEF IInv
<1>9. ShardOf(id) \in Shard /\ LocalOf(id) \in 0 .. ShardSize - 1 /\ ShardSize \in Nat
  BY <1>3, Addressed, ShardSizeSuffices
<1>10. found[ShardOf(id)] \in Int
  BY <1>8, <1>9, ShardSizeSuffices, VocabAssumption, PartsAssumption
     DEF ValidLayout, ExpectedRows, Greatest, Least, Shard
<1>11. LocalOf(id) \in 0 .. found[ShardOf(id)] - 1
  BY <1>7, <1>9, <1>10
<1> QED
  BY <1>3, <1>8, <1>11, RowsWhereTheyAreRead

(* The state keeps its types, and no array is returned with a row that no  *)
(* worker has written.                                                     *)
THEOREM GatherTypeCorrect == Spec => []TypeOK
<1>1. IInv => TypeOK
  <2> SUFFICES ASSUME IInv, NEW c \in 1 .. Len(call)
               PROVE  /\ call[c].ids \in Requests
                      /\ ToSet(call[c].future) \subseteq
                            {"pending", "running", "done", "failed", "cancelled"}
                      /\ call[c].awaited \in 1 .. Len(call[c].future) + 1
                      /\ call[c].state \in {"running", "raised", "returned"}
                      /\ call[c].rows \in Seq(Row)
    BY EachCallSound DEF TypeOK, IInv
  <2>1. call[c] \in CallRecord /\ Sound(found, call[c], buf[c])
    BY EachCallSound
  <2>2. ToSet(call[c].future) \subseteq FutureState
    BY <2>1 DEF Sound, ToSet
  <2> QED
    BY <2>1, <2>2 DEF CallRecord, Sound, FutureState
<1> QED
  BY <1>1, AlwaysSound, PTL

(* What gather returns is the table's row for every id, in the order of    *)
(* the ids, for every vocabulary, number of shards, chunk and number of    *)
(* workers, and whatever tasks of earlier calls still run.                 *)
THEOREM GatherIsExact == Spec => []GatheredRows
<1>1. IInv => GatheredRows
  <2> SUFFICES ASSUME IInv, NEW c \in 1 .. Len(call), Returned(c)
               PROVE  /\ Len(call[c].rows) = Len(call[c].ids)
                      /\ \A i \in DOMAIN call[c].ids : call[c].rows[i] = RowOf(call[c].ids[i])
    BY EachCallSound DEF GatheredRows
  <2> DEFINE r == call[c]
  <2>1. r \in CallRecord /\ Sound(found, r, buf[c]) /\ r.state = "returned"
    BY EachCallSound DEF Returned
  <2>2. r.rows = [i \in DOMAIN r.ids |-> AddressOf(r.ids[i])]
    BY <2>1 DEF Sound
  <2>3. \A i \in DOMAIN r.ids : AddressOf(r.ids[i]) = RowOf(r.ids[i]) /\ AddressOf(r.ids[i]) \in Row
    BY ReturnedAreKnown, RowIsAddress
  <2>4. r.ids \in Seq(Int)
    BY <2>1, RequestsAssumption DEF CallRecord
  <2>5. DOMAIN r.ids = 1 .. Len(r.ids) /\ Len(r.ids) \in Nat
    BY <2>4, LenProperties
  <2>6. r.rows \in [1 .. Len(r.ids) -> Row]
    BY <2>2, <2>3, <2>5
  <2> HIDE DEF r
  <2>7. Len(r.rows) = Len(r.ids)
    BY <2>5, <2>6, FunctionIsSequence
  <2> QED
    BY <2>2, <2>3, <2>7 DEF r
<1> QED
  BY <1>1, AlwaysSound, PTL

(* No call returns rows for an id that is none: not below the table, not   *)
(* above it, and not in the gap behind the last row.                       *)
THEOREM StrangersRaise == Spec => []UnknownIdsRaise
<1>1. IInv => UnknownIdsRaise
  BY EachCallSound, ReturnedAreKnown DEF UnknownIdsRaise, ToSet
<1> QED
  BY <1>1, AlwaysSound, PTL

(* A checkpoint that was let in serves every row: no call for known ids    *)
(* raises, whatever other calls fail.                                      *)
THEOREM KnownAreServed == Spec => []KnownIdsServed
<1>1. IInv => KnownIdsServed
  <2> SUFFICES ASSUME IInv, NEW c \in 1 .. Len(call), ToSet(call[c].ids) \subseteq RowId,
                      call[c].state = "raised"
               PROVE  FALSE
    BY EachCallSound DEF KnownIdsServed
  <2> DEFINE r == call[c]
  <2>1. r \in CallRecord /\ Sound(found, r, buf[c])
    BY EachCallSound
  <2>2. r.ids \in Seq(Int) /\ \A i \in DOMAIN r.ids : r.ids[i] \in RowId
    BY <2>1, RequestsAssumption DEF CallRecord, ToSet
  <2>3. AllInRange(r.ids)
    BY <2>2, KnownIdsInRange DEF AllInRange
  <2>4. PICK k \in DOMAIN r.tasks : TaskFails(found, r, k)
    BY <2>1, <2>3 DEF Sound
  <2>5. r.uniq = Uniq(r.ids) /\ r.tasks = Tasks(r.uniq)
    BY <2>1, <2>3 DEF Sound
  <2>6. /\ r.tasks[k].slice \subseteq DOMAIN r.uniq /\ r.tasks[k].slice # {}
        /\ \A p \in r.tasks[k].slice : ShardOf(r.uniq[p]) = r.tasks[k].shard
    BY <2>2, <2>3, <2>5, TasksCover
  <2>7. ValidLayout(found)
    BY EachCallSound DEF IInv
  <2>8. ASSUME NEW p \in r.tasks[k].slice
        PROVE  /\ r.tasks[k].shard \in DOMAIN found
               /\ r.uniq[p] - r.tasks[k].shard * ShardSize \in 0 .. found[r.tasks[k].shard] - 1
    <3>1. PICK n \in Nat :
             /\ Uniq(r.ids) \in [1 .. n -> Int]
             /\ \A q \in 1 .. n : \E i \in DOMAIN r.ids : Uniq(r.ids)[q] = r.ids[i]
      BY <2>2, UniqAscends
    <3>2. r.uniq[p] \in RowId
      BY <2>2, <2>5, <2>6, <3>1
    <3>3. r.uniq[p] \in Int /\ InRange(r.uniq[p], Parts)
      BY <3>2, KnownIdsInRange DEF RowId
    <3>4. /\ ShardOf(r.uniq[p]) \in DOMAIN found
          /\ LocalOf(r.uniq[p]) \in 0 .. found[ShardOf(r.uniq[p])] - 1
      BY <2>7, <3>2, <3>3, RowsWhereTheyAreRead
    <3> QED
      BY <2>6, <3>4 DEF LocalOf
  <2>9. r.tasks[k].shard \in Shard
    BY <2>6, <2>7, <2>8 DEF ValidLayout
  <2>10. found[r.tasks[k].shard] \in Int
    BY <2>7, <2>9, ShardSizeSuffices, VocabAssumption, PartsAssumption
       DEF ValidLayout, ExpectedRows, Greatest, Least, Shard
  <2>11. ~TaskFails(found, r, k)
    BY <2>6, <2>8, <2>10 DEF TaskFails
  <2> QED
    BY <2>4, <2>11
<1> QED
  BY <1>1, AlwaysSound, PTL
================================================================================
