--------------------------- MODULE SubsetWriterProofs ---------------------------
(***************************************************************************)
(* What write_subset leaves behind, for any files, requests, calls, buffer *)
(* and number of faults.                                                   *)
(*                                                                         *)
(* First what the pure parts compute: sorted(), the contiguity check of    *)
(* read_header, the running sum of the offsets.  Then the inductive        *)
(* invariant IInv, one lemma for each action, and the theorems.            *)
(***************************************************************************)
EXTENDS SubsetWriter, FiniteSetTheorems, FunctionTheorems, SequenceTheorems,
        WellFoundedInduction, TLAPS

(* Induction, as the least counterexample.                                 *)
LEMMA LeastOf ==
    ASSUME NEW T \in SUBSET Nat, T # {}
    PROVE  \E x \in T : \A y \in T : x <= y
<1> DEFINE R == OpToRel(<, Nat)
<1>1. IsWellFoundedOn(R, Nat)
  BY NatLessThanWellFounded
<1>2. \A x, y \in Nat : y < x => <<y, x>> \in R
  BY DEF OpToRel
<1> HIDE DEF R
<1>3. PICK x \in T : \A y \in T : ~(<<y, x>> \in R)
  BY <1>1, WFMin, Zenon
<1>4. ASSUME NEW y \in T PROVE x <= y
  <2>1. x \in Nat /\ y \in Nat /\ ~(y < x)
    BY <1>2, <1>3
  <2> QED
    BY <2>1
<1> QED
  BY <1>4

Place(n, below, p) == CHOOSE i \in 1 .. n : Cardinality(below[i]) = p - 1

(* The places of a strict order on 1 .. n: what below[i] counts is where i *)
(* stands.                                                                 *)
LEMMA PlacesInOrder ==
    ASSUME NEW n \in Nat, NEW below \in [1 .. n -> SUBSET (1 .. n)],
           \A i \in 1 .. n : i \notin below[i],
           \A i, j \in 1 .. n : i \in below[j] => below[i] \subseteq below[j],
           \A i, j \in 1 .. n : i # j => i \in below[j] \/ j \in below[i]
    PROVE  /\ \A p \in 1 .. n : Place(n, below, p) \in 1 .. n
           /\ \A p, q \in 1 .. n : p < q => Place(n, below, p) \in below[Place(n, below, q)]
           /\ \A i \in 1 .. n : \E p \in 1 .. n : Place(n, below, p) = i
<1> DEFINE rank == [i \in 1 .. n |-> Cardinality(below[i]) + 1]
           place(p) == Place(n, below, p)
<1>1. IsFiniteSet(1 .. n) /\ Cardinality(1 .. n) = n
  BY FS_Interval
<1>2. ASSUME NEW i \in 1 .. n
      PROVE  IsFiniteSet(below[i]) /\ Cardinality(below[i]) \in Nat /\ rank[i] \in 1 .. n
  <2>1. below[i] \in SUBSET (1 .. n) /\ below[i] # 1 .. n
    OBVIOUS
  <2>2. IsFiniteSet(below[i]) /\ Cardinality(below[i]) <= n /\ Cardinality(below[i]) # n
    BY <1>1, <2>1, FS_Subset
  <2>3. Cardinality(below[i]) \in Nat
    BY <2>2, FS_CardinalityType
  <2> QED
    BY <2>2, <2>3
<1>3. ASSUME NEW i \in 1 .. n, NEW j \in 1 .. n, i \in below[j] PROVE rank[i] < rank[j]
  <2>1. below[i] \in SUBSET below[j] /\ below[i] # below[j]
    BY <1>3
  <2>2. Cardinality(below[i]) <= Cardinality(below[j]) /\ Cardinality(below[i]) # Cardinality(below[j])
    BY <1>2, <2>1, FS_Subset
  <2> QED
    BY <1>2, <2>2
<1>4. rank \in Injection(1 .. n, 1 .. n)
  <2>1. rank \in [1 .. n -> 1 .. n]
    BY <1>2
  <2>2. ASSUME NEW i \in 1 .. n, NEW j \in 1 .. n, i # j PROVE rank[i] # rank[j]
    <3>1. rank[i] < rank[j] \/ rank[j] < rank[i]
      BY <1>3, <2>2
    <3>2. rank[i] \in 1 .. n /\ rank[j] \in 1 .. n
      BY <2>1
    <3> HIDE DEF rank
    <3> QED
      BY <3>1, <3>2
  <2> HIDE DEF rank
  <2> QED
    BY <2>1, <2>2, Fun_IsInj
<1>5. rank \in Surjection(1 .. n, 1 .. n)
  <2> HIDE DEF rank
  <2> QED
    BY <1>1, <1>4, FS_Injection
<1>6. ASSUME NEW p \in 1 .. n PROVE place(p) \in 1 .. n /\ rank[place(p)] = p
  <2>1. \E i \in 1 .. n : rank[i] = p
    <3> DEFINE D == 1 .. n
    <3>1. rank \in Surjection(D, D) /\ p \in D
      BY <1>5
    <3> HIDE DEF rank, D
    <3>2. \E i \in D : rank[i] = p
      BY <3>1 DEF Surjection
    <3> QED
      BY <3>2 DEF D
  <2>2. PICK i \in 1 .. n : Cardinality(below[i]) + 1 = p
    BY <2>1
  <2>3. place(p) \in 1 .. n /\ Cardinality(below[place(p)]) = p - 1
    <3> DEFINE c == Cardinality(below[i])
    <3>1. c \in Nat /\ c + 1 = p
      BY <1>2, <2>2
    <3> HIDE DEF c
    <3>2. c = p - 1
      BY <3>1
    <3>3. \E x \in 1 .. n : Cardinality(below[x]) = p - 1
      BY <3>2 DEF c
    <3> QED
      BY <3>3 DEF Place
  <2> HIDE DEF place
  <2>4. Cardinality(below[place(p)]) \in Nat
    BY <1>2, <2>3
  <2>5. Cardinality(below[place(p)]) + 1 = p
    <3> DEFINE c == Cardinality(below[place(p)])
    <3>1. c \in Nat /\ c = p - 1
      BY <2>3, <2>4
    <3> HIDE DEF c
    <3>2. c + 1 = p
      BY <3>1
    <3> QED
      BY <3>2 DEF c
  <2> QED
    BY <2>3, <2>5
<1> HIDE DEF place
<1>7. ASSUME NEW p \in 1 .. n, NEW q \in 1 .. n, p < q PROVE place(p) \in below[place(q)]
  <2>1. place(p) \in 1 .. n /\ place(q) \in 1 .. n /\ rank[place(p)] = p /\ rank[place(q)] = q
    BY <1>6
  <2> HIDE DEF rank
  <2>2. place(p) # place(q) /\ ~(rank[place(q)] < rank[place(p)])
    BY <1>7, <2>1
  <2> QED
    BY <1>3, <2>1, <2>2
<1>8. ASSUME NEW i \in 1 .. n PROVE \E p \in 1 .. n : place(p) = i
  <2>1. rank[i] \in 1 .. n
    BY <1>2
  <2>2. place(rank[i]) \in 1 .. n /\ rank[place(rank[i])] = rank[i]
    BY <1>6, <2>1
  <2> HIDE DEF rank
  <2>3. place(rank[i]) = i
    BY <1>4, <2>2, Fun_InjectionProperties
  <2> QED
    BY <2>1, <2>3
<1> QED
  BY <1>6, <1>7, <1>8 DEF place

Ascends(s) == \A i, j \in DOMAIN s : i < j => s[i].name < s[j].name

(* Two sequences that have the same members, both in ascending order of    *)
(* name, are equal: at the first place where they differ, the smaller one  *)
(* of the two is in the other sequence nowhere.                            *)
LEMMA AscendingUnique ==
    ASSUME NEW S, NEW s \in Seq(S), NEW t \in Seq(S),
           \A x \in S : x.name \in Nat,
           Ascends(s), Ascends(t), ToSet(s) = ToSet(t)
    PROVE  s = t
<1> DEFINE n == Len(s)
           m == Len(t)
<1>1. n \in Nat /\ m \in Nat /\ DOMAIN s = 1 .. n /\ DOMAIN t = 1 .. m
  BY LenProperties
<1>2. /\ \A i \in 1 .. n : s[i].name \in Nat
      /\ \A i \in 1 .. m : t[i].name \in Nat
  BY ElementOfSeq
<1>3. /\ \A i, j \in 1 .. n : i < j => s[i].name < s[j].name
      /\ \A i, j \in 1 .. m : i < j => t[i].name < t[j].name
  BY <1>1 DEF Ascends
<1>4. ASSUME NEW i \in 1 .. n PROVE \E j \in 1 .. m : t[j] = s[i]
  BY <1>1 DEF ToSet
<1>5. ASSUME NEW i \in 1 .. m PROVE \E j \in 1 .. n : s[j] = t[i]
  BY <1>1 DEF ToSet
<1> HIDE DEF n, m
<1>6. ASSUME NEW k \in Nat, k <= n \/ k <= m, k # 0,
             \A i \in 1 .. k - 1 : i \in 1 .. n /\ i \in 1 .. m /\ s[i] = t[i]
      PROVE  k \in 1 .. n /\ k \in 1 .. m /\ s[k] = t[k]
  <2>1. ASSUME NEW i \in 1 .. n, NEW j \in 1 .. m, k <= i, s[i] = t[j]
        PROVE  k <= j
    <3>1. j \in 1 .. k - 1 => s[j] = t[j] /\ j \in 1 .. n /\ s[j].name < s[i].name
      BY <1>1, <1>3, <1>6, <2>1
    <3> QED
      BY <1>1, <1>2, <2>1, <3>1
  <2>2. ASSUME NEW i \in 1 .. n, NEW j \in 1 .. m, k <= j, s[i] = t[j]
        PROVE  k <= i
    <3>1. i \in 1 .. k - 1 => s[i] = t[i] /\ i \in 1 .. m /\ t[i].name < t[j].name
      BY <1>1, <1>3, <1>6, <2>2
    <3> QED
      BY <1>1, <1>2, <2>2, <3>1
  <2>3. k \in 1 .. n /\ k \in 1 .. m
    <3>1. CASE k <= n
      <4>1. PICK j \in 1 .. m : t[j] = s[k]
        BY <1>1, <1>4, <1>6, <3>1
      <4>2. k <= j
        BY <1>1, <1>6, <2>1, <3>1, <4>1
      <4> QED
        BY <1>1, <1>6, <3>1, <4>2
    <3>2. CASE k <= m
      <4>1. PICK j \in 1 .. n : s[j] = t[k]
        BY <1>1, <1>5, <1>6, <3>2
      <4>2. k <= j
        BY <1>1, <1>6, <2>2, <3>2, <4>1
      <4> QED
        BY <1>1, <1>6, <3>2, <4>2
    <3> QED
      BY <1>6, <3>1, <3>2
  <2>4. PICK i \in 1 .. n : s[i] = t[k]
    BY <1>5, <2>3
  <2>5. PICK j \in 1 .. m : t[j] = s[k]
    BY <1>4, <2>3
  <2>6. k <= i /\ k <= j
    BY <1>1, <2>1, <2>2, <2>3, <2>4, <2>5
  <2>7. k = i \/ s[k].name < s[i].name
    BY <1>1, <1>3, <2>3, <2>6
  <2>8. k = j \/ t[k].name < t[j].name
    BY <1>1, <1>3, <2>3, <2>6
  <2> QED
    BY <1>2, <2>3, <2>4, <2>5, <2>7, <2>8
<1> DEFINE Bad == {k \in Nat : k # 0 /\ (k <= n \/ k <= m) /\ ~(k \in 1 .. n /\ k \in 1 .. m /\ s[k] = t[k])}
<1>7. Bad = {}
  <2> SUFFICES ASSUME Bad # {} PROVE FALSE
    OBVIOUS
  <2>1. PICK k \in Bad : \A y \in Bad : k <= y
    <3>1. Bad \in SUBSET Nat
      OBVIOUS
    <3> HIDE DEF Bad
    <3> QED
      BY <3>1, LeastOf
  <2>2. k \in Nat /\ k # 0 /\ (k <= n \/ k <= m)
    OBVIOUS
  <2>3. ASSUME NEW i \in 1 .. k - 1 PROVE i \in 1 .. n /\ i \in 1 .. m /\ s[i] = t[i]
    <3>1. i \in Nat /\ i # 0 /\ (i <= n \/ i <= m) /\ ~(k <= i)
      BY <1>1, <2>2
    <3>2. i \notin Bad
      BY <2>1, <3>1
    <3> QED
      BY <3>1, <3>2
  <2>4. k \in 1 .. n /\ k \in 1 .. m /\ s[k] = t[k]
    BY <1>6, <2>2, <2>3
  <2> QED
    BY <2>4
<1>8. ASSUME NEW k \in Nat, k # 0, k <= n \/ k <= m PROVE k <= n /\ k <= m /\ s[k] = t[k]
  <2>1. k \notin Bad
    BY <1>7
  <2> QED
    BY <1>1, <1>8, <2>1
<1>9. n = m /\ \A i \in 1 .. n : s[i] = t[i]
  <2> HIDE DEF Bad
  <2>1. n <= m
    BY <1>1, <1>8
  <2>2. m <= n
    BY <1>1, <1>8
  <2> QED
    BY <1>1, <1>8, <2>1, <2>2
<1> QED
  BY <1>9, SeqEqual DEF n, m
--------------------------------------------------------------------------------
Span == {m \in [dtype : STRING, bytes : Nat, from : Nat, to : Nat] : m.from <= m.to}
Items == [name : Nat, path : Paths, meta : Span]

(* The size of an item is not negative.                                    *)
LEMMA SizeIsNat == \A x \in Items : Size(x) \in Nat
BY DEF Size, Items, Span

(* Offsets is a running sum: the recursion has a solution on every 0 .. n. *)
LEMMA OffsetsSum ==
    ASSUME NEW items \in Seq(Items)
    PROVE  /\ Offsets(items) \in [0 .. Len(items) -> Nat]
           /\ Offsets(items)[0] = 0
           /\ \A i \in 1 .. Len(items) : Offsets(items)[i] = Offsets(items)[i - 1] + Size(items[i])
<1> DEFINE n == Len(items)
           size == [i \in 1 .. n |-> Size(items[i])]
           Solves(g, k) == g = [i \in 0 .. k |-> IF i = 0 THEN 0 ELSE g[i - 1] + size[i]]
           Sum(g, k) == /\ g \in [0 .. k -> Nat]
                        /\ g[0] = 0
                        /\ \A i \in 1 .. k : g[i] = g[i - 1] + size[i]
<1>1. n \in Nat /\ size \in [1 .. n -> Nat]
  BY LenProperties, ElementOfSeq, SizeIsNat
<1> HIDE DEF n, size
<1>2. ASSUME NEW k \in 0 .. n PROVE \E g : Sum(g, k)
  <2> DEFINE Bad == {j \in Nat : j <= n /\ ~\E g : Sum(g, j)}
  <2>1. Bad = {}
    <3> SUFFICES ASSUME Bad # {} PROVE FALSE
      OBVIOUS
    <3>1. PICK j \in Bad : \A y \in Bad : j <= y
      <4>1. Bad \in SUBSET Nat
        OBVIOUS
      <4> HIDE DEF Bad
      <4> QED
        BY <4>1, LeastOf
    <3>2. j \in Nat /\ j <= n /\ ~\E g : Sum(g, j)
      OBVIOUS
    <3>3. j # 0
      <4> DEFINE g == [i \in 0 .. 0 |-> 0]
      <4>1. Sum(g, 0)
        OBVIOUS
      <4> HIDE DEF Sum, g
      <4> QED
        BY <3>2, <4>1
    <3>4. PICK g : Sum(g, j - 1)
      <4>1. j - 1 \in Nat /\ j - 1 <= n /\ ~(j <= j - 1)
        BY <1>1, <3>2, <3>3
      <4>2. j - 1 \notin Bad
        BY <3>1, <4>1
      <4> HIDE DEF Sum
      <4> QED
        BY <4>1, <4>2
    <3> DEFINE h == [i \in 0 .. j |-> IF i = j THEN g[j - 1] + size[j] ELSE g[i]]
    <3>5. Sum(h, j)
      <4>1. j \in 1 .. n /\ size[j] \in Nat /\ j - 1 \in 0 .. j - 1 /\ g[j - 1] \in Nat
        BY <1>1, <3>2, <3>3, <3>4
      <4>2. h \in [0 .. j -> Nat] /\ h[0] = 0
        BY <3>2, <3>3, <3>4, <4>1
      <4>3. ASSUME NEW i \in 1 .. j PROVE h[i] = h[i - 1] + size[i]
        <5>1. CASE i = j
          BY <3>2, <3>3, <5>1
        <5>2. CASE i # j
          <6>1. i \in 1 .. j - 1 /\ i - 1 \in 0 .. j /\ i \in 0 .. j /\ i - 1 # j
            BY <3>2, <5>2
          <6> QED
            BY <3>4, <5>2, <6>1
        <5> QED
          BY <5>1, <5>2
      <4> QED
        BY <4>2, <4>3
    <3> HIDE DEF Sum, h
    <3> QED
      BY <3>2, <3>5
  <2>2. k \in Nat /\ k <= n
    BY <1>1
  <2> HIDE DEF Sum
  <2> QED
    BY <2>1, <2>2
<1>3. ASSUME NEW g, Sum(g, n) PROVE Solves(g, n)
  <2>1. g = [i \in 0 .. n |-> g[i]]
    BY <1>3
  <2>2. \A i \in 0 .. n : g[i] = IF i = 0 THEN 0 ELSE g[i - 1] + size[i]
    BY <1>1, <1>3
  <2> QED
    BY <2>1, <2>2
<1>4. ASSUME NEW g, Solves(g, n) PROVE Sum(g, n)
  <2>1. \A i \in 0 .. n : g[i] = IF i = 0 THEN 0 ELSE g[i - 1] + size[i]
    BY <1>4
  <2>2. g[0] = 0 /\ \A i \in 1 .. n : g[i] = g[i - 1] + size[i]
    BY <1>1, <2>1
  <2> DEFINE Bad == {j \in Nat : j <= n /\ g[j] \notin Nat}
  <2>3. Bad = {}
    <3> SUFFICES ASSUME Bad # {} PROVE FALSE
      OBVIOUS
    <3>1. PICK j \in Bad : \A y \in Bad : j <= y
      <4>1. Bad \in SUBSET Nat
        OBVIOUS
      <4> HIDE DEF Bad
      <4> QED
        BY <4>1, LeastOf
    <3>2. j \in Nat /\ j <= n /\ g[j] \notin Nat /\ j # 0
      BY <2>2
    <3>3. j - 1 \in Nat /\ j - 1 <= n /\ ~(j <= j - 1) /\ j \in 1 .. n
      BY <1>1, <3>2
    <3>4. g[j - 1] \in Nat
      BY <3>1, <3>3
    <3> QED
      BY <1>1, <2>2, <3>2, <3>3, <3>4, SMTT(30)
  <2>4. \A i \in 0 .. n : g[i] \in Nat
    BY <1>1, <2>3
  <2> QED
    BY <1>4, <2>2, <2>4
<1>5. \E g : Solves(g, n)
  <2>1. n \in 0 .. n
    BY <1>1
  <2> HIDE DEF Sum, Solves
  <2> QED
    BY <1>2, <1>3, <2>1
<1>6. Solves(CHOOSE g : Solves(g, n), n)
  <2> HIDE DEF Solves
  <2> QED
    BY <1>5
<1>7. Offsets(items) = CHOOSE g : Solves(g, n)
  <2>1. \A g : Solves(g, n) <=> g = [i \in 0 .. n |-> IF i = 0 THEN 0 ELSE g[i - 1] + Size(items[i])]
    <3> SUFFICES \A i \in 0 .. n : i # 0 => size[i] = Size(items[i])
      OBVIOUS
    <3> QED
      BY <1>1 DEF size
  <2> QED
    BY <2>1 DEF Offsets, n
<1>8. Sum(Offsets(items), n)
  <2> HIDE DEF Solves, Sum
  <2> QED
    BY <1>4, <1>6, <1>7
<1> QED
  BY <1>8 DEF n, size

(* The tensors lie one after the other, and each byte of the data belongs  *)
(* to one of them.                                                         *)
LEMMA OffsetsTile ==
    ASSUME NEW items \in Seq(Items)
    PROVE  /\ \A i, j \in 0 .. Len(items) : i <= j => Offsets(items)[i] <= Offsets(items)[j]
           /\ \A k \in 1 .. Offsets(items)[Len(items)] : \E i \in 1 .. Len(items) :
                 Offsets(items)[i - 1] < k /\ k <= Offsets(items)[i]
<1> DEFINE n == Len(items)
           at == Offsets(items)
<1>1. n \in Nat
  BY LenProperties
<1>2. /\ at \in [0 .. n -> Nat]
      /\ at[0] = 0
      /\ \A i \in 1 .. n : at[i - 1] <= at[i]
  <2>1. \A i \in 1 .. n : Size(items[i]) \in Nat
    BY ElementOfSeq, SizeIsNat
  <2>2. at \in [0 .. n -> Nat] /\ at[0] = 0 /\ \A i \in 1 .. n : at[i] = at[i - 1] + Size(items[i])
    BY OffsetsSum
  <2> HIDE DEF at, n
  <2>3. \A i \in 1 .. n : at[i - 1] \in Nat
    BY <1>1, <2>2
  <2> QED
    BY <2>1, <2>2, <2>3
<1> HIDE DEF n, at
<1>3. ASSUME NEW i \in 0 .. n, NEW j \in 0 .. n, i <= j PROVE at[i] <= at[j]
  <2> DEFINE Bad == {x \in Nat : i <= x /\ x <= n /\ ~(at[i] <= at[x])}
  <2>1. Bad = {}
    <3> SUFFICES ASSUME Bad # {} PROVE FALSE
      OBVIOUS
    <3>1. PICK x \in Bad : \A y \in Bad : x <= y
      <4>1. Bad \in SUBSET Nat
        OBVIOUS
      <4> HIDE DEF Bad
      <4> QED
        BY <4>1, LeastOf
    <3>2. x \in Nat /\ i <= x /\ x <= n /\ ~(at[i] <= at[x])
      OBVIOUS
    <3>3. at[i] \in Nat /\ at[x] \in Nat /\ x # i
      BY <1>1, <1>2, <3>2
    <3>4. x - 1 \in Nat /\ i <= x - 1 /\ x - 1 <= n /\ ~(x <= x - 1) /\ x \in 1 .. n /\ x - 1 \in 0 .. n
      BY <1>1, <3>2, <3>3
    <3>5. at[i] <= at[x - 1]
      BY <3>1, <3>4
    <3>6. at[x - 1] <= at[x] /\ at[x - 1] \in Nat
      BY <1>2, <3>4
    <3> QED
      BY <3>2, <3>3, <3>5, <3>6
  <2>2. j \notin Bad /\ j \in Nat /\ j <= n
    BY <1>1, <2>1
  <2> QED
    BY <1>3, <2>2
<1>4. ASSUME NEW k \in 1 .. at[n]
      PROVE  \E i \in 1 .. n : at[i - 1] < k /\ k <= at[i]
  <2> DEFINE Past == {x \in Nat : x <= n /\ k <= at[x]}
  <2>1. PICK x \in Past : \A y \in Past : x <= y
    <3>1. Past \in SUBSET Nat
      OBVIOUS
    <3>2. n \in Past
      BY <1>1, <1>2
    <3> HIDE DEF Past
    <3> QED
      BY <3>1, <3>2, LeastOf
  <2>2. x \in Nat /\ x <= n /\ k <= at[x]
    OBVIOUS
  <2>3. k \in Nat /\ k # 0 /\ x # 0
    <3>1. at[n] \in Nat /\ n \in 0 .. n
      BY <1>1, <1>2
    <3>2. k \in Nat /\ k # 0
      BY <3>1
    <3> QED
      BY <1>2, <2>2, <3>2
  <2>4. x - 1 \in Nat /\ x - 1 <= n /\ ~(x <= x - 1) /\ x \in 1 .. n /\ x - 1 \in 0 .. n
    BY <1>1, <2>2, <2>3
  <2>5. ~(k <= at[x - 1])
    BY <2>1, <2>4
  <2>6. at[x - 1] \in Nat
    BY <1>2, <2>4
  <2>7. at[x - 1] < k
    BY <2>3, <2>5, <2>6
  <2> QED
    BY <2>2, <2>4, <2>7
<1> QED
  BY <1>3, <1>4 DEF n, at
--------------------------------------------------------------------------------
Range3(f, i) == <<f.head + f.meta[i].lo, f.head + f.meta[i].hi, f.meta[i].name>>

(* Ranges is what Python's sorted() returns, for ranges of different names. *)
LEMMA RangesAscend ==
    ASSUME NEW f \in Files,
           \A i, j \in DOMAIN f.meta : f.meta[i].name = f.meta[j].name => i = j
    PROVE  \E place \in [1 .. Len(f.meta) -> 1 .. Len(f.meta)] :
              /\ DOMAIN Ranges(f) = 1 .. Len(f.meta)
              /\ \A p \in 1 .. Len(f.meta) : Ranges(f)[p] = Range3(f, place[p])
              /\ \A p, q \in 1 .. Len(f.meta) :
                    p < q => Before(Range3(f, place[p]), Range3(f, place[q]))
              /\ \A i \in 1 .. Len(f.meta) : \E p \in 1 .. Len(f.meta) : place[p] = i
<1> DEFINE n == Len(f.meta)
           s == [i \in 1 .. n |-> Range3(f, i)]
           below == [i \in 1 .. n |-> {j \in 1 .. n : Before(s[j], s[i])}]
           at(p) == Place(n, below, p)
<1>1. n \in Nat /\ DOMAIN f.meta = 1 .. n /\ f.meta \in [1 .. n -> Tensors] /\ f.head \in Nat
  BY LenProperties DEF Files
<1>2. s \in [1 .. n -> Nat \X Nat \X Nat] /\ \A i, j \in 1 .. n : s[i][3] = s[j][3] => i = j
  <2>1. ASSUME NEW i \in 1 .. n PROVE s[i] \in Nat \X Nat \X Nat /\ s[i][3] = f.meta[i].name
    <3>1. f.meta[i] \in Tensors
      BY <1>1
    <3>2. f.head + f.meta[i].lo \in Nat /\ f.head + f.meta[i].hi \in Nat /\ f.meta[i].name \in Nat
      BY <1>1, <3>1, SMTT(30) DEF Tensors
    <3> QED
      BY <3>2 DEF Range3
  <2> HIDE DEF s
  <2>2. DOMAIN s = 1 .. n /\ s = [i \in 1 .. n |-> s[i]]
    BY DEF s
  <2>3. s \in [1 .. n -> Nat \X Nat \X Nat]
    BY <2>1, <2>2
  <2>4. \A i, j \in 1 .. n : s[i][3] = s[j][3] => i = j
    <3> SUFFICES ASSUME NEW i \in 1 .. n, NEW j \in 1 .. n, s[i][3] = s[j][3] PROVE i = j
      OBVIOUS
    <3>1. f.meta[i].name = f.meta[j].name
      BY <2>1
    <3> QED
      BY <1>1, <3>1
  <2> QED
    BY <2>3, <2>4
<1>3. Ranges(f) = [p \in 1 .. n |-> s[at(p)]]
  <2> DEFINE t == [i \in DOMAIN f.meta |->
                      <<f.head + f.meta[i].lo, f.head + f.meta[i].hi, f.meta[i].name>>]
             Sort(D, x) == [p \in D |-> x[CHOOSE i \in D : Cardinality({j \in D : Before(x[j], x[i])}) = p - 1]]
  <2>1. Ranges(f) = Sort(DOMAIN t, t)
    BY Zenon DEF Ranges, InOrder
  <2>2. t = s /\ DOMAIN t = 1 .. n
    BY <1>1 DEF Range3
  <2> HIDE DEF t, Sort, s, n
  <2>3. Ranges(f) = Sort(1 .. n, s)
    BY <2>1, <2>2
  <2>4. \A i \in 1 .. n : below[i] = {j \in 1 .. n : Before(s[j], s[i])}
    OBVIOUS
  <2>5. \A p \in 1 .. n : at(p) = CHOOSE i \in 1 .. n : Cardinality({j \in 1 .. n : Before(s[j], s[i])}) = p - 1
    BY <2>4 DEF Place
  <2> HIDE DEF at, below
  <2> QED
    BY <2>3, <2>5 DEF Sort
<1> HIDE DEF s, n
<1>4. /\ below \in [1 .. n -> SUBSET (1 .. n)]
      /\ \A i \in 1 .. n : i \notin below[i]
      /\ \A i, j \in 1 .. n : i \in below[j] => below[i] \subseteq below[j]
      /\ \A i, j \in 1 .. n : i # j => i \in below[j] \/ j \in below[i]
  <2>1. below \in [1 .. n -> SUBSET (1 .. n)]
    OBVIOUS
  <2>2. \A x \in Nat \X Nat \X Nat : ~Before(x, x)
    BY DEF Before
  <2>3. \A x, y, z \in Nat \X Nat \X Nat : Before(x, y) /\ Before(y, z) => Before(x, z)
    BY DEF Before
  <2>4. \A x, y \in Nat \X Nat \X Nat : x[3] # y[3] => Before(x, y) \/ Before(y, x)
    BY DEF Before
  <2>5. \A i \in 1 .. n : s[i] \in Nat \X Nat \X Nat
    BY <1>2
  <2>6. \A i, j \in 1 .. n : i \in below[j] => below[i] \subseteq below[j]
    BY <2>3, <2>5
  <2>7. \A i, j \in 1 .. n : i # j => i \in below[j] \/ j \in below[i]
    BY <1>2, <2>4, <2>5
  <2>8. \A i \in 1 .. n : i \notin below[i]
    BY <2>2, <2>5
  <2> QED
    BY <2>1, <2>6, <2>7, <2>8
<1>5. /\ \A p \in 1 .. n : at(p) \in 1 .. n
      /\ \A p, q \in 1 .. n : p < q => at(p) \in below[at(q)]
      /\ \A i \in 1 .. n : \E p \in 1 .. n : at(p) = i
  <2> HIDE DEF below, at
  <2>1. /\ n \in Nat
        /\ below \in [1 .. n -> SUBSET (1 .. n)]
        /\ \A i \in 1 .. n : i \notin below[i]
        /\ \A i, j \in 1 .. n : i \in below[j] => below[i] \subseteq below[j]
        /\ \A i, j \in 1 .. n : i # j => i \in below[j] \/ j \in below[i]
    BY <1>1, <1>4
  <2>2. /\ \A p \in 1 .. n : Place(n, below, p) \in 1 .. n
        /\ \A p, q \in 1 .. n : p < q => Place(n, below, p) \in below[Place(n, below, q)]
        /\ \A i \in 1 .. n : \E p \in 1 .. n : Place(n, below, p) = i
    BY <2>1, PlacesInOrder, Zenon
  <2> QED
    BY <2>2 DEF at
<1> HIDE DEF at
<1>6. \A p, q \in 1 .. n : p < q => Before(s[at(p)], s[at(q)])
  BY <1>5
<1> DEFINE place == [p \in 1 .. n |-> at(p)]
<1>7. place \in [1 .. n -> 1 .. n]
  BY <1>5
<1>8. \A i \in 1 .. n : s[i] = Range3(f, i)
  BY DEF s
<1> HIDE DEF below
<1>9. /\ DOMAIN Ranges(f) = 1 .. n
      /\ \A p \in 1 .. n : Ranges(f)[p] = Range3(f, place[p])
      /\ \A p, q \in 1 .. n : p < q => Before(Range3(f, place[p]), Range3(f, place[q]))
      /\ \A i \in 1 .. n : \E p \in 1 .. n : place[p] = i
  BY <1>3, <1>5, <1>6, <1>8
<1> HIDE DEF place
<1> QED
  BY <1>7, <1>9 DEF n

(* A range that is before another begins no later.                         *)
LEMMA BeforeBegins ==
    ASSUME NEW h \in Nat, NEW a \in Nat, NEW b \in Nat, NEW x, NEW y, NEW u, NEW v,
           Before(<<h + a, x, u>>, <<h + b, y, v>>)
    PROVE  a <= b
BY DEF Before

(* Offsets in the data and in the file are compared alike.                 *)
LEMMA CancelLeft == \A h, a, b \in Nat : h + a = h + b => a = b
OBVIOUS

(* In the order place the tensors of f follow on one another, from the     *)
(* first byte of the data to the last one of a file of that size.          *)
Chained(f, size, place) ==
    /\ Len(f.meta) \in Nat
    /\ \A i \in 1 .. Len(f.meta) : \E p \in 1 .. Len(f.meta) : place[p] = i
    /\ \A p, q \in 1 .. Len(f.meta) : p < q => f.meta[place[p]].lo <= f.meta[place[q]].lo
    /\ Len(f.meta) = 0 => size = f.head
    /\ Len(f.meta) # 0 => /\ f.meta[place[1]].lo = 0
                          /\ f.head + f.meta[place[Len(f.meta)]].hi = size
    /\ \A p \in 1 .. Len(f.meta) - 1 : f.meta[place[p]].hi = f.meta[place[p + 1]].lo

(* The ranges of a readable file follow on one another.                    *)
LEMMA ReadableChain ==
    ASSUME NEW f \in Files, NEW size, Readable(f, size)
    PROVE  \E place \in [1 .. Len(f.meta) -> 1 .. Len(f.meta)] : Chained(f, size, place)
<1> DEFINE n == Len(f.meta)
           r == Ranges(f)
<1>1. /\ n \in Nat /\ DOMAIN f.meta = 1 .. n /\ f.head \in Nat
      /\ \A i \in 1 .. n : f.meta[i].lo \in Nat /\ f.meta[i].hi \in Nat
  <2>1. n \in Nat /\ DOMAIN f.meta = 1 .. n /\ f.meta \in [1 .. n -> Tensors] /\ f.head \in Nat
    BY LenProperties DEF Files
  <2> HIDE DEF n
  <2> QED
    BY <2>1 DEF Tensors
<1>2. \A i, j \in DOMAIN f.meta : f.meta[i].name = f.meta[j].name => i = j
  BY DEF Readable
<1>3. PICK place \in [1 .. n -> 1 .. n] :
         /\ \A p \in 1 .. n : r[p] = Range3(f, place[p])
         /\ \A p, q \in 1 .. n : p < q => Before(Range3(f, place[p]), Range3(f, place[q]))
         /\ \A i \in 1 .. n : \E p \in 1 .. n : place[p] = i
  BY <1>2, RangesAscend
<1>4. \A i \in 0 .. n : (IF i = 0 THEN f.head ELSE r[i][2]) = (IF i + 1 <= n THEN r[i + 1][1] ELSE size)
  BY DEF Readable, Contiguous
<1> HIDE DEF n, r
<1>5. \A p \in 1 .. n : /\ place[p] \in 1 .. n
                        /\ r[p][1] = f.head + f.meta[place[p]].lo
                        /\ r[p][2] = f.head + f.meta[place[p]].hi
  BY <1>3, SMTT(30) DEF Range3
<1>6. ASSUME NEW p \in 1 .. n, NEW q \in 1 .. n, p < q
      PROVE  f.meta[place[p]].lo <= f.meta[place[q]].lo
  <2>1. place[p] \in 1 .. n /\ place[q] \in 1 .. n
    BY <1>5
  <2>2. Before(Range3(f, place[p]), Range3(f, place[q]))
    BY <1>3, <1>6
  <2> QED
    BY <1>1, <2>1, <2>2, BeforeBegins DEF Range3
<1>7. n = 0 => size = f.head
  BY <1>1, <1>4
<1>8. ASSUME n # 0 PROVE f.meta[place[1]].lo = 0 /\ f.head + f.meta[place[n]].hi = size
  <2>1. 1 \in 1 .. n /\ n \in 1 .. n /\ 0 \in 0 .. n /\ n \in 0 .. n /\ 0 + 1 = 1 /\ ~(n + 1 <= n) /\ 1 <= n
    BY <1>1, <1>8
  <2>2. f.head = r[1][1] /\ r[n][2] = size
    BY <1>4, <1>8, <2>1
  <2>3. place[1] \in 1 .. n
    BY <1>5, <2>1
  <2>4. f.head + 0 = f.head + f.meta[place[1]].lo /\ f.head + f.meta[place[n]].hi = size
    BY <1>1, <1>5, <2>1, <2>2, SMTT(30)
  <2>5. f.meta[place[1]].lo \in Nat
    BY <1>1, <2>3
  <2> QED
    BY <1>1, <2>4, <2>5, CancelLeft
<1>9. ASSUME NEW p \in 1 .. n - 1 PROVE f.meta[place[p]].hi = f.meta[place[p + 1]].lo
  <2>1. p \in 1 .. n /\ p + 1 \in 1 .. n /\ p \in 0 .. n /\ p # 0 /\ p + 1 <= n
    BY <1>1
  <2>2. r[p][2] = r[p + 1][1]
    BY <1>4, <2>1
  <2>3. f.head + f.meta[place[p]].hi = f.head + f.meta[place[p + 1]].lo
    BY <1>5, <2>1, <2>2
  <2>4. place[p] \in 1 .. n /\ place[p + 1] \in 1 .. n
    BY <1>5, <2>1
  <2> QED
    BY <1>1, <2>3, <2>4
<1>10. Chained(f, size, place)
  BY <1>1, <1>3, <1>6, <1>7, <1>8, <1>9 DEF Chained, n
<1> QED
  BY <1>3, <1>10 DEF n

(* No byte of a readable file belongs to two tensors, or to none.          *)
LEMMA ReadableTiles ==
    ASSUME NEW f \in Files, Readable(f, FileSize(f)), NEW k \in DOMAIN f.data
    PROVE  Cardinality({m \in ToSet(f.meta) : m.lo < k /\ k <= m.hi}) = 1
<1> DEFINE n == Len(f.meta)
           lo(p) == f.meta[p].lo
           hi(p) == f.meta[p].hi
<1>0. PICK place \in [1 .. n -> 1 .. n] : Chained(f, FileSize(f), place)
  BY ReadableChain, Zenon
<1>1. /\ n \in Nat
      /\ \A i \in 1 .. n : \E p \in 1 .. n : place[p] = i
      /\ \A p, q \in 1 .. n : p < q => lo(place[p]) <= lo(place[q])
      /\ n = 0 => FileSize(f) = f.head
      /\ n # 0 => lo(place[1]) = 0 /\ f.head + hi(place[n]) = FileSize(f)
      /\ \A p \in 1 .. n - 1 : hi(place[p]) = lo(place[p + 1])
  BY <1>0 DEF Chained
<1>2. /\ DOMAIN f.meta = 1 .. n /\ f.head \in Nat
      /\ \A i \in 1 .. n : lo(i) \in Nat /\ hi(i) \in Nat
  <2>1. DOMAIN f.meta = 1 .. n /\ f.meta \in [1 .. n -> Tensors] /\ f.head \in Nat
    BY LenProperties DEF Files
  <2> HIDE DEF n
  <2> QED
    BY <2>1 DEF Tensors
<1>3. FileSize(f) = f.head + Len(f.data) /\ Len(f.data) \in Nat /\ k \in 1 .. Len(f.data)
  BY LenProperties DEF FileSize, Files
<1> HIDE DEF n
<1>4. n # 0 /\ 1 \in 1 .. n /\ n \in 1 .. n
  BY <1>1, <1>2, <1>3
<1> HIDE DEF lo, hi
<1>5. hi(place[n]) = Len(f.data)
  <2>1. place[n] \in 1 .. n
    BY <1>4
  <2>2. hi(place[n]) \in Nat
    BY <1>2, <2>1
  <2>3. f.head + hi(place[n]) = f.head + Len(f.data)
    BY <1>1, <1>3, <1>4
  <2> QED
    BY <1>2, <1>3, <2>2, <2>3, CancelLeft
<1> DEFINE Past == {p \in Nat : p \in 1 .. n /\ k <= hi(place[p])}
<1>6. PICK p \in Past : \A q \in Past : p <= q
  <2>1. Past \in SUBSET Nat
    OBVIOUS
  <2>2. n \in Past
    <3>1. n \in Nat /\ k <= hi(place[n])
      BY <1>1, <1>3, <1>5
    <3> QED
      BY <1>4, <3>1
  <2> HIDE DEF Past
  <2> QED
    BY <2>1, <2>2, LeastOf
<1>7. p \in Nat /\ p \in 1 .. n /\ k <= hi(place[p]) /\ place[p] \in 1 .. n
  OBVIOUS
<1>8. lo(place[p]) < k
  <2>1. CASE p = 1
    BY <1>1, <1>3, <1>4, <2>1
  <2>2. CASE p # 1
    <3>1. p - 1 \in 1 .. n - 1 /\ p - 1 \in 1 .. n /\ p - 1 \in Nat /\ ~(p <= p - 1) /\ (p - 1) + 1 = p
      BY <1>1, <1>7, <2>2
    <3>2. ~(k <= hi(place[p - 1]))
      BY <1>6, <3>1
    <3>3. hi(place[p - 1]) = lo(place[p]) /\ place[p - 1] \in 1 .. n
      BY <1>1, <3>1
    <3> QED
      BY <1>2, <1>3, <1>7, <3>2, <3>3
  <2> QED
    BY <2>1, <2>2
<1>9. ASSUME NEW q \in 1 .. n, lo(place[q]) < k, k <= hi(place[q]) PROVE q = p
  <2>1. p <= q /\ place[q] \in 1 .. n
    BY <1>6, <1>9
  <2>2. ASSUME p < q PROVE FALSE
    <3>1. p \in 1 .. n - 1 /\ p + 1 \in 1 .. n
      BY <1>1, <1>7, <2>2
    <3>2. hi(place[p]) = lo(place[p + 1]) /\ place[p + 1] \in 1 .. n
      BY <1>1, <3>1
    <3>3. p + 1 = q \/ p + 1 < q
      BY <1>1, <1>7, <2>2
    <3>4. lo(place[p + 1]) <= lo(place[q])
      <4>1. lo(place[p + 1]) \in Nat
        BY <1>2, <3>2
      <4>2. CASE p + 1 = q
        BY <4>1, <4>2
      <4>3. CASE p + 1 < q
        BY <1>1, <3>1, <4>3
      <4> QED
        BY <3>3, <4>2, <4>3
    <3>5. k \in Nat /\ hi(place[p]) \in Nat /\ lo(place[q]) \in Nat
      BY <1>2, <1>3, <1>7, <2>1
    <3>6. k <= hi(place[p]) /\ hi(place[p]) <= lo(place[q]) /\ lo(place[q]) < k
      BY <1>7, <1>9, <3>2, <3>4, Zenon
    <3> QED
      BY <3>5, <3>6
  <2> QED
    BY <1>7, <2>1, <2>2
<1>10. {m \in ToSet(f.meta) : m.lo < k /\ k <= m.hi} = {f.meta[place[p]]}
  <2>1. f.meta[place[p]] \in ToSet(f.meta)
    BY <1>2, <1>7 DEF ToSet
  <2>2. f.meta[place[p]].lo < k /\ k <= f.meta[place[p]].hi
    BY <1>7, <1>8 DEF lo, hi
  <2>3. ASSUME NEW m \in ToSet(f.meta), m.lo < k, k <= m.hi PROVE m = f.meta[place[p]]
    <3>1. PICK i \in 1 .. n : m = f.meta[i]
      BY <1>2 DEF ToSet
    <3>2. PICK q \in 1 .. n : place[q] = i
      BY <1>1
    <3>3. lo(place[q]) < k /\ k <= hi(place[q])
      BY <2>3, <3>1, <3>2 DEF lo, hi
    <3> QED
      BY <1>9, <3>1, <3>2, <3>3
  <2> QED
    BY <2>1, <2>2, <2>3
<1> QED
  BY <1>10, FS_Singleton
--------------------------------------------------------------------------------
(* A function on 1 .. n is a sequence of length n.                         *)
LEMMA FunctionIsSequence ==
    ASSUME NEW n \in Nat, NEW S, NEW f \in [1 .. n -> S]
    PROVE  f \in Seq(S) /\ Len(f) = n
<1>1. f \in Seq(S)
  BY SeqDef
<1>2. Len(f) \in Nat /\ 1 .. Len(f) = 1 .. n
  BY <1>1, LenProperties
<1> QED
  BY <1>1, <1>2

(* Ordered is what list.sort() leaves, for items of different names.       *)
LEMMA OrderedAscends ==
    ASSUME NEW s \in Seq(Items), \A i, j \in DOMAIN s : s[i].name = s[j].name => i = j
    PROVE  /\ Ordered(s) \in Seq(Items) /\ Len(Ordered(s)) = Len(s)
           /\ Ascends(Ordered(s)) /\ ToSet(Ordered(s)) = ToSet(s)
<1> DEFINE n == Len(s)
           below == [i \in 1 .. n |-> {j \in 1 .. n : s[j].name < s[i].name}]
           at(p) == Place(n, below, p)
<1>1. n \in Nat /\ DOMAIN s = 1 .. n /\ s \in [1 .. n -> Items]
  BY LenProperties
<1>2. \A i \in 1 .. n : s[i].name \in Nat
  BY <1>1 DEF Items
<1>3. Ordered(s) = [p \in 1 .. n |-> s[at(p)]]
  <2> DEFINE Sort(D, x) == [p \in D |-> x[CHOOSE i \in D : Cardinality({j \in D : x[j].name < x[i].name}) = p - 1]]
  <2>1. Ordered(s) = Sort(DOMAIN s, s)
    BY Zenon DEF Ordered, InOrder
  <2> HIDE DEF Sort, n
  <2>2. Ordered(s) = Sort(1 .. n, s)
    BY <1>1, <2>1
  <2>3. \A i \in 1 .. n : below[i] = {j \in 1 .. n : s[j].name < s[i].name}
    OBVIOUS
  <2>4. \A p \in 1 .. n : at(p) = CHOOSE i \in 1 .. n : Cardinality({j \in 1 .. n : s[j].name < s[i].name}) = p - 1
    BY <2>3 DEF Place
  <2> HIDE DEF at, below
  <2> QED
    BY <2>2, <2>4 DEF Sort
<1> HIDE DEF n
<1>4. /\ n \in Nat
      /\ below \in [1 .. n -> SUBSET (1 .. n)]
      /\ \A i \in 1 .. n : i \notin below[i]
      /\ \A i, j \in 1 .. n : i \in below[j] => below[i] \subseteq below[j]
      /\ \A i, j \in 1 .. n : i # j => i \in below[j] \/ j \in below[i]
  <2>1. \A i, j \in 1 .. n : i \in below[j] => below[i] \subseteq below[j]
    BY <1>2
  <2>2. ASSUME NEW i \in 1 .. n, NEW j \in 1 .. n, i # j PROVE i \in below[j] \/ j \in below[i]
    <3>1. s[i].name # s[j].name
      BY <1>1, <2>2
    <3> QED
      BY <1>2, <3>1
  <2>3. \A i \in 1 .. n : i \notin below[i]
    BY <1>2
  <2> QED
    BY <1>1, <2>1, <2>2, <2>3
<1>5. /\ \A p \in 1 .. n : at(p) \in 1 .. n
      /\ \A p, q \in 1 .. n : p < q => at(p) \in below[at(q)]
      /\ \A i \in 1 .. n : \E p \in 1 .. n : at(p) = i
  <2> HIDE DEF below, at
  <2>1. /\ \A p \in 1 .. n : Place(n, below, p) \in 1 .. n
        /\ \A p, q \in 1 .. n : p < q => Place(n, below, p) \in below[Place(n, below, q)]
        /\ \A i \in 1 .. n : \E p \in 1 .. n : Place(n, below, p) = i
    BY <1>4, PlacesInOrder, Zenon
  <2> QED
    BY <2>1 DEF at
<1> HIDE DEF at
<1>6. \A p, q \in 1 .. n : p < q => s[at(p)].name < s[at(q)].name
  BY <1>5
<1> HIDE DEF below
<1>7. Ordered(s) \in Seq(Items) /\ Len(Ordered(s)) = n
  <2>1. Ordered(s) \in [1 .. n -> Items]
    BY <1>1, <1>3, <1>5
  <2> QED
    BY <1>1, <2>1, FunctionIsSequence
<1>8. Ascends(Ordered(s))
  BY <1>3, <1>6 DEF Ascends
<1>9. ToSet(Ordered(s)) = ToSet(s)
  <2>1. DOMAIN Ordered(s) = 1 .. n
    BY <1>3
  <2>2. ASSUME NEW x \in ToSet(Ordered(s)) PROVE x \in ToSet(s)
    <3>1. PICK p \in 1 .. n : x = Ordered(s)[p]
      BY <2>1 DEF ToSet
    <3> QED
      BY <1>1, <1>3, <1>5, <3>1 DEF ToSet
  <2>3. ASSUME NEW x \in ToSet(s) PROVE x \in ToSet(Ordered(s))
    <3>1. PICK i \in 1 .. n : x = s[i]
      BY <1>1 DEF ToSet
    <3>2. PICK p \in 1 .. n : at(p) = i
      BY <1>5
    <3>3. x = Ordered(s)[p]
      BY <1>3, <3>1, <3>2
    <3> QED
      BY <2>1, <3>3 DEF ToSet
  <2> QED
    BY <2>2, <2>3
<1> QED
  BY <1>7, <1>8, <1>9 DEF n

(* The header that write_subset builds for the items.                      *)
LEMMA LayoutShape ==
    ASSUME NEW items \in Seq(Items)
    PROVE  /\ Layout(items) \in Seq(Tensors) /\ Len(Layout(items)) = Len(items)
           /\ \A i \in 1 .. Len(items) :
                 /\ Layout(items)[i].name = items[i].name
                 /\ Layout(items)[i].dtype = items[i].meta.dtype
                 /\ Layout(items)[i].bytes = items[i].meta.bytes
                 /\ Layout(items)[i].lo = Offsets(items)[i - 1]
                 /\ Layout(items)[i].hi = Offsets(items)[i]
<1> DEFINE n == Len(items)
<1>1. n \in Nat /\ DOMAIN items = 1 .. n /\ items \in [1 .. n -> Items]
  BY LenProperties
<1>2. Offsets(items) \in [0 .. n -> Nat]
  BY OffsetsSum
<1> HIDE DEF n
<1>3. Layout(items) = [i \in 1 .. n |->
          [name |-> items[i].name, dtype |-> items[i].meta.dtype, bytes |-> items[i].meta.bytes,
           lo |-> Offsets(items)[i - 1], hi |-> Offsets(items)[i]]]
  BY <1>1 DEF Layout
<1>4. ASSUME NEW i \in 1 .. n
      PROVE  [name |-> items[i].name, dtype |-> items[i].meta.dtype, bytes |-> items[i].meta.bytes,
              lo |-> Offsets(items)[i - 1], hi |-> Offsets(items)[i]] \in Tensors
  <2>1. items[i].name \in Nat /\ items[i].meta.dtype \in STRING /\ items[i].meta.bytes \in Nat
    BY <1>1 DEF Items, Span
  <2>2. i - 1 \in 0 .. n /\ i \in 0 .. n
    BY <1>1
  <2>3. Offsets(items)[i - 1] \in Nat /\ Offsets(items)[i] \in Nat
    BY <1>2, <2>2
  <2> QED
    BY <2>1, <2>3 DEF Tensors
<1>5. Layout(items) \in [1 .. n -> Tensors]
  BY <1>3, <1>4
<1>6. Layout(items) \in Seq(Tensors) /\ Len(Layout(items)) = n
  BY <1>1, <1>5, FunctionIsSequence
<1> QED
  BY <1>3, <1>6 DEF n

(* read_header accepts a file with the header of write_subset and all of   *)
(* its data.                                                               *)
LEMMA WholeIsReadable ==
    ASSUME NEW items \in Seq(Items), Ascends(items),
           NEW f \in Files, f.legible, f.meta = Layout(items),
           Len(f.data) = Offsets(items)[Len(items)]
    PROVE  Readable(f, FileSize(f))
<1> DEFINE n == Len(items)
           at == Offsets(items)
           lo(i) == f.meta[i].lo
           hi(i) == f.meta[i].hi
           name(i) == f.meta[i].name
<1>1. /\ n \in Nat /\ Len(f.meta) = n /\ DOMAIN f.meta = 1 .. n /\ DOMAIN items = 1 .. n
      /\ \A i \in 1 .. n : name(i) = items[i].name /\ lo(i) = at[i - 1] /\ hi(i) = at[i]
  BY LayoutShape, LenProperties
<1>2. at \in [0 .. n -> Nat] /\ at[0] = 0 /\ \A i, j \in 0 .. n : i <= j => at[i] <= at[j]
  BY OffsetsSum, OffsetsTile
<1>3. f.head \in Nat /\ FileSize(f) = f.head + at[n]
  BY DEF Files, FileSize
<1>4. \A i \in 1 .. n : items[i].name \in Nat
  <2>1. \A i \in 1 .. n : items[i] \in Items
    BY ElementOfSeq
  <2> HIDE DEF n
  <2> QED
    BY <2>1 DEF Items
<1>5. \A i, j \in 1 .. n : i < j => items[i].name < items[j].name
  BY <1>1 DEF Ascends
<1> HIDE DEF n, at, lo, hi, name
<1>6. ASSUME NEW i \in 1 .. n
      PROVE  i - 1 \in 0 .. n /\ i \in 0 .. n /\ lo(i) \in Nat /\ hi(i) \in Nat /\ lo(i) <= hi(i) /\ hi(i) <= at[n]
  <2>1. i - 1 \in 0 .. n /\ i \in 0 .. n /\ n \in 0 .. n /\ i - 1 <= i /\ i <= n
    BY <1>1
  <2> QED
    BY <1>1, <1>2, <2>1
<1>7. \A i, j \in 1 .. n : name(i) = name(j) => i = j
  <2> SUFFICES ASSUME NEW i \in 1 .. n, NEW j \in 1 .. n, i # j PROVE name(i) # name(j)
    OBVIOUS
  <2>1. i < j \/ j < i
    BY <1>1
  <2>2. items[i].name \in Nat /\ items[j].name \in Nat
    BY <1>4
  <2>3. items[i].name < items[j].name \/ items[j].name < items[i].name
    BY <1>5, <2>1
  <2>4. items[i].name # items[j].name
    BY <2>2, <2>3
  <2> QED
    BY <1>1, <2>4
<1>8. PICK place \in [1 .. n -> 1 .. n] :
         /\ \A p \in 1 .. n : Ranges(f)[p] = Range3(f, place[p])
         /\ \A p, q \in 1 .. n : p < q => Before(Range3(f, place[p]), Range3(f, place[q]))
         /\ \A i \in 1 .. n : \E p \in 1 .. n : place[p] = i
  <2>1. \A i, j \in DOMAIN f.meta : f.meta[i].name = f.meta[j].name => i = j
    BY <1>1, <1>7 DEF name
  <2>2. PICK place \in [1 .. Len(f.meta) -> 1 .. Len(f.meta)] :
          /\ \A p \in 1 .. Len(f.meta) : Ranges(f)[p] = Range3(f, place[p])
          /\ \A p, q \in 1 .. Len(f.meta) :
                p < q => Before(Range3(f, place[p]), Range3(f, place[q]))
          /\ \A i \in 1 .. Len(f.meta) : \E p \in 1 .. Len(f.meta) : place[p] = i
    BY <2>1, RangesAscend, ZenonT(30)
  <2> QED
    BY <1>1, <2>2
<1>9. ASSUME NEW p \in 1 .. n, NEW q \in 1 .. n, p < q PROVE place[p] < place[q]
  <2> DEFINE i == place[p]
             j == place[q]
  <2>1. i \in 1 .. n /\ j \in 1 .. n
    OBVIOUS
  <2>2. Before(Range3(f, i), Range3(f, j))
    BY <1>8, <1>9
  <2> HIDE DEF i, j
  <2>3. ASSUME j <= i PROVE FALSE
    <3>1. lo(j) <= lo(i) /\ hi(j) <= hi(i)
      <4>1. j - 1 <= i - 1 /\ j - 1 \in 0 .. n /\ i - 1 \in 0 .. n /\ i \in 0 .. n /\ j \in 0 .. n
        BY <1>1, <2>1, <2>3
      <4>2. at[j - 1] <= at[i - 1] /\ at[j] <= at[i]
        BY <1>2, <2>3, <4>1
      <4> QED
        BY <1>1, <2>1, <4>2
    <3>2. name(j) \in Nat /\ name(i) \in Nat /\ ~(name(i) < name(j))
      <4>1. j = i \/ j < i
        BY <2>1, <2>3
      <4>2. items[i].name \in Nat /\ items[j].name \in Nat
        BY <1>4, <2>1
      <4>3. j < i => items[j].name < items[i].name
        BY <1>5, <2>1
      <4>4. ~(items[i].name < items[j].name)
        BY <4>1, <4>2, <4>3
      <4> QED
        BY <1>1, <2>1, <4>2, <4>4
    <3>3. lo(i) \in Nat /\ hi(i) \in Nat /\ lo(j) \in Nat /\ hi(j) \in Nat
      BY <1>6, <2>1
    <3>4. /\ Range3(f, i) = <<f.head + lo(i), f.head + hi(i), name(i)>>
          /\ Range3(f, j) = <<f.head + lo(j), f.head + hi(j), name(j)>>
      BY DEF Range3, lo, hi, name
    <3> QED
      BY <1>3, <2>2, <3>1, <3>2, <3>3, <3>4 DEF Before
  <2>4. i < j
    BY <2>1, <2>3
  <2> QED
    BY <2>4 DEF i, j
<1>10. \A p \in 1 .. n : place[p] = p
  <2> DEFINE S == [name : Nat]
             s == [p \in 1 .. n |-> [name |-> place[p]]]
             t == [p \in 1 .. n |-> [name |-> p]]
  <2>1. s \in [1 .. n -> S] /\ t \in [1 .. n -> S]
    <3> HIDE DEF s, t, S
    <3>1. ASSUME NEW p \in 1 .. n PROVE place[p] \in Nat /\ p \in Nat
      <4>1. n \in Nat /\ place[p] \in 1 .. n
        BY <1>1
      <4> QED
        BY <4>1
    <3> USE DEF s, t, S
    <3> QED
      BY <3>1
  <2>2. Ascends(s) /\ Ascends(t)
    BY <1>9 DEF Ascends
  <2>3. ToSet(s) = ToSet(t)
    <3>1. DOMAIN s = 1 .. n /\ DOMAIN t = 1 .. n
      OBVIOUS
    <3>2. ASSUME NEW x \in ToSet(s) PROVE x \in ToSet(t)
      <4>1. PICK p \in 1 .. n : x = s[p]
        BY <3>1 DEF ToSet
      <4>2. place[p] \in 1 .. n /\ x = t[place[p]]
        BY <4>1
      <4> QED
        BY <3>1, <4>2 DEF ToSet
    <3>3. ASSUME NEW x \in ToSet(t) PROVE x \in ToSet(s)
      <4>1. PICK i \in 1 .. n : x = t[i]
        BY <3>1 DEF ToSet
      <4>2. PICK p \in 1 .. n : place[p] = i
        BY <1>8
      <4>3. x = s[p]
        BY <4>1, <4>2
      <4> QED
        BY <3>1, <4>3 DEF ToSet
    <3> QED
      BY <3>2, <3>3
  <2>4. s = t
    <3>1. \A x \in S : x.name \in Nat
      OBVIOUS
    <3> HIDE DEF S, s, t
    <3>2. s \in Seq(S) /\ t \in Seq(S)
      BY <1>1, <2>1, FunctionIsSequence
    <3> QED
      BY <2>2, <2>3, <3>1, <3>2, AscendingUnique
  <2>5. \A p \in 1 .. n : s[p].name = place[p] /\ t[p].name = p
    OBVIOUS
  <2> HIDE DEF s, t
  <2> QED
    BY <2>4, <2>5
<1>11. \A p \in 1 .. n : Ranges(f)[p][1] = f.head + at[p - 1] /\ Ranges(f)[p][2] = f.head + at[p]
  <2> SUFFICES ASSUME NEW p \in 1 .. n
               PROVE  Ranges(f)[p][1] = f.head + at[p - 1] /\ Ranges(f)[p][2] = f.head + at[p]
    OBVIOUS
  <2>1. Ranges(f)[p] = <<f.head + lo(p), f.head + hi(p), name(p)>>
    BY <1>8, <1>10 DEF Range3, lo, hi, name
  <2>2. lo(p) = at[p - 1] /\ hi(p) = at[p]
    BY <1>1
  <2> QED
    BY <2>1, <2>2
<1>12. Contiguous(f, FileSize(f))
  <2> DEFINE start(i) == IF i <= n THEN Ranges(f)[i][1] ELSE FileSize(f)
             end(i) == IF i = 0 THEN f.head ELSE Ranges(f)[i][2]
  <2>1. ASSUME NEW i \in 0 .. n PROVE end(i) = f.head + at[i]
    <3>1. CASE i = 0
      BY <1>2, <1>3, <3>1
    <3>2. CASE i # 0
      <4>1. i \in 1 .. n
        BY <1>1, <3>2
      <4> QED
        BY <1>11, <3>2, <4>1
    <3> QED
      BY <3>1, <3>2
  <2>2. ASSUME NEW i \in 0 .. n PROVE start(i + 1) = f.head + at[i]
    <3>1. CASE i = n
      BY <1>1, <1>3, <3>1
    <3>2. CASE i # n
      <4>1. i + 1 \in 1 .. n /\ (i + 1) - 1 = i /\ i + 1 <= n
        BY <1>1, <3>2
      <4> QED
        BY <1>11, <4>1
    <3> QED
      BY <3>1, <3>2
  <2>3. \A i \in 0 .. n : end(i) = start(i + 1)
    BY <2>1, <2>2
  <2> QED
    BY <1>1, <2>3 DEF Contiguous
<1>13. f.head <= FileSize(f)
  <2>1. at[n] \in Nat
    BY <1>1, <1>2
  <2> QED
    BY <1>3, <2>1
<1>14. ASSUME NEW m \in ToSet(f.meta) PROVE m.lo <= m.hi /\ f.head + m.hi <= FileSize(f)
  <2>1. PICK i \in 1 .. n : m = f.meta[i]
    BY <1>1 DEF ToSet
  <2>2. m.lo = lo(i) /\ m.hi = hi(i)
    BY <2>1 DEF lo, hi
  <2>3. at[n] \in Nat
    BY <1>1, <1>2
  <2> QED
    BY <1>3, <1>6, <2>2, <2>3
<1> QED
  BY <1>1, <1>7, <1>12, <1>13, <1>14 DEF Readable, name
--------------------------------------------------------------------------------
(* The inductive invariant.  A header that read_header may return, and the *)
(* types of the variables of a call.                                       *)
Headers == UNION {[N -> Span] : N \in SUBSET Nat}

Jobs == [pc : {"idle", "select", "copy", "returned", "raised", "left"},
         request : Requests \union {Missing},
         sources : UNION {[D -> Headers] : D \in SUBSET Paths},
         stat : Nat \union {Missing}, selected : Seq(Items), at : Nat,
         handle : Files \union {Missing}, done : Nat,
         digest : Seq(Cell \union Seq(Tensors)), size : Nat, lost : BOOLEAN]

(* A request that Begin lets through, and one whose destination nobody     *)
(* else writes and nobody reads.                                           *)
Proper(q) == \A i, j \in DOMAIN q.entries : q.entries[i].name = q.entries[j].name => i = j
Apart(q) ==
    /\ Later[q.to] = {}
    /\ \A r \in Requests : \A i \in DOMAIN r.entries : r.entries[i].path /= q.to

IsSource(p) == \E r \in Requests : \E i \in DOMAIN r.entries : r.entries[i].path = p

(* What a call knows of an entry is so, while nobody replaces the source.  *)
Good(dk, rp, q, x) ==
    /\ x.path /= q.to
    /\ \E i \in DOMAIN q.entries : q.entries[i].name = x.name /\ q.entries[i].path = x.path
    /\ x.meta.dtype = Expected /\ Size(x) = x.meta.bytes
    /\ x.path \notin rp =>
          /\ dk[x.path] /= Missing /\ Readable(dk[x.path], FileSize(dk[x.path]))
          /\ x.name \in DOMAIN Header(dk[x.path]) /\ x.meta = Header(dk[x.path])[x.name]

HeadersRead(dk, rp, j) ==
    \A p \in DOMAIN j.sources :
        /\ IsSource(p)
        /\ p \notin rp => /\ dk[p] /= Missing /\ Readable(dk[p], FileSize(dk[p]))
                          /\ j.sources[p] = Header(dk[p])

(* stat is the size of the source that the selection has come to.          *)
SizeTaken(dk, rp, j) ==
    j.stat /= Missing =>
        LET n == Len(j.selected)
            p == j.request.entries[n + 1].path
        IN  /\ n < Len(j.request.entries) /\ p /= j.request.to
            /\ p \notin rp => dk[p] /= Missing /\ j.stat = FileSize(dk[p])

(* The entries that have been looked up.                                   *)
Chosen(dk, rp, j) ==
    /\ Len(j.selected) <= Len(j.request.entries)
    /\ \A i \in 1 .. Len(j.selected) :
          /\ j.selected[i].name = j.request.entries[i].name
          /\ j.selected[i].path = j.request.entries[i].path
          /\ Good(dk, rp, j.request, j.selected[i])

(* The cells that have been copied are those of the source.                *)
Copied(dk, rp, j, i) ==
    LET x  == j.selected[i]
        f  == dk[j.request.to]
        at == Offsets(j.selected)[i - 1]
    IN  x.path \notin rp =>
            \A k \in 1 .. Size(x) :
                at + k <= Len(f.data) => f.data[at + k] = Cells(dk[x.path])[x.meta.from + k]

(* The open source of a call that copies.                                  *)
HandleFits(dk, rp, j) ==
    j.handle /= Missing =>
        /\ j.pc = "copy" /\ ~j.lost /\ j.at <= Len(j.selected)
        /\ j.done <= Size(j.selected[j.at])
        /\ j.selected[j.at].path \notin rp => j.handle = dk[j.selected[j.at].path]

(* The items, all of those asked for, in order.                            *)
Listed(dk, rp, j) ==
    /\ Apart(j.request) /\ Ascends(j.selected)
    /\ \A i \in 1 .. Len(j.selected) : Good(dk, rp, j.request, j.selected[i])
    /\ \A e \in DOMAIN j.request.entries : \E i \in 1 .. Len(j.selected) :
          /\ j.selected[i].name = j.request.entries[e].name
          /\ j.selected[i].path = j.request.entries[e].path

(* The file of a call that has made it is as far as the call has come.     *)
Written(dk, j) ==
    LET f   == dk[j.request.to]
        sum == Offsets(j.selected)
    IN  /\ f \in Files /\ f.legible /\ f.meta = Layout(j.selected)
        /\ j.digest = <<f.meta>> \o f.data
        /\ j.at \in 1 .. Len(j.selected) + 1
        /\ j.pc = "copy" => Len(f.data) = sum[j.at - 1] + (IF j.handle = Missing THEN 0 ELSE j.done)
        /\ j.pc = "returned" => Len(f.data) = sum[Len(j.selected)] /\ j.size = FileSize(f)

Making(dk, rp, j) ==
    /\ Listed(dk, rp, j)
    /\ Written(dk, j)
    /\ \A i \in 1 .. Len(j.selected) : Copied(dk, rp, j, i)

Phase(dk, rp, j) ==
    /\ j.pc = "idle" => j = Idle
    /\ j.pc /= "idle" => j.request \in Requests
    /\ j.lost => Apart(j.request)
    /\ j.pc = "select" => /\ ~j.lost /\ Proper(j.request) /\ j.at = 1
                          /\ Chosen(dk, rp, j) /\ HeadersRead(dk, rp, j) /\ SizeTaken(dk, rp, j)
    /\ Made(j) => Making(dk, rp, j)
    /\ HandleFits(dk, rp, j)

Types ==
    /\ disk \in [Paths -> Files \union {Missing}]
    /\ job \in [Calls -> Jobs]
    /\ replaced \subseteq Paths /\ faults \in 0 .. MaxFaults

(* Two files that are made are two; a file that nobody else has put there  *)
(* was there from the beginning or is made by a call.                      *)
OneMaker == \A c, d \in Calls :
    Made(job[c]) /\ Made(job[d]) /\ job[c].request.to = job[d].request.to => c = d

Provenance == \A p \in Paths \ replaced :
    \/ disk[p] \in {Missing} \union {k[p] : k \in Disks}
    \/ \E d \in Calls : Made(job[d]) /\ job[d].request.to = p

Phases == \A c \in Calls : Phase(disk, replaced, job[c])

IInv == Types /\ Phases /\ OneMaker /\ Provenance
--------------------------------------------------------------------------------
(* The destination and the entries of a request.                           *)
LEMMA RequestShape ==
    ASSUME NEW r \in Requests
    PROVE  /\ r.to \in Paths /\ r /= Missing
           /\ Len(r.entries) \in Nat /\ DOMAIN r.entries = 1 .. Len(r.entries)
           /\ \A i \in DOMAIN r.entries : r.entries[i].name \in Nat /\ r.entries[i].path \in Paths
<1>1. r \in [entries : Seq([name : Nat, path : Paths]), to : Paths] /\ r /= Missing
  BY FilesAssumption
<1>2. r.entries \in Seq([name : Nat, path : Paths]) /\ r.to \in Paths
  BY <1>1
<1> DEFINE s == r.entries
           E == [name : Nat, path : Paths]
<1>3. s \in Seq(E)
  BY <1>2
<1>4. Len(s) \in Nat /\ DOMAIN s = 1 .. Len(s) /\ \A i \in 1 .. Len(s) : s[i] \in E
  <2> HIDE DEF s, E
  <2> QED
    BY <1>3, LenProperties, ElementOfSeq
<1>5. \A i \in DOMAIN s : s[i].name \in Nat /\ s[i].path \in Paths
  <2> HIDE DEF s
  <2> QED
    BY <1>4
<1> QED
  BY <1>1, <1>2, <1>4, <1>5

(* What the others do: no source changes but those that are replaced.      *)
Keeps(dk, rp, dk2, rp2) ==
    rp \subseteq rp2 /\ \A p : IsSource(p) => p \in rp2 \/ dk2[p] = dk[p]

(* What a call knows of an entry stays so.                                 *)
LEMMA GoodKept ==
    ASSUME NEW dk, NEW rp, NEW dk2, NEW rp2, Keeps(dk, rp, dk2, rp2),
           NEW q \in Requests, NEW x, Good(dk, rp, q, x)
    PROVE  Good(dk2, rp2, q, x)
<1>1. IsSource(x.path)
  BY DEF Good, IsSource
<1>2. x.path \notin rp2 => x.path \notin rp /\ dk2[x.path] = dk[x.path]
  BY <1>1, Zenon DEF Keeps
<1> QED
  BY <1>2 DEF Good

(* What a call has copied of an item stays so.                             *)
LEMMA CopiedKept ==
    ASSUME NEW dk, NEW rp, NEW dk2, NEW rp2, Keeps(dk, rp, dk2, rp2),
           NEW j, NEW i, IsSource(j.selected[i].path),
           dk2[j.request.to] = dk[j.request.to], Copied(dk, rp, j, i)
    PROVE  Copied(dk2, rp2, j, i)
<1> DEFINE p == j.selected[i].path
<1>1. p \notin rp2 => p \notin rp /\ dk2[p] = dk[p]
  BY DEF Keeps
<1> QED
  BY <1>1 DEF Copied

(* A call that does not move keeps its part of the invariant, if its own   *)
(* file is left alone.                                                     *)
LEMMA PhaseKept ==
    ASSUME NEW dk, NEW rp, NEW dk2, NEW rp2, Keeps(dk, rp, dk2, rp2),
           NEW j \in Jobs, Phase(dk, rp, j),
           Made(j) => dk2[j.request.to] = dk[j.request.to]
    PROVE  Phase(dk2, rp2, j)
<1>1. ASSUME j.pc = "select"
      PROVE  /\ Proper(j.request) /\ j.at = 1
             /\ Chosen(dk2, rp2, j) /\ HeadersRead(dk2, rp2, j) /\ SizeTaken(dk2, rp2, j)
  <2>1. /\ j.request \in Requests /\ Proper(j.request) /\ j.at = 1
        /\ Chosen(dk, rp, j) /\ HeadersRead(dk, rp, j) /\ SizeTaken(dk, rp, j)
    BY <1>1 DEF Phase
  <2>2. Chosen(dk2, rp2, j)
    <3>1. \A i \in 1 .. Len(j.selected) : Good(dk2, rp2, j.request, j.selected[i])
      BY <2>1, GoodKept DEF Chosen
    <3> QED
      BY <2>1, <3>1 DEF Chosen
  <2>3. HeadersRead(dk2, rp2, j)
    BY <2>1 DEF HeadersRead, Keeps
  <2>4. SizeTaken(dk2, rp2, j)
    <3> SUFFICES ASSUME j.stat /= Missing PROVE SizeTaken(dk2, rp2, j)
      BY DEF SizeTaken
    <3> DEFINE n == Len(j.selected)
               p == j.request.entries[n + 1].path
    <3>1. n < Len(j.request.entries) /\ p /= j.request.to
      BY <2>1 DEF SizeTaken
    <3>2. p \notin rp => dk[p] /= Missing /\ j.stat = FileSize(dk[p])
      BY <2>1 DEF SizeTaken
    <3>3. IsSource(p)
      <4>1. j.request.entries \in Seq([name : Nat, path : Paths])
        BY <2>1, FilesAssumption
      <4>2. Len(j.request.entries) \in Nat /\ DOMAIN j.request.entries = 1 .. Len(j.request.entries)
        BY <4>1, LenProperties
      <4>3. n \in Nat
        BY LenProperties DEF Jobs
      <4>4. n + 1 \in DOMAIN j.request.entries
        BY <3>1, <4>2, <4>3
      <4> QED
        BY <2>1, <4>4 DEF IsSource
    <3>4. p \notin rp2 => p \notin rp /\ dk2[p] = dk[p]
      BY <3>3 DEF Keeps
    <3> HIDE DEF p
    <3>5. p \notin rp2 => dk2[p] /= Missing /\ j.stat = FileSize(dk2[p])
      BY <3>2, <3>4
    <3> QED
      BY <3>1, <3>5 DEF SizeTaken, p
  <2> QED
    BY <2>1, <2>2, <2>3, <2>4
<1>2. ASSUME Made(j) PROVE Making(dk2, rp2, j)
  <2>1. /\ j.request \in Requests
        /\ Listed(dk, rp, j) /\ Written(dk, j)
        /\ \A i \in 1 .. Len(j.selected) : Copied(dk, rp, j, i)
        /\ dk2[j.request.to] = dk[j.request.to]
    BY <1>2 DEF Phase, Made, Making
  <2>2. \A i \in 1 .. Len(j.selected) : Good(dk2, rp2, j.request, j.selected[i])
    BY <2>1, GoodKept DEF Listed
  <2>3. Listed(dk2, rp2, j)
    BY <2>1, <2>2, ZenonT(30) DEF Listed
  <2>4. Written(dk2, j)
    BY <2>1 DEF Written
  <2>5. \A i \in 1 .. Len(j.selected) : Copied(dk2, rp2, j, i)
    <3> TAKE i \in 1 .. Len(j.selected)
    <3>1. IsSource(j.selected[i].path)
      BY <2>1 DEF Listed, Good, IsSource
    <3> QED
      BY <2>1, <3>1, CopiedKept
  <2> QED
    BY <2>3, <2>4, <2>5 DEF Making
<1>3. HandleFits(dk2, rp2, j)
  <2> SUFFICES ASSUME j.handle /= Missing PROVE HandleFits(dk2, rp2, j)
    BY DEF HandleFits
  <2> DEFINE p == j.selected[j.at].path
  <2>1. /\ j.pc = "copy" /\ ~j.lost /\ j.at <= Len(j.selected) /\ j.done <= Size(j.selected[j.at])
        /\ p \notin rp => j.handle = dk[p]
    BY DEF Phase, HandleFits
  <2>2. IsSource(p)
    <3>1. Listed(dk, rp, j) /\ Written(dk, j) /\ j.request \in Requests
      BY <2>1 DEF Phase, Made, Making
    <3>2. j.at \in 1 .. Len(j.selected)
      <4>1. j.at \in Nat /\ Len(j.selected) \in Nat /\ j.at \in 1 .. Len(j.selected) + 1
        BY <3>1, LenProperties DEF Jobs, Written
      <4> QED
        BY <2>1, <4>1
    <3> QED
      BY <3>1, <3>2 DEF Listed, Good, IsSource
  <2>3. p \notin rp2 => p \notin rp /\ dk2[p] = dk[p]
    BY <2>2 DEF Keeps
  <2> HIDE DEF p
  <2>4. p \notin rp2 => j.handle = dk2[p]
    BY <2>1, <2>3, ZenonT(30)
  <2> QED
    BY <2>1, <2>4 DEF HandleFits, p
<1> QED
  BY <1>1, <1>2, <1>3 DEF Phase
--------------------------------------------------------------------------------
(* A step of one call: it changes no file but the one that it makes, and   *)
(* makes one only where there is none.                                     *)
Steps(c) ==
    /\ \A d \in Calls \ {c} : job'[d] = job[d]
    /\ UNCHANGED replaced
    /\ \A p \in Paths : disk'[p] /= disk[p] =>
          /\ p = job[c].request.to /\ Apart(job[c].request)
          /\ Made(job[c]) \/ disk[p] = Missing
          /\ Made(job'[c]) \/ disk'[p] = Missing
    /\ Made(job'[c]) => /\ job'[c].request = job[c].request
                        /\ Made(job[c]) \/ disk[job[c].request.to] = Missing
    /\ Made(job[c]) => \/ Made(job'[c]) /\ job'[c].request = job[c].request
                       \/ disk'[job[c].request.to] = Missing

(* The file that a call has made is there.                                 *)
LEMMA MadeIsThere ==
    ASSUME IInv, NEW c \in Calls, Made(job[c])
    PROVE  /\ job[c].request \in Requests /\ job[c].request.to \in Paths
           /\ disk[job[c].request.to] \in Files /\ disk[job[c].request.to] /= Missing
           /\ Apart(job[c].request)
<1>1. Phase(disk, replaced, job[c])
  BY DEF IInv, Phases
<1>2. job[c].request \in Requests /\ Making(disk, replaced, job[c])
  BY <1>1 DEF Phase, Made
<1> QED
  BY <1>2, FilesAssumption, SMTT(30) DEF Making, Written, Listed

(* A step of a call changes no source.                                     *)
LEMMA SourcesStay ==
    ASSUME NEW c \in Calls, Steps(c)
    PROVE  Keeps(disk, replaced, disk', replaced')
<1>1. replaced' = replaced
  BY DEF Steps
<1>2. ASSUME NEW p, IsSource(p) PROVE disk'[p] = disk[p]
  <2>1. p \in Paths
    <3>1. PICK r \in Requests : \E i \in DOMAIN r.entries : r.entries[i].path = p
      BY <1>2 DEF IsSource
    <3>2. PICK i \in DOMAIN r.entries : r.entries[i].path = p
      BY <3>1
    <3> QED
      BY <3>2, RequestShape
  <2>2. ASSUME Apart(job[c].request) PROVE p /= job[c].request.to
    BY <1>2, <2>2 DEF Apart, IsSource
  <2> QED
    BY <2>1, <2>2 DEF Steps
<1> QED
  BY <1>1, <1>2 DEF Keeps

(* A step of one call keeps the invariant, if it keeps it for that call:   *)
(* the others are where they were.                                         *)
LEMMA StepSound ==
    ASSUME IInv, NEW c \in Calls, Steps(c), Types', Phase(disk', replaced, job'[c])
    PROVE  IInv'
<1>1. replaced' = replaced /\ \A d \in Calls \ {c} : job'[d] = job[d]
  BY DEF Steps
<1>2. ASSUME NEW d \in Calls \ {c}, Made(job[d])
      PROVE  disk'[job[d].request.to] = disk[job[d].request.to]
  <2> SUFFICES ASSUME disk'[job[d].request.to] /= disk[job[d].request.to] PROVE FALSE
    OBVIOUS
  <2>1. job[d].request.to \in Paths /\ disk[job[d].request.to] /= Missing
    BY <1>2, MadeIsThere
  <2>2. job[d].request.to = job[c].request.to /\ Made(job[c])
    BY <2>1 DEF Steps
  <2> QED
    BY <1>2, <2>2 DEF IInv, OneMaker
<1>3. Phases'
  <2> SUFFICES ASSUME NEW d \in Calls PROVE Phase(disk', replaced', job'[d])
    BY DEF Phases
  <2>1. CASE d = c
    BY <1>1, <2>1
  <2>2. CASE d /= c
    <3>1. job[d] \in Jobs /\ Phase(disk, replaced, job[d])
      BY DEF IInv, Types, Phases
    <3>2. Keeps(disk, replaced, disk', replaced')
      BY SourcesStay
    <3>3. Phase(disk', replaced', job[d])
      BY <1>2, <2>2, <3>1, <3>2, PhaseKept
    <3> QED
      BY <1>1, <2>2, <3>3
  <2> QED
    BY <2>1, <2>2
<1>4. OneMaker'
  <2>1. ASSUME NEW d \in Calls \ {c}, Made(job[d]), Made(job'[c])
        PROVE  job[d].request.to /= job'[c].request.to
    <3>1. job'[c].request = job[c].request /\ (Made(job[c]) \/ disk[job[c].request.to] = Missing)
      BY <2>1 DEF Steps
    <3>2. disk[job[d].request.to] /= Missing
      BY <2>1, MadeIsThere
    <3> QED
      BY <2>1, <3>1, <3>2 DEF IInv, OneMaker
  <2> SUFFICES ASSUME NEW a \in Calls, NEW b \in Calls, Made(job'[a]), Made(job'[b]),
                      job'[a].request.to = job'[b].request.to
               PROVE  a = b
    BY DEF OneMaker, Made
  <2>2. a /= c /\ b /= c => a = b
    BY <1>1 DEF IInv, OneMaker
  <2>3. a = c /\ b /= c => FALSE
    BY <1>1, <2>1
  <2>4. a /= c /\ b = c => FALSE
    BY <1>1, <2>1
  <2> QED
    BY <2>2, <2>3, <2>4
<1>5. Provenance'
  <2> SUFFICES ASSUME NEW p \in Paths \ replaced
               PROVE  \/ disk'[p] \in {Missing} \union {k[p] : k \in Disks}
                      \/ \E d \in Calls : Made(job'[d]) /\ job'[d].request.to = p
    BY <1>1 DEF Provenance, Made
  <2>1. CASE disk'[p] /= disk[p]
    BY <2>1 DEF Steps
  <2>2. CASE disk'[p] = disk[p]
    <3>1. CASE disk[p] \in {Missing} \union {k[p] : k \in Disks}
      BY <2>2, <3>1
    <3>2. CASE \E d \in Calls : Made(job[d]) /\ job[d].request.to = p
      <4>1. PICK d \in Calls : Made(job[d]) /\ job[d].request.to = p
        BY <3>2
      <4>2. CASE d = c
        BY <4>1, <4>2 DEF Steps
      <4>3. CASE d /= c
        BY <1>1, <4>1, <4>3
      <4> QED
        BY <4>2, <4>3
    <3> QED
      BY <3>1, <3>2 DEF IInv, Provenance
  <2> QED
    BY <2>1, <2>2
<1> QED
  BY <1>3, <1>4, <1>5 DEF IInv
--------------------------------------------------------------------------------
(* The calls' records.                                                     *)
LEMMA JobIsSound ==
    ASSUME IInv, NEW c \in Calls
    PROVE  job[c] \in Jobs /\ Phase(disk, replaced, job[c])
BY DEF IInv, Types, Phases

(* The calls after the record of one of them is set.                       *)
LEMMA JobSet ==
    ASSUME IInv, NEW c \in Calls, NEW r \in Jobs, job' = [job EXCEPT ![c] = r]
    PROVE  /\ job' \in [Calls -> Jobs] /\ job'[c] = r
           /\ \A d \in Calls \ {c} : job'[d] = job[d]
BY DEF IInv, Types

(* A call raises, before it has made a file or with the removal of it.     *)
LEMMA RaiseSound ==
    ASSUME IInv, NEW c \in Calls, job[c].pc /= "idle", Raise(c),
           \/ disk' = disk /\ ~Made(job[c])
           \/ disk' = [disk EXCEPT ![job[c].request.to] = Missing] /\ Made(job[c]),
           replaced' = replaced, faults' \in 0 .. MaxFaults
    PROVE  IInv'
<1> DEFINE r == [job[c] EXCEPT !.pc = "raised", !.handle = Missing]
           to == job[c].request.to
<1>1. job[c] \in Jobs /\ Phase(disk, replaced, job[c])
  BY JobIsSound
<1>2. /\ r \in Jobs /\ r.pc = "raised" /\ r.handle = Missing /\ r.request = job[c].request
      /\ r.lost = job[c].lost
  BY <1>1 DEF Jobs
<1>3. job' = [job EXCEPT ![c] = r]
  BY DEF Raise
<1> HIDE DEF r
<1>4. job' \in [Calls -> Jobs] /\ job'[c] = r /\ \A d \in Calls \ {c} : job'[d] = job[d]
  BY <1>2, <1>3, JobSet
<1>5. Phase(disk', replaced, job'[c])
  BY <1>1, <1>2, <1>4 DEF Phase, Made, HandleFits
<1>6. ~Made(job'[c])
  BY <1>2, <1>4 DEF Made
<1>7. disk \in [Paths -> Files \union {Missing}] /\ replaced \subseteq Paths
  BY DEF IInv, Types
<1>8. Made(job[c]) => to \in Paths /\ Apart(job[c].request)
  BY MadeIsThere
<1>9. Types'
  BY <1>4, <1>7 DEF Types
<1>10. Steps(c)
  BY <1>4, <1>6, <1>7, <1>8 DEF Steps
<1> QED
  BY <1>5, <1>9, <1>10, StepSound

(* A request passes Begin only if its names are different.                 *)
LEMMA DifferentNames ==
    ASSUME NEW r \in Requests,
           Cardinality({r.entries[i].name : i \in DOMAIN r.entries}) = Len(r.entries)
    PROVE  Proper(r)
<1> DEFINE n == Len(r.entries)
           N == {r.entries[i].name : i \in DOMAIN r.entries}
           f == [i \in 1 .. n |-> r.entries[i].name]
<1>1. n \in Nat /\ DOMAIN r.entries = 1 .. n
  BY RequestShape
<1>2. f \in Surjection(1 .. n, N)
  <2>1. f \in [1 .. n -> N]
    BY <1>1
  <2>2. \A x \in N : \E i \in 1 .. n : f[i] = x
    BY <1>1
  <2> HIDE DEF f, N
  <2> QED
    BY <2>1, <2>2, Fun_IsSurj
<1>3. IsFiniteSet(1 .. n) /\ Cardinality(1 .. n) = n
  BY <1>1, FS_Interval
<1>4. f \in Injection(1 .. n, N)
  <2> HIDE DEF f
  <2>1. Cardinality(N) = Cardinality(1 .. n)
    BY <1>3
  <2> HIDE DEF N
  <2> QED
    BY <1>2, <1>3, <2>1, FS_Surjection
<1>5. \A i, k \in 1 .. n : f[i] = f[k] => i = k
  <2> HIDE DEF f, N
  <2> QED
    BY <1>4 DEF Injection, IsInjective
<1> QED
  BY <1>1, <1>5 DEF Proper

(* A request is taken or refused.                                          *)
LEMMA BeginSound == ASSUME IInv, NEW c \in Calls, Begin(c) PROVE IInv'
<1>1. job[c] \in Jobs /\ job[c] = Idle
  BY JobIsSound DEF Begin, Phase
<1>2. PICK q \in Requests :
        job' = [job EXCEPT ![c].request = q,
                           ![c].pc = IF /\ q.entries /= <<>>
                                        /\ Cardinality({q.entries[i].name : i \in DOMAIN q.entries}) = Len(q.entries)
                                     THEN "select" ELSE "raised"]
  BY DEF Begin
<1> DEFINE s == IF /\ q.entries /= <<>>
                   /\ Cardinality({q.entries[i].name : i \in DOMAIN q.entries}) = Len(q.entries)
                THEN "select" ELSE "raised"
           r == [job[c] EXCEPT !.request = q, !.pc = s]
<1>3. s \in {"select", "raised"} /\ (s = "select" => Proper(q))
  BY DifferentNames
<1>4. job' = [job EXCEPT ![c] = r]
  BY <1>2
<1> HIDE DEF s
<1>5. /\ r \in Jobs /\ r.pc = s /\ r.request = q
      /\ r.sources = [p \in {} |-> Missing] /\ r.selected = <<>>
      /\ r.stat = Missing /\ r.handle = Missing /\ r.at = 1 /\ ~r.lost
  <2>1. r \in Jobs /\ r.pc = s /\ r.request = q
    BY <1>1, <1>3 DEF Jobs
  <2>2. /\ r.sources = job[c].sources /\ r.selected = job[c].selected /\ r.stat = job[c].stat
        /\ r.handle = job[c].handle /\ r.at = job[c].at /\ r.lost = job[c].lost
    BY <1>1 DEF Jobs
  <2> QED
    BY <1>1, <2>1, <2>2 DEF Idle
<1> HIDE DEF r
<1>6. job' \in [Calls -> Jobs] /\ job'[c] = r /\ \A d \in Calls \ {c} : job'[d] = job[d]
  BY <1>4, <1>5, JobSet
<1>7. UNCHANGED <<disk, replaced, faults>>
  BY DEF Begin
<1>8. Phase(disk', replaced, job'[c])
  <2>1. Chosen(disk', replaced, r)
    <3>1. Len(r.selected) = 0 /\ Len(q.entries) \in Nat
      BY <1>5, RequestShape, EmptySeq
    <3> QED
      BY <1>5, <3>1 DEF Chosen
  <2>2. HeadersRead(disk', replaced, r) /\ SizeTaken(disk', replaced, r) /\ HandleFits(disk', replaced, r)
    BY <1>5 DEF HeadersRead, SizeTaken, HandleFits
  <2> QED
    BY <1>3, <1>5, <1>6, <2>1, <2>2 DEF Phase, Made
<1>9. Types'
  BY <1>6, <1>7 DEF IInv, Types
<1>10. Steps(c)
  BY <1>1, <1>3, <1>5, <1>6, <1>7 DEF Steps, Made, Idle
<1> QED
  BY <1>8, <1>9, <1>10, StepSound

(* Where a call that selects is.                                           *)
LEMMA SelectingCall ==
    ASSUME IInv, NEW c \in Calls, Selecting(c)
    PROVE  /\ job[c] \in Jobs /\ Phase(disk, replaced, job[c]) /\ ~Made(job[c]) /\ job[c].pc = "select"
           /\ job[c].request \in Requests
           /\ Len(job[c].selected) \in Nat
           /\ Len(job[c].selected) + 1 \in DOMAIN job[c].request.entries
           /\ Entry(c).path \in Paths /\ Entry(c).name \in Nat /\ IsSource(Entry(c).path)
<1>1. job[c] \in Jobs /\ Phase(disk, replaced, job[c]) /\ job[c].pc = "select"
  BY JobIsSound DEF Selecting
<1>2. job[c].request \in Requests /\ job[c].selected \in Seq(Items)
  BY <1>1 DEF Phase, Jobs
<1>3. Len(job[c].selected) \in Nat
  BY <1>2, LenProperties
<1>4. Len(job[c].selected) + 1 \in DOMAIN job[c].request.entries
  BY <1>2, <1>3, RequestShape, SMTT(30) DEF Selecting
<1>5. Entry(c).path \in Paths /\ Entry(c).name \in Nat
  BY <1>2, <1>4, RequestShape DEF Entry
<1>6. IsSource(Entry(c).path)
  BY <1>2, <1>4 DEF IsSource, Entry
<1> QED
  BY <1>1, <1>2, <1>3, <1>4, <1>5, <1>6 DEF Made

(* A step of the selection that stays in it.                               *)
LEMMA SelectSound ==
    ASSUME IInv, NEW c \in Calls, Selecting(c), NEW r \in Jobs,
           job' = [job EXCEPT ![c] = r], UNCHANGED <<disk, replaced, faults>>,
           r.pc = "select", r.request = job[c].request, r.handle = job[c].handle, r.at = job[c].at,
           r.lost = job[c].lost,
           Chosen(disk, replaced, r), HeadersRead(disk, replaced, r), SizeTaken(disk, replaced, r)
    PROVE  IInv'
<1>1. Phase(disk, replaced, job[c]) /\ job[c].pc = "select" /\ ~Made(job[c]) /\ job[c].request \in Requests
  BY SelectingCall
<1>2. job' \in [Calls -> Jobs] /\ job'[c] = r /\ \A d \in Calls \ {c} : job'[d] = job[d]
  BY JobSet
<1>3. Phase(disk', replaced, job'[c])
  <2>1. r.handle = Missing /\ r.at = 1 /\ Proper(r.request) /\ ~r.lost
    BY <1>1 DEF Phase, HandleFits
  <2> QED
    BY <1>1, <1>2, <2>1 DEF Phase, Made, HandleFits
<1>4. Types'
  BY <1>2 DEF IInv, Types
<1>5. Steps(c)
  BY <1>1, <1>2 DEF Steps, Made
<1> QED
  BY <1>3, <1>4, <1>5, StepSound

(* The selection ends with an exception.                                   *)
LEMMA SelectRaises ==
    ASSUME IInv, NEW c \in Calls, Selecting(c), Raise(c), UNCHANGED <<disk, replaced, faults>>
    PROVE  IInv'
<1>1. faults' \in 0 .. MaxFaults
  BY DEF IInv, Types
<1> QED
  BY <1>1, SelectingCall, RaiseSound

(* The size of a file.                                                     *)
LEMMA SizeOfFile == \A f \in Files : FileSize(f) \in Nat
<1> SUFFICES ASSUME NEW f \in Files PROVE f.head + Len(f.data) \in Nat
  BY DEF FileSize
<1>1. Len(f.data) \in Nat /\ f.head \in Nat
  BY LenProperties DEF Files
<1> QED
  BY <1>1

(* What is on the disk is a file.                                          *)
LEMMA FileThere ==
    ASSUME IInv, NEW p \in Paths, disk[p] /= Missing
    PROVE  disk[p] \in Files
BY DEF IInv, Types

(* The size of a source is taken.                                          *)
LEMMA ResolveSound == ASSUME IInv, NEW c \in Calls, Resolve(c) PROVE IInv'
<1> DEFINE p == Entry(c).path
<1>1. /\ Selecting(c) /\ job[c].stat = Missing /\ UNCHANGED <<disk, replaced, faults>>
      /\ \/ Raise(c)
         \/ /\ disk[p] /= Missing /\ p /= job[c].request.to
            /\ job' = [job EXCEPT ![c].stat = FileSize(disk[p])]
  BY DEF Resolve
<1>2. CASE Raise(c)
  BY <1>1, <1>2, SelectRaises
<1>3. CASE disk[p] /= Missing /\ p /= job[c].request.to /\ job' = [job EXCEPT ![c].stat = FileSize(disk[p])]
  <2> DEFINE r == [job[c] EXCEPT !.stat = FileSize(disk[p])]
  <2>1. /\ job[c] \in Jobs /\ Phase(disk, replaced, job[c]) /\ job[c].pc = "select"
        /\ Len(job[c].selected) < Len(job[c].request.entries) /\ p \in Paths
    BY <1>1, SelectingCall DEF Selecting
  <2>2. FileSize(disk[p]) \in Nat
    BY <1>3, <2>1, FileThere, SizeOfFile
  <2>3. job' = [job EXCEPT ![c] = r]
    BY <1>3
  <2>4. /\ r \in Jobs /\ r.pc = "select" /\ r.request = job[c].request /\ r.handle = job[c].handle
        /\ r.at = job[c].at /\ r.selected = job[c].selected /\ r.sources = job[c].sources
        /\ r.lost = job[c].lost
        /\ r.stat = FileSize(disk[p])
    BY <2>1, <2>2, Zenon DEF Jobs
  <2> HIDE DEF r
  <2>5. Chosen(disk, replaced, r) /\ HeadersRead(disk, replaced, r)
    BY <2>1, <2>4, SMTT(30) DEF Phase, Chosen, HeadersRead
  <2>6. SizeTaken(disk, replaced, r)
    BY <1>3, <2>1, <2>4 DEF SizeTaken, Entry
  <2> QED
    BY <1>1, <2>3, <2>4, <2>5, <2>6, SelectSound
<1> QED
  BY <1>1, <1>2, <1>3

(* What read_header returns, for a file with no name twice.                *)
LEMMA HeaderShape ==
    ASSUME NEW f \in Files, NEW size, Readable(f, size)
    PROVE  /\ Header(f) \in Headers
           /\ DOMAIN Header(f) = {f.meta[i].name : i \in DOMAIN f.meta}
           /\ \A i \in DOMAIN f.meta :
                 Header(f)[f.meta[i].name] =
                    [dtype |-> f.meta[i].dtype, bytes |-> f.meta[i].bytes,
                     from |-> f.head + f.meta[i].lo, to |-> f.head + f.meta[i].hi]
<1> DEFINE N == {m.name : m \in ToSet(f.meta)}
           of(x) == CHOOSE m \in ToSet(f.meta) : m.name = x
           entry(m) == [dtype |-> m.dtype, bytes |-> m.bytes, from |-> f.head + m.lo, to |-> f.head + m.hi]
<1>1. /\ f.head \in Nat
      /\ \A i \in DOMAIN f.meta : f.meta[i] \in Tensors
  <2>1. f.head \in Nat /\ f.meta \in Seq(Tensors)
    BY DEF Files
  <2> QED
    BY <2>1, LenProperties, ElementOfSeq
<1>2. /\ \A i, j \in DOMAIN f.meta : f.meta[i].name = f.meta[j].name => i = j
      /\ \A m \in ToSet(f.meta) : m.lo <= m.hi
  BY DEF Readable
<1>3. N = {f.meta[i].name : i \in DOMAIN f.meta}
  BY DEF ToSet
<1>4. Header(f) = [x \in N |-> entry(of(x))]
  BY DEF Header
<1>5. ASSUME NEW i \in DOMAIN f.meta PROVE of(f.meta[i].name) = f.meta[i]
  <2>1. f.meta[i] \in ToSet(f.meta) /\ \A m \in ToSet(f.meta) : m.name = f.meta[i].name => m = f.meta[i]
    BY <1>2 DEF ToSet
  <2> QED
    BY <2>1
<1> HIDE DEF of
<1>6. ASSUME NEW i \in DOMAIN f.meta PROVE entry(f.meta[i]) \in Span
  <2>1. f.meta[i] \in Tensors /\ f.meta[i].lo <= f.meta[i].hi
    BY <1>1, <1>2 DEF ToSet
  <2>2. /\ f.meta[i].dtype \in STRING /\ f.meta[i].bytes \in Nat
        /\ f.meta[i].lo \in Nat /\ f.meta[i].hi \in Nat
    BY <2>1 DEF Tensors
  <2>3. /\ f.head + f.meta[i].lo \in Nat /\ f.head + f.meta[i].hi \in Nat
        /\ f.head + f.meta[i].lo <= f.head + f.meta[i].hi
    BY <1>1, <2>1, <2>2
  <2> QED
    BY <2>2, <2>3 DEF Span
<1>7. N \in SUBSET Nat
  BY <1>1, <1>3 DEF Tensors
<1> HIDE DEF N, entry
<1>8. Header(f) \in [N -> Span]
  <2>1. ASSUME NEW x \in N PROVE entry(of(x)) \in Span
    <3>1. PICK i \in DOMAIN f.meta : x = f.meta[i].name
      BY <1>3
    <3> QED
      BY <1>5, <1>6, <3>1
  <2> QED
    BY <1>4, <2>1
<1>9. Header(f) \in Headers
  BY <1>7, <1>8 DEF Headers
<1>10. ASSUME NEW i \in DOMAIN f.meta PROVE Header(f)[f.meta[i].name] = entry(f.meta[i])
  BY <1>3, <1>4, <1>5
<1> QED
  BY <1>3, <1>4, <1>9, <1>10 DEF entry

(* The header of a source is kept.                                         *)
LEMMA ReadHeaderSound == ASSUME IInv, NEW c \in Calls, ReadHeader(c) PROVE IInv'
<1> DEFINE p == Entry(c).path
           sources == [q \in DOMAIN job[c].sources \union {p} |->
                          IF q = p THEN Header(disk[p]) ELSE job[c].sources[q]]
<1>1. /\ Selecting(c) /\ job[c].stat /= Missing /\ p \notin DOMAIN job[c].sources
      /\ UNCHANGED <<disk, replaced, faults>>
      /\ \/ Raise(c)
         \/ /\ disk[p] /= Missing /\ Readable(disk[p], job[c].stat)
            /\ job' = [job EXCEPT ![c].sources = sources]
  BY DEF ReadHeader
<1>2. CASE Raise(c)
  BY <1>1, <1>2, SelectRaises
<1>3. CASE /\ disk[p] /= Missing /\ Readable(disk[p], job[c].stat)
           /\ job' = [job EXCEPT ![c].sources = sources]
  <2> DEFINE r == [job[c] EXCEPT !.sources = sources]
  <2>1. /\ job[c] \in Jobs /\ Phase(disk, replaced, job[c]) /\ job[c].pc = "select"
        /\ p \in Paths /\ IsSource(p)
    BY <1>1, SelectingCall
  <2>2. Header(disk[p]) \in Headers
    BY <1>3, <2>1, FileThere, HeaderShape
  <2>3. sources \in UNION {[D -> Headers] : D \in SUBSET Paths}
    <3>1. PICK D \in SUBSET Paths : job[c].sources \in [D -> Headers]
      BY <2>1 DEF Jobs
    <3> DEFINE E == D \union {p}
    <3>2. E \in SUBSET Paths /\ sources \in [E -> Headers]
      BY <2>1, <2>2, <3>1
    <3> HIDE DEF E, sources
    <3> QED
      BY <3>2
  <2>4. job' = [job EXCEPT ![c] = r]
    BY <1>3
  <2>5. DOMAIN sources = DOMAIN job[c].sources \union {p} /\ sources[p] = Header(disk[p])
    OBVIOUS
  <2>6. \A q \in DOMAIN job[c].sources : sources[q] = job[c].sources[q]
    BY <1>1
  <2> HIDE DEF sources, p
  <2>7. /\ r \in Jobs /\ r.pc = "select" /\ r.request = job[c].request /\ r.handle = job[c].handle
        /\ r.at = job[c].at /\ r.selected = job[c].selected /\ r.sources = sources
        /\ r.lost = job[c].lost
        /\ r.stat = job[c].stat
    BY <2>1, <2>3, Zenon DEF Jobs
  <2> HIDE DEF r
  <2>8. Chosen(disk, replaced, r) /\ SizeTaken(disk, replaced, r)
    BY <2>1, <2>7, ZenonT(30) DEF Phase, Chosen, SizeTaken
  <2>9. p \notin replaced => Readable(disk[p], FileSize(disk[p]))
    BY <1>1, <1>3, <2>1, Zenon DEF Phase, SizeTaken, Entry, p
  <2>10. HeadersRead(disk, replaced, r)
    <3>1. HeadersRead(disk, replaced, job[c])
      BY <2>1 DEF Phase
    <3> SUFFICES ASSUME NEW q \in DOMAIN sources
                 PROVE  /\ IsSource(q)
                        /\ q \notin replaced => /\ disk[q] /= Missing /\ Readable(disk[q], FileSize(disk[q]))
                                                /\ sources[q] = Header(disk[q])
      BY <2>7 DEF HeadersRead
    <3>2. CASE q = p
      BY <1>3, <2>1, <2>5, <2>9, <3>2
    <3>3. CASE q \in DOMAIN job[c].sources
      BY <2>6, <3>1, <3>3, Zenon DEF HeadersRead
    <3> QED
      BY <2>5, <3>2, <3>3
  <2> QED
    BY <1>1, <2>4, <2>7, <2>8, <2>10, SelectSound
<1> QED
  BY <1>1, <1>2, <1>3

(* The destination of a call that has selected all is nobody's source.     *)
LEMMA SelectedApart ==
    ASSUME IInv, NEW c \in Calls, job[c].pc = "select", ~Selecting(c)
    PROVE  /\ job[c].request \in Requests /\ job[c].request.to \in Paths
           /\ Apart(job[c].request)
<1> DEFINE q == job[c].request
           selected == job[c].selected
<1>1. job[c] \in Jobs /\ Phase(disk, replaced, job[c])
  BY JobIsSound
<1>2. q \in Requests /\ Chosen(disk, replaced, job[c]) /\ selected \in Seq(Items)
  BY <1>1 DEF Phase, Jobs
<1>3. Len(selected) \in Nat /\ Len(q.entries) \in Nat /\ DOMAIN q.entries = 1 .. Len(q.entries)
  BY <1>2, RequestShape, LenProperties
<1>4. Len(selected) <= Len(q.entries) /\ ~(Len(selected) < Len(q.entries))
  BY <1>2 DEF Chosen, Selecting
<1>5. DOMAIN q.entries = 1 .. Len(selected)
  BY <1>3, <1>4
<1>6. \A i \in DOMAIN q.entries : q.entries[i].path /= q.to
  BY <1>2, <1>5 DEF Chosen, Good
<1>7. q \in Requests
  BY <1>2
<1> HIDE DEF q
<1>8. Apart(q)
  BY <1>6, <1>7, StagingAssumption, SMTT(30) DEF Apart
<1> QED
  BY <1>7, <1>8, RequestShape DEF q

(* A tensor is found, or refused.                                          *)
LEMMA ChooseSound == ASSUME IInv, NEW c \in Calls, Select(c) PROVE IInv'
<1> DEFINE e == Entry(c)
           header == job[c].sources[e.path]
           meta == header[e.name]
           x == [name |-> e.name, path |-> e.path, meta |-> meta]
           n == Len(job[c].selected)
<1>1. /\ Selecting(c) /\ job[c].stat /= Missing /\ e.path \in DOMAIN job[c].sources
      /\ UNCHANGED <<disk, replaced, faults>>
      /\ \/ Raise(c)
         \/ /\ e.name \in DOMAIN header /\ meta.dtype = Expected /\ meta.to - meta.from = meta.bytes
            /\ job' = [job EXCEPT ![c].stat = Missing, ![c].selected = Append(@, x)]
  BY DEF Select
<1>2. CASE Raise(c)
  BY <1>1, <1>2, SelectRaises
<1>3. CASE /\ e.name \in DOMAIN header /\ meta.dtype = Expected /\ meta.to - meta.from = meta.bytes
           /\ job' = [job EXCEPT ![c].stat = Missing, ![c].selected = Append(@, x)]
  <2> DEFINE r == [job[c] EXCEPT !.stat = Missing, !.selected = Append(job[c].selected, x)]
             q == job[c].request
  <2>1. /\ job[c] \in Jobs /\ Phase(disk, replaced, job[c]) /\ job[c].pc = "select"
        /\ q \in Requests /\ n \in Nat /\ n + 1 \in DOMAIN q.entries
        /\ e.path \in Paths /\ e.name \in Nat /\ IsSource(e.path) /\ e = q.entries[n + 1]
    BY <1>1, SelectingCall, ZenonT(30) DEF Entry
  <2>2. x \in Items
    <3>1. PICK D \in SUBSET Paths : job[c].sources \in [D -> Headers]
      BY <2>1, ZenonT(30) DEF Jobs
    <3>2. header \in Headers
      BY <1>1, <3>1
    <3>3. meta \in Span
      <4> HIDE DEF header
      <4> QED
        BY <1>3, <3>2, Zenon DEF Headers
    <3> HIDE DEF meta, e
    <3> QED
      BY <2>1, <3>3, Zenon DEF Items
  <2>3. job' = [job EXCEPT ![c] = r]
    BY <1>3, Zenon
  <2>4. job[c].selected \in Seq(Items)
    BY <2>1 DEF Jobs
  <2>5. /\ Append(job[c].selected, x) \in Seq(Items)
        /\ Len(Append(job[c].selected, x)) = n + 1
        /\ \A i \in 1 .. n : Append(job[c].selected, x)[i] = job[c].selected[i]
        /\ Append(job[c].selected, x)[n + 1] = x
    <3> HIDE DEF x
    <3> QED
      BY <2>2, <2>4, AppendProperties, SMTT(30)
  <2>6. Good(disk, replaced, q, x)
    <3>1. e.path /= q.to /\ (e.path \notin replaced => disk[e.path] /= Missing)
      BY <1>1, <2>1, Zenon DEF Phase, SizeTaken
    <3>2. e.path \notin replaced => /\ Readable(disk[e.path], FileSize(disk[e.path]))
                                    /\ header = Header(disk[e.path])
      BY <1>1, <2>1, Zenon DEF Phase, HeadersRead
    <3>3. x.name = e.name /\ x.path = e.path /\ x.meta = meta /\ Size(x) = meta.to - meta.from
      BY Zenon DEF Size
    <3> HIDE DEF x, e
    <3>4. \E i \in DOMAIN q.entries : q.entries[i].name = x.name /\ q.entries[i].path = x.path
      BY <2>1, <3>3, Zenon
    <3> QED
      BY <1>3, <3>1, <3>2, <3>3, <3>4, Zenon DEF Good
  <2>7. x.name = e.name /\ x.path = e.path
    BY Zenon
  <2> HIDE DEF x, meta, header
  <2>8. /\ r \in Jobs /\ r.pc = "select" /\ r.request = q /\ r.handle = job[c].handle
        /\ r.at = job[c].at /\ r.selected = Append(job[c].selected, x) /\ r.sources = job[c].sources
        /\ r.lost = job[c].lost
        /\ r.stat = Missing
    BY <2>1, <2>5, Zenon DEF Jobs
  <2> HIDE DEF r, e, n, q
  <2>9. Chosen(disk, replaced, r)
    <3>1. n + 1 <= Len(q.entries)
      BY <2>1, RequestShape
    <3>2. Chosen(disk, replaced, job[c])
      BY <2>1 DEF Phase
    <3>3. ASSUME NEW i \in 1 .. n + 1
          PROVE  /\ r.selected[i].name = q.entries[i].name
                 /\ r.selected[i].path = q.entries[i].path
                 /\ Good(disk, replaced, q, r.selected[i])
      <4>1. CASE i = n + 1
        BY <2>1, <2>5, <2>6, <2>7, <2>8, <4>1
      <4>2. CASE i \in 1 .. n
        <5>1. r.selected[i] = job[c].selected[i]
          BY <2>5, <2>8, <4>2, SMTT(30)
        <5> QED
          BY <3>2, <4>2, <5>1, Zenon DEF Chosen, n, q
      <4> QED
        BY <2>1, <4>1, <4>2
    <3> QED
      BY <2>5, <2>8, <3>1, <3>3 DEF Chosen
  <2>10. HeadersRead(disk, replaced, r) /\ SizeTaken(disk, replaced, r)
    BY <2>1, <2>8 DEF Phase, HeadersRead, SizeTaken
  <2> QED
    BY <1>1, <2>3, <2>8, <2>9, <2>10, SelectSound, Zenon DEF q
<1> QED
  BY <1>1, <1>2, <1>3, Zenon
--------------------------------------------------------------------------------
(* The new file, when it has its header and no data.                       *)
LEMMA CreateSound == ASSUME IInv, NEW c \in Calls, Create(c) PROVE IInv'
<1> DEFINE q == job[c].request
           selected == job[c].selected
           items == Ordered(selected)
           f == [legible |-> TRUE, head |-> 1, meta |-> Layout(items), data |-> <<>>]
           r == [job[c] EXCEPT !.pc = "copy", !.selected = items, !.digest = <<Layout(items)>>]
<1>1. /\ job[c].pc = "select" /\ ~Selecting(c) /\ UNCHANGED <<replaced, faults>>
      /\ \/ Raise(c) /\ UNCHANGED disk
         \/ disk[q.to] = Missing /\ MakeFile(c)
  BY DEF Create
<1>2. /\ job[c] \in Jobs /\ Phase(disk, replaced, job[c]) /\ ~Made(job[c])
  BY <1>1, JobIsSound DEF Made
<1>3. faults' \in 0 .. MaxFaults /\ replaced' = replaced
  BY <1>1 DEF IInv, Types
<1>4. CASE Raise(c) /\ UNCHANGED disk
  BY <1>1, <1>2, <1>3, <1>4, RaiseSound
<1>5. CASE disk[q.to] = Missing /\ MakeFile(c)
  <2>1. /\ q \in Requests /\ Proper(q) /\ job[c].at = 1 /\ job[c].handle = Missing
        /\ Chosen(disk, replaced, job[c]) /\ selected \in Seq(Items) /\ ~job[c].lost
    BY <1>1, <1>2 DEF Phase, HandleFits, Jobs
  <2>2. /\ Len(selected) = Len(q.entries) /\ Len(selected) \in Nat
        /\ DOMAIN selected = 1 .. Len(selected) /\ DOMAIN q.entries = 1 .. Len(selected)
    <3>1. Len(selected) \in Nat /\ Len(q.entries) \in Nat /\ DOMAIN q.entries = 1 .. Len(q.entries)
      BY <2>1, RequestShape, LenProperties
    <3>2. Len(selected) <= Len(q.entries) /\ ~(Len(selected) < Len(q.entries))
      BY <1>1, <2>1 DEF Chosen, Selecting
    <3>3. DOMAIN selected = 1 .. Len(selected)
      BY <2>1, LenProperties
    <3> QED
      BY <3>1, <3>2, <3>3
  <2>3. \A i \in DOMAIN selected :
           /\ selected[i].name = q.entries[i].name /\ selected[i].path = q.entries[i].path
           /\ Good(disk, replaced, q, selected[i])
    BY <2>1, <2>2, Zenon DEF Chosen
  <2>4. Apart(q)
    <3>1. \A i \in DOMAIN q.entries : q.entries[i].path /= q.to
      BY <2>2, <2>3 DEF Good
    <3> QED
      BY <2>1, <3>1, StagingAssumption, SMTT(30) DEF Apart
  <2>5. /\ items \in Seq(Items) /\ Len(items) = Len(selected)
        /\ Ascends(items) /\ ToSet(items) = ToSet(selected)
    <3>1. \A i, j \in DOMAIN selected : selected[i].name = selected[j].name => i = j
      BY <2>1, <2>2, <2>3 DEF Proper
    <3> HIDE DEF selected
    <3> QED
      BY <2>1, <3>1, OrderedAscends
  <2>6. Layout(items) \in Seq(Tensors) /\ Len(items) \in Nat /\ DOMAIN items = 1 .. Len(items)
    <3> HIDE DEF items
    <3> QED
      BY <2>5, LayoutShape, LenProperties
  <2>7. job' = [job EXCEPT ![c] = r] /\ disk' = [disk EXCEPT ![q.to] = f]
    BY <1>5 DEF MakeFile
  <2>8. f \in Files /\ f.legible /\ f.meta = Layout(items) /\ f.data = <<>>
    <3>1. <<>> \in Seq(Cell)
      BY EmptySeq
    <3> HIDE DEF items
    <3> QED
      BY <2>6, <3>1 DEF Files
  <2> HIDE DEF items, f, selected, q
  <2>9. /\ r \in Jobs /\ r.pc = "copy" /\ r.request = q /\ r.selected = items
        /\ r.digest = <<Layout(items)>> /\ r.at = 1 /\ r.handle = Missing /\ ~r.lost
    <3>1. <<Layout(items)>> \in Seq(Cell \union Seq(Tensors))
      BY <2>6
    <3>2. r \in Jobs
      BY <1>2, <2>5, <3>1 DEF Jobs
    <3>3. /\ r.pc = "copy" /\ r.request = q /\ r.selected = items
          /\ r.digest = <<Layout(items)>> /\ r.at = 1 /\ r.handle = Missing /\ ~r.lost
      BY <1>2, <2>1 DEF Jobs, q
    <3> QED
      BY <3>2, <3>3
  <2> HIDE DEF r
  <2>10. job' \in [Calls -> Jobs] /\ job'[c] = r /\ \A d \in Calls \ {c} : job'[d] = job[d]
    BY <2>7, <2>9, JobSet
  <2>11. q.to \in Paths /\ disk \in [Paths -> Files \union {Missing}]
    BY <2>1, RequestShape DEF IInv, Types
  <2>12. Types' /\ disk'[q.to] = f
    BY <1>1, <2>7, <2>8, <2>10, <2>11 DEF IInv, Types
  <2>13. Steps(c)
    BY <1>1, <1>2, <1>5, <2>4, <2>7, <2>9, <2>10, <2>11 DEF Steps, Made, q
  <2>14. Keeps(disk, replaced, disk', replaced)
    BY <1>3, <2>13, SourcesStay
  <2>15. Listed(disk', replaced, r)
    <3>1. \A x \in ToSet(items) : \E i \in DOMAIN selected : x = selected[i]
      BY <2>5 DEF ToSet
    <3>2. \A i \in 1 .. Len(items) : items[i] \in ToSet(items)
      BY <2>6 DEF ToSet
    <3>3. \A i \in 1 .. Len(items) : Good(disk', replaced, q, items[i])
      <4> TAKE i \in 1 .. Len(items)
      <4>1. PICK k \in DOMAIN selected : items[i] = selected[k]
        BY <3>1, <3>2
      <4>2. Good(disk, replaced, q, items[i])
        BY <2>3, <4>1
      <4> QED
        BY <2>1, <2>14, <4>2, GoodKept
    <3>4. ASSUME NEW e \in DOMAIN q.entries
          PROVE  \E i \in 1 .. Len(items) : items[i].name = q.entries[e].name /\ items[i].path = q.entries[e].path
      <4>1. selected[e] \in ToSet(items)
        BY <2>2, <2>5 DEF ToSet
      <4>2. PICK i \in 1 .. Len(items) : items[i] = selected[e]
        BY <2>6, <4>1 DEF ToSet
      <4> QED
        BY <2>2, <2>3, <4>2
    <3> QED
      BY <2>4, <2>5, <2>9, <3>3, <3>4 DEF Listed
  <2>16. Len(f.data) = 0 /\ Offsets(items)[0] = 0 /\ Offsets(items) \in [0 .. Len(items) -> Nat]
    BY <2>5, <2>8, EmptySeq, OffsetsSum
  <2>17. Written(disk', r)
    <3>1. <<f.meta>> \o f.data = <<Layout(items)>>
      <4>1. <<Layout(items)>> \in Seq({Layout(items)})
        OBVIOUS
      <4> QED
        BY <2>8, <4>1, ConcatEmptySeq
    <3> QED
      BY <2>6, <2>8, <2>9, <2>12, <2>16, <3>1 DEF Written
  <2>18. \A i \in 1 .. Len(items) : Copied(disk', replaced, r, i)
    <3> TAKE i \in 1 .. Len(items)
    <3>1. Offsets(items)[i - 1] \in Nat
      <4>1. i - 1 \in 0 .. Len(items)
        BY <2>6
      <4> QED
        BY <2>16, <4>1
    <3>2. items[i] \in Items
      BY <2>5, ElementOfSeq
    <3>3. Size(items[i]) \in Nat
      BY <3>2, SizeIsNat
    <3>4. \A k \in 1 .. Size(items[i]) : ~(Offsets(items)[i - 1] + k <= Len(f.data))
      BY <2>16, <3>1, <3>3
    <3> QED
      BY <2>9, <2>12, <3>4 DEF Copied
  <2>19. Phase(disk', replaced, job'[c])
    BY <2>1, <2>9, <2>10, <2>15, <2>17, <2>18 DEF Phase, Made, Making, HandleFits
  <2> QED
    BY <2>12, <2>13, <2>19, StepSound
<1> QED
  BY <1>1, <1>4, <1>5

(* Where a call that copies is.                                            *)
LEMMA CopyingCall ==
    ASSUME IInv, NEW c \in Calls, Copying(c)
    PROVE  /\ job[c] \in Jobs /\ Phase(disk, replaced, job[c]) /\ job[c].pc = "copy" /\ Made(job[c])
           /\ Making(disk, replaced, job[c])
           /\ job[c].request \in Requests /\ job[c].request.to \in Paths
           /\ disk[job[c].request.to] \in Files /\ disk[job[c].request.to] /= Missing
           /\ job[c].selected \in Seq(Items)
           /\ Len(job[c].selected) \in Nat
           /\ job[c].at \in 1 .. Len(job[c].selected)
           /\ Item(c) \in Items /\ Item(c).path \in Paths /\ Size(Item(c)) \in Nat
           /\ Good(disk, replaced, job[c].request, Item(c))
<1>1. job[c] \in Jobs /\ Phase(disk, replaced, job[c]) /\ job[c].pc = "copy" /\ Made(job[c])
  BY JobIsSound DEF Copying, Made
<1>2. Making(disk, replaced, job[c]) /\ job[c].selected \in Seq(Items)
  BY <1>1 DEF Phase, Jobs
<1>3. Len(job[c].selected) \in Nat
  BY <1>2, LenProperties, ZenonT(30)
<1>4. job[c].at \in 1 .. Len(job[c].selected)
  <2>1. job[c].at \in 1 .. Len(job[c].selected) + 1
    BY <1>2, Zenon DEF Making, Written
  <2>2. job[c].at <= Len(job[c].selected)
    BY Zenon DEF Copying
  <2> QED
    BY <1>3, <2>1, <2>2
<1>5. Item(c) \in Items
  BY <1>2, <1>4, ElementOfSeq DEF Item
<1>6. Item(c).path \in Paths /\ Size(Item(c)) \in Nat
  BY <1>5, SizeIsNat DEF Items
<1>7. Good(disk, replaced, job[c].request, Item(c))
  BY <1>2, <1>4 DEF Making, Listed, Item
<1> QED
  BY <1>1, <1>2, <1>3, <1>4, <1>5, <1>6, <1>7, MadeIsThere

(* A step of a call that has made its file, and does not write to it.      *)
LEMMA MadeSound ==
    ASSUME IInv, NEW c \in Calls, Made(job[c]), NEW r \in Jobs,
           job' = [job EXCEPT ![c] = r], UNCHANGED <<disk, replaced>>, faults' \in 0 .. MaxFaults,
           Made(r), r.request = job[c].request, r.selected = job[c].selected,
           Written(disk, r), HandleFits(disk, replaced, r)
    PROVE  IInv'
<1>1. Phase(disk, replaced, job[c]) /\ Making(disk, replaced, job[c]) /\ job[c].request \in Requests
  BY JobIsSound DEF Phase, Made
<1>2. job' \in [Calls -> Jobs] /\ job'[c] = r /\ \A d \in Calls \ {c} : job'[d] = job[d]
  BY JobSet, Zenon
<1>3. Making(disk, replaced, r)
  BY <1>1, Zenon DEF Making, Listed, Copied
<1>4. Phase(disk', replaced, job'[c])
  BY <1>1, <1>2, <1>3 DEF Phase, Made
<1>5. Types'
  BY <1>2 DEF IInv, Types
<1>6. Steps(c)
  BY <1>2 DEF Steps
<1> QED
  BY <1>4, <1>5, <1>6, StepSound

(* A call removes a file that it did not make: whose it was loses it.      *)
LEMMA LossSound ==
    ASSUME IInv, NEW c \in Calls, ~Made(job[c]), job[c].request \in Requests,
           Apart(job[c].request), Abandon(c), UNCHANGED replaced, faults' \in 0 .. MaxFaults
    PROVE  IInv'
<1> DEFINE to == job[c].request.to
           Robbed(d) == Made(job[d]) /\ job[d].request.to = to
           r == [job[c] EXCEPT !.pc = "raised", !.handle = Missing]
           l(d) == [job[d] EXCEPT !.lost = TRUE, !.handle = Missing]
<1>1. /\ disk' = [disk EXCEPT ![to] = Missing]
      /\ job' = [d \in Calls |-> IF d = c THEN r ELSE IF Robbed(d) THEN l(d) ELSE job[d]]
  BY DEF Abandon
<1>2. disk \in [Paths -> Files \union {Missing}] /\ replaced \subseteq Paths /\ to \in Paths
  BY RequestShape DEF IInv, Types
<1>3. disk'[to] = Missing /\ \A p : p /= to => disk'[p] = disk[p]
  <2>0. disk' = [disk EXCEPT ![to] = Missing]
    BY <1>1
  <2> HIDE DEF to, r, l, Robbed
  <2>1. disk'[to] = Missing
    BY <1>2, <2>0
  <2>2. ASSUME NEW p, p /= to PROVE disk'[p] = disk[p]
    BY <1>2, <2>0, <2>2
  <2> QED
    BY <2>1, <2>2
<1>4. /\ r \in Jobs /\ r.pc = "raised" /\ r.handle = Missing /\ r.request = job[c].request
      /\ r.lost = job[c].lost
  BY JobIsSound DEF Jobs
<1>5. ASSUME NEW d \in Calls
      PROVE  /\ l(d) \in Jobs /\ l(d).pc = job[d].pc /\ l(d).handle = Missing
             /\ l(d).request = job[d].request /\ l(d).lost
  BY JobIsSound DEF Jobs
<1> HIDE DEF r, l, Robbed, to
<1>6. /\ job'[c] = r /\ \A d \in Calls \ {c} : job'[d] = IF Robbed(d) THEN l(d) ELSE job[d]
      /\ \A d \in Calls : job[d] \in Jobs
  BY <1>1, JobIsSound
<1>7. Types'
  <2>1. job' \in [Calls -> Jobs]
    BY <1>1, <1>4, <1>5, <1>6
  <2>2. disk' \in [Paths -> Files \union {Missing}]
    BY <1>1, <1>2
  <2> QED
    BY <1>2, <2>1, <2>2 DEF Types
<1>8. ASSUME NEW d \in Calls
      PROVE  /\ Made(job'[d]) => /\ Made(job[d]) /\ d /= c /\ job'[d] = job[d]
                                 /\ job[d].request.to /= to
             /\ Made(job[d]) /\ ~Robbed(d) => job'[d] = job[d]
  <2>1. CASE d = c
    BY <1>4, <1>6, <2>1 DEF Made
  <2>2. CASE d /= c /\ Robbed(d)
    BY <1>5, <1>6, <2>2 DEF Made
  <2>3. CASE d /= c /\ ~Robbed(d)
    BY <1>6, <2>3 DEF Robbed
  <2> QED
    BY <2>1, <2>2, <2>3
<1>9. Keeps(disk, replaced, disk', replaced')
  <2>1. \A p : IsSource(p) => p /= to
    BY DEF IsSource, Apart, to
  <2> QED
    BY <1>3, <2>1 DEF Keeps
<1>10. Phases'
  <2> SUFFICES ASSUME NEW d \in Calls PROVE Phase(disk', replaced', job'[d])
    BY DEF Phases
  <2>0. Phase(disk, replaced, job[d]) /\ job[d] \in Jobs
    BY JobIsSound
  <2>1. CASE d = c
    <3>1. r.lost => Apart(r.request)
      BY <1>4
    <3> QED
      BY <1>4, <1>6, <2>1, <3>1 DEF Phase, Made, HandleFits
  <2>2. CASE d /= c /\ Robbed(d)
    <3>1. job[d].pc \in {"copy", "left", "returned"} /\ Apart(job[d].request) /\ job[d].request \in Requests
      BY <2>2, MadeIsThere DEF Robbed, Made
    <3> QED
      BY <1>5, <1>6, <2>2, <3>1 DEF Phase, Made, HandleFits
  <2>3. CASE d /= c /\ ~Robbed(d)
    <3>1. Made(job[d]) => disk'[job[d].request.to] = disk[job[d].request.to]
      BY <1>3, <2>3 DEF Robbed
    <3> QED
      BY <1>6, <1>9, <2>0, <2>3, <3>1, PhaseKept
  <2> QED
    BY <2>1, <2>2, <2>3
<1>11. OneMaker'
  <2> SUFFICES ASSUME NEW a \in Calls, NEW b \in Calls, Made(job'[a]), Made(job'[b]),
                      job'[a].request.to = job'[b].request.to
               PROVE  a = b
    BY DEF OneMaker, Made
  <2> QED
    BY <1>8 DEF IInv, OneMaker
<1>12. Provenance'
  <2> SUFFICES ASSUME NEW p \in Paths \ replaced
               PROVE  \/ disk'[p] \in {Missing} \union {k[p] : k \in Disks}
                      \/ \E d \in Calls : Made(job'[d]) /\ job'[d].request.to = p
    BY DEF Provenance, Made
  <2>1. CASE p = to
    BY <1>3, <2>1
  <2>2. CASE p /= to /\ disk[p] \in {Missing} \union {k[p] : k \in Disks}
    BY <1>3, <2>2
  <2>3. CASE p /= to /\ \E d \in Calls : Made(job[d]) /\ job[d].request.to = p
    <3>1. PICK d \in Calls : Made(job[d]) /\ job[d].request.to = p
      BY <2>3
    <3>2. job'[d] = job[d]
      BY <1>8, <2>3, <3>1 DEF Robbed
    <3> QED
      BY <3>1, <3>2
  <2> QED
    BY <2>1, <2>2, <2>3 DEF IInv, Provenance
<1> QED
  BY <1>7, <1>10, <1>11, <1>12 DEF IInv

(* The handlers of the copy remove the call's own file.                    *)
LEMMA AbandonSound ==
    ASSUME IInv, NEW c \in Calls, Copying(c), Abandon(c), UNCHANGED replaced, faults' \in 0 .. MaxFaults
    PROVE  IInv'
<1> DEFINE r == [job[c] EXCEPT !.pc = "raised", !.handle = Missing]
<1>1. Made(job[c]) /\ job[c].pc = "copy"
  BY CopyingCall
<1>2. \A d \in Calls \ {c} : ~(Made(job[d]) /\ job[d].request.to = job[c].request.to)
  BY <1>1 DEF IInv, OneMaker
<1>3. job' = [d \in Calls |-> IF d = c THEN r ELSE job[d]]
  BY <1>2, Zenon DEF Abandon
<1>4. job \in [Calls -> Jobs]
  BY DEF IInv, Types
<1> HIDE DEF r
<1>5. job' = [job EXCEPT ![c] = r]
  BY <1>3, <1>4
<1>6. Raise(c)
  BY <1>5 DEF Raise, r
<1>7. disk' = [disk EXCEPT ![job[c].request.to] = Missing]
  BY DEF Abandon
<1> QED
  BY <1>1, <1>6, <1>7, RaiseSound

(* A source is opened for its next tensor.                                 *)
LEMMA OpenSound == ASSUME IInv, NEW c \in Calls, Open(c) PROVE IInv'
<1> DEFINE p == Item(c).path
           r == [job[c] EXCEPT !.handle = disk[p], !.done = 0]
<1>1. /\ Copying(c) /\ job[c].handle = Missing /\ UNCHANGED <<replaced, faults>>
      /\ \/ Abandon(c)
         \/ disk[p] /= Missing /\ job' = [job EXCEPT ![c] = r] /\ UNCHANGED disk
  BY DEF Open
<1>2. faults' \in 0 .. MaxFaults
  BY <1>1 DEF IInv, Types
<1>3. CASE Abandon(c)
  BY <1>1, <1>2, <1>3, AbandonSound
<1>4. CASE disk[p] /= Missing /\ job' = [job EXCEPT ![c] = r] /\ UNCHANGED disk
  <2>1. /\ job[c] \in Jobs /\ job[c].pc = "copy" /\ Made(job[c]) /\ Making(disk, replaced, job[c])
        /\ p \in Paths /\ Size(Item(c)) \in Nat /\ job[c].at \in 1 .. Len(job[c].selected)
        /\ job[c].selected \in Seq(Items) /\ Len(job[c].selected) \in Nat
    BY <1>1, CopyingCall
  <2>2. disk[p] \in Files
    BY <1>4, <2>1, FileThere
  <2>3. /\ r \in Jobs /\ r.pc = "copy" /\ r.request = job[c].request /\ r.selected = job[c].selected
        /\ r.at = job[c].at /\ r.digest = job[c].digest /\ r.handle = disk[p] /\ r.done = 0
        /\ r.lost = job[c].lost
    BY <2>1, <2>2 DEF Jobs
  <2>4. p = job[c].selected[job[c].at].path /\ Item(c) = job[c].selected[job[c].at]
    BY DEF Item
  <2> HIDE DEF r, p
  <2>5. HandleFits(disk, replaced, r)
    BY <2>1, <2>3, <2>4 DEF HandleFits, Made
  <2>6. Written(disk, r)
    <3>1. Written(disk, job[c])
      BY <2>1 DEF Making
    <3>2. Offsets(job[c].selected)[job[c].at - 1] \in Nat
      <4>1. job[c].at - 1 \in 0 .. Len(job[c].selected)
        BY <2>1, SMTT(30)
      <4> QED
        BY <2>1, <4>1, OffsetsSum, Zenon
    <3>3. Len(disk[job[c].request.to].data) = Offsets(job[c].selected)[job[c].at - 1] + 0
      BY <1>1, <2>1, <3>1, Zenon DEF Written
    <3>4. disk[p] /= Missing
      BY <1>4
    <3> QED
      BY <2>1, <2>3, <3>1, <3>3, <3>4, Zenon DEF Written
  <2> QED
    BY <1>1, <1>2, <1>4, <2>1, <2>3, <2>5, <2>6, MadeSound DEF Made
<1> QED
  BY <1>1, <1>3, <1>4

(* What an open file reads.                                                *)
LEMMA CellsShape ==
    ASSUME NEW f \in Files
    PROVE  /\ Cells(f) \in Seq(Cell) /\ Len(Cells(f)) = FileSize(f)
           /\ \A k \in 1 .. Len(f.data) : Cells(f)[f.head + k] = f.data[k]
<1> DEFINE h == [k \in 1 .. f.head |-> <<"header", k>>]
<1>1. f.head \in Nat /\ f.data \in Seq(Cell)
  BY DEF Files
<1>2. h \in [1 .. f.head -> Cell]
  BY <1>1 DEF Cell
<1>3. h \in Seq(Cell) /\ Len(h) = f.head
  <2> HIDE DEF h
  <2> QED
    BY <1>1, <1>2, FunctionIsSequence
<1> HIDE DEF h
<1>4. Len(f.data) \in Nat
  BY <1>1, LenProperties
<1>5. /\ h \o f.data \in Seq(Cell) /\ Len(h \o f.data) = f.head + Len(f.data)
      /\ \A i \in 1 .. f.head + Len(f.data) :
            (h \o f.data)[i] = IF i <= f.head THEN h[i] ELSE f.data[i - f.head]
  <2> DEFINE d == f.data
  <2>1. d \in Seq(Cell)
    BY <1>1
  <2> HIDE DEF d
  <2>2. /\ h \o d \in Seq(Cell) /\ Len(h \o d) = Len(h) + Len(d)
        /\ \A i \in 1 .. Len(h) + Len(d) : (h \o d)[i] = IF i <= Len(h) THEN h[i] ELSE d[i - Len(h)]
    BY <1>3, <2>1, ConcatProperties
  <2>3. /\ h \o d \in Seq(Cell) /\ Len(h \o d) = f.head + Len(d)
        /\ \A i \in 1 .. f.head + Len(d) : (h \o d)[i] = IF i <= f.head THEN h[i] ELSE d[i - f.head]
    BY <1>3, <2>2
  <2> QED
    BY <2>3 DEF d
<1>6. ASSUME NEW k \in 1 .. Len(f.data) PROVE (h \o f.data)[f.head + k] = f.data[k]
  <2>1. f.head + k \in 1 .. f.head + Len(f.data) /\ ~(f.head + k <= f.head) /\ (f.head + k) - f.head = k
    BY <1>1, <1>4
  <2> QED
    BY <1>5, <2>1
<1>7. Cells(f) = h \o f.data
  BY DEF Cells, h
<1> QED
  BY <1>5, <1>6, <1>7 DEF FileSize

(* A chunk is no longer than what is left of the tensor.                   *)
LEMMA ChunkShape ==
    ASSUME NEW h \in Files, NEW from \in Nat, NEW to \in Nat, from <= to
    PROVE  LET chunk == SubSeq(Cells(h), from + 1, Min({to, from + Buffer, FileSize(h)}))
           IN  /\ chunk \in Seq(Cell) /\ Len(chunk) \in Nat /\ from + Len(chunk) <= to
               /\ \A k \in 1 .. Len(chunk) : chunk[k] = Cells(h)[from + k]
<1> DEFINE end == Min({to, from + Buffer, FileSize(h)})
           s == Cells(h)
<1>1. FileSize(h) \in Nat /\ from + Buffer \in Nat
  BY SizeOfFile, BufferAssumption
<1>2. end \in Nat /\ end <= to /\ end <= FileSize(h)
  <2>1. \E x \in {to, from + Buffer, FileSize(h)} : \A y \in {to, from + Buffer, FileSize(h)} : x <= y
    BY <1>1
  <2>2. /\ end \in {to, from + Buffer, FileSize(h)}
        /\ \A y \in {to, from + Buffer, FileSize(h)} : end <= y
    BY <2>1 DEF Min
  <2> HIDE DEF end
  <2> QED
    BY <1>1, <2>2
<1>3. s \in Seq(Cell) /\ Len(s) = FileSize(h)
  BY CellsShape
<1> HIDE DEF end, s
<1>4. \A i \in from + 1 .. end : s[i] \in Cell
  <2> TAKE i \in from + 1 .. end
  <2>1. i \in 1 .. Len(s)
    BY <1>1, <1>2, <1>3
  <2> QED
    BY <1>3, <2>1, ElementOfSeq
<1>5. from + 1 \in Int /\ end \in Int
  BY <1>2
<1> DEFINE m == from + 1
<1>6. /\ SubSeq(s, m, end) \in Seq(Cell)
      /\ Len(SubSeq(s, m, end)) = IF m <= end THEN end - m + 1 ELSE 0
      /\ \A i \in 1 .. end - m + 1 : SubSeq(s, m, end)[i] = s[m + i - 1]
  <2>1. m \in Int /\ \A i \in m .. end : s[i] \in Cell
    BY <1>4, <1>5
  <2> HIDE DEF m
  <2> QED
    BY <1>5, <2>1, SubSeqProperties
<1> DEFINE chunk == SubSeq(s, m, end)
<1>7. Len(chunk) \in Nat /\ from + Len(chunk) <= to
  BY <1>2, <1>6
<1>8. \A k \in 1 .. Len(chunk) : chunk[k] = s[from + k]
  <2> TAKE k \in 1 .. Len(chunk)
  <2>1. k \in 1 .. end - m + 1 /\ m + k - 1 = from + k
    BY <1>2, <1>6
  <2> HIDE DEF m
  <2> QED
    BY <1>6, <2>1
<1> QED
  BY <1>6, <1>7, <1>8 DEF s, end

(* A tensor is copied to its end.                                          *)
LEMMA NextTensorSound ==
    ASSUME IInv, NEW c \in Calls, Copying(c), job[c].handle /= Missing, NextTensor(c),
           UNCHANGED <<replaced, faults>>
    PROVE  IInv'
<1> DEFINE r == [job[c] EXCEPT !.at = job[c].at + 1, !.handle = Missing]
           n == Len(job[c].selected)
           sum == Offsets(job[c].selected)
<1>1. /\ job[c] \in Jobs /\ job[c].pc = "copy" /\ Made(job[c]) /\ Making(disk, replaced, job[c])
      /\ Size(Item(c)) \in Nat /\ job[c].at \in 1 .. n /\ job[c].selected \in Seq(Items) /\ n \in Nat
  BY CopyingCall
<1>2. /\ job[c].done = Size(Item(c)) /\ UNCHANGED disk /\ job' = [job EXCEPT ![c] = r]
  BY DEF NextTensor
<1>3. faults' \in 0 .. MaxFaults
  BY DEF IInv, Types
<1>4. job[c].at + 1 \in Nat
  BY <1>1
<1>5. /\ r \in Jobs /\ r.pc = "copy" /\ r.request = job[c].request /\ r.selected = job[c].selected
      /\ r.at = job[c].at + 1 /\ r.digest = job[c].digest /\ r.handle = Missing
      /\ r.lost = job[c].lost
  BY <1>1, <1>4 DEF Jobs
<1> HIDE DEF r
<1>6. HandleFits(disk, replaced, r)
  BY <1>5 DEF HandleFits
<1>7. Written(disk, r)
  <2>1. Written(disk, job[c])
    BY <1>1, Zenon DEF Making
  <2>2. Len(disk[job[c].request.to].data) = sum[job[c].at - 1] + job[c].done
    BY <1>1, <2>1, Zenon DEF Written
  <2>3. sum[job[c].at] = sum[job[c].at - 1] + Size(Item(c)) /\ sum[job[c].at] \in Nat
    <3>1. job[c].at \in 0 .. n
      BY <1>1
    <3> QED
      BY <1>1, <3>1, OffsetsSum DEF Item
  <2>4. (job[c].at + 1) - 1 = job[c].at /\ job[c].at + 1 \in 1 .. n + 1
    BY <1>1
  <2>5. Len(disk[job[c].request.to].data) = sum[(job[c].at + 1) - 1] + 0
    BY <1>2, <2>2, <2>3, <2>4
  <2> HIDE DEF sum, n
  <2> QED
    BY <1>5, <2>1, <2>4, <2>5, Zenon DEF Written, sum, n
<1> QED
  BY <1>1, <1>2, <1>3, <1>5, <1>6, <1>7, MadeSound DEF Made

(* A chunk is appended to the file: it is the part of the source that      *)
(* comes next, and all that was there before stays.                        *)
LEMMA WriteChunkSound ==
    ASSUME IInv, NEW c \in Calls, Copying(c), job[c].handle /= Missing, WriteChunk(c),
           UNCHANGED <<replaced, faults>>
    PROVE  IInv'
<1> DEFINE q == job[c].request
           s == job[c].selected
           n == Len(s)
           a == job[c].at
           x == Item(c)
           sum == Offsets(s)
           f == disk[q.to]
           chunk == Chunk(c)
           d2 == f.data \o chunk
           f2 == [f EXCEPT !.data = d2]
           r == [job[c] EXCEPT !.done = job[c].done + Len(chunk), !.digest = job[c].digest \o chunk]
<1>1. /\ job[c] \in Jobs /\ Phase(disk, replaced, job[c]) /\ job[c].pc = "copy" /\ Made(job[c])
      /\ Making(disk, replaced, job[c]) /\ q \in Requests /\ q.to \in Paths
      /\ f \in Files /\ s \in Seq(Items) /\ n \in Nat /\ a \in 1 .. n
      /\ x \in Items /\ x.path \in Paths /\ Size(x) \in Nat /\ Good(disk, replaced, q, x)
  BY CopyingCall, Zenon
<1>2. /\ disk' = [disk EXCEPT ![q.to].data = d2] /\ job' = [job EXCEPT ![c] = r]
      /\ job[c].done < Size(x)
  BY Zenon DEF WriteChunk
<1>3. disk \in [Paths -> Files \union {Missing}] /\ faults' \in 0 .. MaxFaults
  BY SMTT(30) DEF IInv, Types
<1>4. disk' = [disk EXCEPT ![q.to] = f2]
  BY <1>1, <1>2, <1>3, SMTT(30)
<1>5. /\ job[c].handle \in Files /\ job[c].done \in Nat /\ x = s[a]
      /\ x.path \notin replaced => job[c].handle = disk[x.path]
  BY <1>1 DEF Jobs, Phase, HandleFits, Item
<1>6. /\ x.meta.from \in Nat /\ x.meta.to \in Nat /\ Size(x) = x.meta.to - x.meta.from
      /\ x.meta.from + job[c].done \in Nat /\ x.meta.from + job[c].done <= x.meta.to
  <2>1. x.meta.from \in Nat /\ x.meta.to \in Nat /\ x.meta.from <= x.meta.to /\ Size(x) = x.meta.to - x.meta.from
    BY <1>1, Zenon DEF Items, Span, Size
  <2> DEFINE from == x.meta.from
             to == x.meta.to
             size == Size(x)
             done == job[c].done
  <2>2. from \in Nat /\ to \in Nat /\ from <= to /\ size = to - from /\ done < size /\ done \in Nat
    BY <1>2, <1>5, <2>1, Zenon
  <2> HIDE DEF from, to, size, done
  <2>3. from + done \in Nat /\ from + done <= to
    BY <2>2
  <2> QED
    BY <2>1, <2>3 DEF from, to, done
<1>7. /\ chunk \in Seq(Cell) /\ Len(chunk) \in Nat
      /\ job[c].done + Len(chunk) <= Size(x)
      /\ \A k \in 1 .. Len(chunk) : chunk[k] = Cells(job[c].handle)[(x.meta.from + job[c].done) + k]
  <2> DEFINE from == x.meta.from + job[c].done
             to == x.meta.to
  <2>1. chunk = SubSeq(Cells(job[c].handle), from + 1, Min({to, from + Buffer, FileSize(job[c].handle)}))
    BY DEF Chunk
  <2>2. from \in Nat /\ to \in Nat /\ from <= to
    BY <1>6
  <2> HIDE DEF from, to, chunk
  <2>3. /\ chunk \in Seq(Cell) /\ Len(chunk) \in Nat /\ from + Len(chunk) <= to
        /\ \A k \in 1 .. Len(chunk) : chunk[k] = Cells(job[c].handle)[from + k]
    BY <1>5, <2>1, <2>2, ChunkShape
  <2>4. job[c].done + Len(chunk) <= Size(x)
    <3> DEFINE first == x.meta.from
               size == Size(x)
               done == job[c].done
    <3>1. /\ first \in Nat /\ to \in Nat /\ size = to - first /\ done \in Nat /\ from = first + done
      BY <1>5, <1>6, SMTT(30) DEF from, to
    <3> HIDE DEF first, size, done
    <3>2. done + Len(chunk) <= size
      BY <2>3, <3>1, SMTT(30)
    <3> QED
      BY <3>2 DEF size, done
  <2> QED
    BY <2>3, <2>4 DEF from
<1> HIDE DEF chunk
<1>8. /\ f.data \in Seq(Cell) /\ Len(f.data) \in Nat /\ f.meta = Layout(s) /\ f.legible
      /\ job[c].digest = <<f.meta>> \o f.data
      /\ Len(f.data) = sum[a - 1] + job[c].done
  <2>1. Written(disk, job[c])
    BY <1>1, Zenon DEF Making
  <2>2. f.data \in Seq(Cell) /\ f.meta = Layout(s) /\ f.legible
    BY <1>1, <2>1, Zenon DEF Files, Written
  <2>3. Len(f.data) \in Nat
    BY <2>2, LenProperties
  <2> QED
    BY <1>1, <2>1, <2>2, <2>3, Zenon DEF Written
<1>9. /\ d2 \in Seq(Cell) /\ Len(d2) = Len(f.data) + Len(chunk)
      /\ \A k \in 1 .. Len(f.data) + Len(chunk) :
            d2[k] = IF k <= Len(f.data) THEN f.data[k] ELSE chunk[k - Len(f.data)]
  <2> DEFINE d == f.data
  <2>1. d \in Seq(Cell)
    BY <1>8
  <2> HIDE DEF d, f
  <2>2. /\ d \o chunk \in Seq(Cell) /\ Len(d \o chunk) = Len(d) + Len(chunk)
        /\ \A k \in 1 .. Len(d) + Len(chunk) :
              (d \o chunk)[k] = IF k <= Len(d) THEN d[k] ELSE chunk[k - Len(d)]
    BY <1>7, <2>1, ConcatProperties, Zenon
  <2> QED
    BY <2>2, ZenonT(30) DEF d
<1>10. job[c].digest \o chunk = <<f.meta>> \o d2 /\ job[c].digest \o chunk \in Seq(Cell \union Seq(Tensors))
  <2> DEFINE A == Cell \union Seq(Tensors)
             d == f.data
             m == <<f.meta>>
  <2>1. f.meta \in A
    BY <1>1 DEF Files
  <2>2. d \in Seq(A) /\ chunk \in Seq(A)
    <3>1. Cell \subseteq A /\ d \in Seq(Cell)
      BY <1>8, Zenon
    <3> HIDE DEF A, d, f
    <3> QED
      BY <1>7, <3>1, SeqMonotonic, Zenon
  <2>3. m \in Seq(A)
    BY <2>1
  <2> HIDE DEF A, d, m
  <2>4. (m \o d) \o chunk = m \o (d \o chunk)
    BY <2>2, <2>3, ConcatAssociative, SMTT(30)
  <2>5. (m \o d) \o chunk \in Seq(A)
    BY <2>2, <2>3, ConcatProperties
  <2>6. job[c].digest = m \o d
    BY <1>8, Zenon DEF m, d
  <2> QED
    BY <2>4, <2>5, <2>6, Zenon DEF A, d, m
<1>11. /\ f2 \in Files /\ f2.legible /\ f2.meta = Layout(s) /\ f2.data = d2
  <2> HIDE DEF d2
  <2>1. f2 \in Files /\ f2.data = d2 /\ f2.meta = f.meta /\ f2.legible = f.legible
    BY <1>1, <1>9, ZenonT(30) DEF Files
  <2> QED
    BY <1>8, <2>1, Zenon
<1> HIDE DEF f2
<1>12. /\ r \in Jobs /\ r.pc = "copy" /\ r.request = q /\ r.selected = s /\ r.at = a
       /\ r.handle = job[c].handle /\ r.done = job[c].done + Len(chunk)
       /\ r.digest = <<f.meta>> \o d2 /\ ~r.lost
  <2>1. job[c].done + Len(chunk) \in Nat
    BY <1>5, <1>7, SMTT(30)
  <2> HIDE DEF d2
  <2>2. /\ r \in Jobs /\ r.pc = "copy" /\ r.request = q /\ r.selected = s /\ r.at = a
        /\ r.handle = job[c].handle /\ r.done = job[c].done + Len(chunk)
        /\ r.digest = job[c].digest \o chunk /\ r.lost = job[c].lost
    BY <1>1, <1>10, <2>1, Zenon DEF Jobs
  <2>3. ~job[c].lost
    BY <1>1 DEF Made
  <2> QED
    BY <1>10, <2>2, <2>3
<1> HIDE DEF r
<1>13. job' \in [Calls -> Jobs] /\ job'[c] = r /\ \A d \in Calls \ {c} : job'[d] = job[d]
  BY <1>2, <1>12, JobSet, ZenonT(30)
<1>14. Types' /\ disk'[q.to] = f2
  BY <1>1, <1>3, <1>4, <1>11, <1>13 DEF IInv, Types
<1>15. Apart(q)
  BY <1>1, Zenon DEF Making, Listed
<1>16. Steps(c)
  BY <1>1, <1>3, <1>4, <1>12, <1>13, <1>15, Zenon DEF Steps, Made
<1>17. Keeps(disk, replaced, disk', replaced)
  BY <1>16, SourcesStay
<1>18. Listed(disk', replaced, r)
  <2>1. \A i \in 1 .. n : Good(disk', replaced, q, s[i])
    BY <1>1, <1>17, GoodKept DEF Making, Listed
  <2> QED
    BY <1>1, <1>12, <2>1, Zenon DEF Making, Listed
<1> DEFINE done == job[c].done
<1>19. /\ sum[a - 1] \in Nat /\ sum[a] = sum[a - 1] + Size(x)
       /\ \A i \in 0 .. n : sum[i] \in Nat
       /\ \A i, j \in 0 .. n : i <= j => sum[i] <= sum[j]
  <2>1. /\ sum \in [0 .. n -> Nat]
        /\ \A i \in 1 .. n : sum[i] = sum[i - 1] + Size(s[i])
    BY <1>1, OffsetsSum
  <2>2. \A i, j \in 0 .. n : i <= j => sum[i] <= sum[j]
    BY <1>1, OffsetsTile
  <2>3. a - 1 \in 0 .. n
    BY <1>1
  <2> HIDE DEF sum, n, s, x, a
  <2> QED
    BY <1>1, <1>5, <2>1, <2>2, <2>3
<1>20. Len(f2.data) = sum[a - 1] + (done + Len(chunk))
  <2> HIDE DEF d2, sum, a, f
  <2>1. Len(f.data) = sum[a - 1] + done /\ sum[a - 1] \in Nat /\ done \in Nat
    BY <1>5, <1>8, <1>19, Zenon
  <2> HIDE DEF done
  <2> QED
    BY <1>7, <1>9, <1>11, <2>1
<1>21. Written(disk', r)
  <2>1. a \in 1 .. n + 1
    BY <1>1
  <2>2. f2.meta = f.meta
    BY <1>8, <1>11, Zenon
  <2> HIDE DEF d2
  <2> QED
    BY <1>11, <1>12, <1>14, <1>20, <2>1, <2>2, Zenon DEF Written
<1>22. HandleFits(disk', replaced, r)
  <2>1. a <= n
    BY <1>1
  <2>2. x.path \notin replaced => job[c].handle = disk'[x.path]
    <3>1. x.path /= q.to
      BY <1>1, Zenon DEF Good
    <3> QED
      BY <1>1, <1>3, <1>4, <1>5, <3>1
  <2> QED
    BY <1>5, <1>7, <1>12, <2>1, <2>2, Zenon DEF HandleFits
<1>23. ASSUME NEW i \in 1 .. n PROVE Copied(disk', replaced, r, i)
  <2> DEFINE y == s[i]
             src == disk[y.path]
             lo == sum[i - 1]
  <2>1. Good(disk, replaced, q, y) /\ Copied(disk, replaced, job[c], i)
    BY <1>1, Zenon DEF Making, Listed
  <2>2. y.path /= q.to /\ IsSource(y.path)
    BY <1>1, <2>1 DEF Good, IsSource
  <2>3. disk'[y.path] = disk[y.path]
    <3>1. y \in Items
      BY <1>1, ElementOfSeq
    <3> HIDE DEF y
    <3>2. y.path \in Paths
      BY <3>1 DEF Items
    <3> QED
      BY <1>3, <1>4, <2>2, <3>2
  <2>4. y \in Items /\ Size(y) \in Nat /\ sum[i] = lo + Size(y) /\ lo \in Nat
    <3>1. y \in Items
      BY <1>1, ElementOfSeq
    <3>2. i - 1 \in 0 .. n
      BY <1>1
    <3>3. lo \in Nat
      BY <1>19, <3>2
    <3>4. sum[i] = lo + Size(y)
      BY <1>1, OffsetsSum, Zenon
    <3> QED
      BY <3>1, <3>3, <3>4, SizeIsNat
  <2>5. ASSUME y.path \notin replaced, NEW k \in 1 .. Size(y), lo + k <= Len(d2)
        PROVE  d2[lo + k] = Cells(src)[y.meta.from + k]
    <3>1. lo + k \in 1 .. Len(f.data) + Len(chunk) /\ lo + k \in Nat /\ k \in Nat
      <4> HIDE DEF lo, y, d2, f
      <4> QED
        BY <1>7, <1>8, <1>9, <2>4, <2>5
    <3>2. CASE lo + k <= Len(f.data)
      <4>1. f.data[lo + k] = Cells(src)[y.meta.from + k]
        BY <2>1, <2>5, <3>2, ZenonT(30) DEF Copied
      <4> HIDE DEF lo, y, src, d2, f
      <4> QED
        BY <1>9, <3>1, <3>2, <4>1, Zenon
    <3>3. CASE ~(lo + k <= Len(f.data))
      <4>1. i = a
        <5> HIDE DEF lo, y, src, d2, f, sum, s, n, a, x, done
        <5>1. a - 1 \in 0 .. n /\ i - 1 \in 0 .. n /\ a \in 0 .. n /\ i \in 0 .. n
          BY <1>1
        <5>2. ~(i <= a - 1)
          <6>1. i <= a - 1 => sum[i] <= sum[a - 1]
            BY <1>19, <5>1
          <6>2. lo + k <= sum[i]
            BY <2>4, <2>5
          <6>3. sum[a - 1] <= Len(f.data) /\ sum[i] \in Nat /\ sum[a - 1] \in Nat
            BY <1>5, <1>8, <1>19, <5>1 DEF done
          <6> QED
            BY <1>8, <3>1, <3>3, <6>1, <6>2, <6>3
        <5>3. ~(a <= i - 1)
          <6>1. a <= i - 1 => sum[a] <= lo
            BY <1>19, <5>1 DEF lo
          <6>2. lo + k <= sum[a - 1] + (done + Len(chunk))
            BY <1>11, <1>20, <2>5
          <6>3. sum[a - 1] + (done + Len(chunk)) <= sum[a] /\ sum[a] \in Nat
            <7> DEFINE size == Size(x)
            <7>1. done + Len(chunk) <= size /\ done \in Nat /\ size \in Nat
              BY <1>1, <1>5, <1>7 DEF done
            <7>2. sum[a] = sum[a - 1] + size /\ sum[a - 1] \in Nat /\ sum[a] \in Nat
              BY <1>19, <5>1
            <7> HIDE DEF size
            <7> QED
              BY <1>7, <7>1, <7>2
          <6> QED
            BY <1>5, <1>7, <1>19, <2>4, <3>1, <6>1, <6>2, <6>3, SMTT(30) DEF done
        <5> QED
          BY <1>1, <5>2, <5>3
      <4>2. y = x /\ lo = sum[a - 1]
        BY <1>5, <4>1
      <4>3. job[c].handle = src
        BY <1>5, <2>5, <4>2
      <4> DEFINE m == (lo + k) - Len(f.data)
      <4>4. m \in 1 .. Len(chunk) /\ k = done + m /\ done \in Nat /\ m \in Nat
        <5> HIDE DEF lo, y, src, d2, f, sum, s, n, a, x, done
        <5>1. done \in Nat /\ Len(f.data) = lo + done
          BY <1>5, <1>8, <4>2 DEF done
        <5> QED
          BY <1>7, <1>8, <2>4, <3>1, <3>3, <5>1, SMTT(30)
      <4>5. d2[lo + k] = chunk[m]
        <5> HIDE DEF lo, y, src, d2, f
        <5> QED
          BY <1>9, <3>1, <3>3
      <4>6. chunk[m] = Cells(src)[(x.meta.from + done) + m]
        BY <1>7, <4>3, <4>4, SMTT(30)
      <4>7. (x.meta.from + done) + m = y.meta.from + k
        <5> HIDE DEF x, y, m, done
        <5> QED
          BY <1>6, <4>2, <4>4, SMTT(30)
      <4> QED
        BY <4>5, <4>6, <4>7
    <3> QED
      BY <3>2, <3>3, ZenonT(30)
  <2>6. disk'[q.to].data = d2
    BY <1>11, <1>14, Zenon
  <2> HIDE DEF d2
  <2> QED
    BY <1>12, <2>3, <2>5, <2>6, ZenonT(30) DEF Copied
<1>24. Phase(disk', replaced, job'[c])
  BY <1>1, <1>12, <1>13, <1>18, <1>21, <1>22, <1>23, Zenon DEF Phase, Made, Making
<1> QED
  BY <1>14, <1>16, <1>24, StepSound

(* A round of the copying loop.                                            *)
LEMMA CopyChunkSound == ASSUME IInv, NEW c \in Calls, CopyChunk(c) PROVE IInv'
<1>1. /\ Copying(c) /\ job[c].handle /= Missing /\ UNCHANGED <<replaced, faults>>
      /\ NextTensor(c) \/ WriteChunk(c) \/ Abandon(c)
  BY DEF CopyChunk
<1>2. faults' \in 0 .. MaxFaults
  BY <1>1 DEF IInv, Types
<1> QED
  BY <1>1, <1>2, NextTensorSound, WriteChunkSound, AbandonSound

(* A call that does not have a file of its own is only recorded.           *)
LEMMA RecordSound ==
    ASSUME IInv, NEW c \in Calls, job[c].lost, job[c].pc = "copy", NEW r \in Jobs,
           job' = [job EXCEPT ![c] = r], UNCHANGED <<disk, replaced>>, faults' \in 0 .. MaxFaults,
           r.pc \in {"returned", "raised", "left"}, r.request = job[c].request, r.lost,
           r.handle = Missing
    PROVE  IInv'
<1>1. Phase(disk, replaced, job[c]) /\ ~Made(job[c])
  BY JobIsSound DEF Made
<1>2. job' \in [Calls -> Jobs] /\ job'[c] = r /\ \A d \in Calls \ {c} : job'[d] = job[d]
  BY JobSet, Zenon
<1>3. Phase(disk', replaced, job'[c]) /\ ~Made(job'[c])
  BY <1>1, <1>2 DEF Phase, Made, HandleFits
<1>4. Types'
  BY <1>2 DEF IInv, Types
<1>5. Steps(c)
  BY <1>1, <1>2, <1>3 DEF Steps
<1> QED
  BY <1>3, <1>4, <1>5, StepSound

(* A call that has lost its file returns what it finds there, or raises.   *)
LEMMA LostReturnSound ==
    ASSUME IInv, NEW c \in Calls, Return(c), job[c].lost
    PROVE  IInv'
<1> DEFINE to == job[c].request.to
           r == [job[c] EXCEPT !.pc = "returned", !.size = FileSize(disk[to])]
           x == [job[c] EXCEPT !.pc = "raised"]
<1>1. /\ job[c].pc = "copy" /\ UNCHANGED <<disk, replaced, faults>>
      /\ \/ job' = [job EXCEPT ![c] = x]
         \/ disk[to] /= Missing /\ job' = [job EXCEPT ![c] = r]
  BY DEF Return
<1>2. faults' \in 0 .. MaxFaults
  BY <1>1 DEF IInv, Types
<1>3. job[c] \in Jobs /\ job[c].request \in Requests /\ to \in Paths /\ job[c].handle = Missing
  BY <1>1, JobIsSound, RequestShape DEF Phase, HandleFits
<1>4. CASE job' = [job EXCEPT ![c] = x]
  <2>1. /\ x \in Jobs /\ x.pc = "raised" /\ x.request = job[c].request /\ x.lost /\ x.handle = Missing
    BY <1>3 DEF Jobs
  <2> HIDE DEF x
  <2> QED
    BY <1>1, <1>2, <1>4, <2>1, RecordSound
<1>5. CASE disk[to] /= Missing /\ job' = [job EXCEPT ![c] = r]
  <2>1. FileSize(disk[to]) \in Nat
    BY <1>3, <1>5, FileThere, SizeOfFile
  <2>2. /\ r \in Jobs /\ r.pc = "returned" /\ r.request = job[c].request /\ r.lost /\ r.handle = Missing
    BY <1>3, <2>1 DEF Jobs
  <2> HIDE DEF r
  <2> QED
    BY <1>1, <1>2, <1>5, <2>2, RecordSound
<1> QED
  BY <1>1, <1>4, <1>5

(* When the items are copied the file has all of its data.                 *)
LEMMA ReturnSound == ASSUME IInv, NEW c \in Calls, Return(c) PROVE IInv'
<1> DEFINE to == job[c].request.to
           n == Len(job[c].selected)
           sum == Offsets(job[c].selected)
           r == [job[c] EXCEPT !.pc = "returned", !.size = FileSize(disk[to])]
<1> SUFFICES ASSUME ~job[c].lost PROVE IInv'
  BY LostReturnSound
<1>1. job[c].pc = "copy" /\ Made(job[c]) /\ ~Copying(c) /\ UNCHANGED <<disk, replaced, faults>>
  BY DEF Return, Made
<1>2. /\ job[c] \in Jobs /\ Phase(disk, replaced, job[c]) /\ Making(disk, replaced, job[c])
      /\ Written(disk, job[c])
  BY <1>1, JobIsSound DEF Phase, Making
<1>3. disk[to] \in Files /\ disk[to] /= Missing
  BY <1>1, MadeIsThere
<1>4. job' = [job EXCEPT ![c] = r]
  BY <1>3 DEF Return
<1>5. FileSize(disk[to]) \in Nat
  BY <1>3, SizeOfFile
<1>6. n \in Nat /\ job[c].at = n + 1 /\ job[c].at - 1 = n
  <2>1. n \in Nat /\ job[c].at \in Nat
    BY <1>2, LenProperties, ZenonT(30) DEF Jobs
  <2>2. job[c].at \in 1 .. n + 1 /\ ~(job[c].at <= n)
    BY <1>1, <1>2 DEF Written, Copying
  <2> QED
    BY <2>1, <2>2
<1>7. job[c].handle = Missing
  <2>1. HandleFits(disk, replaced, job[c])
    BY <1>2, Zenon DEF Phase
  <2> QED
    BY <1>1, <2>1, Zenon DEF HandleFits, Copying
<1>8. sum[n] \in Nat
  <2>1. job[c].selected \in Seq(Items)
    BY <1>2, Zenon DEF Jobs
  <2>2. n \in 0 .. n
    BY <1>6
  <2> QED
    BY <2>1, <2>2, OffsetsSum, Zenon
<1>9. /\ r \in Jobs /\ r.pc = "returned" /\ r.request = job[c].request /\ r.selected = job[c].selected
      /\ r.at = job[c].at /\ r.digest = job[c].digest /\ r.handle = Missing /\ r.size = FileSize(disk[to])
      /\ r.lost = job[c].lost
  BY <1>2, <1>5, <1>7 DEF Jobs
<1>10. Len(disk[to].data) = sum[n]
  <2>1. Len(disk[to].data) = sum[job[c].at - 1] + 0
    BY <1>1, <1>2, <1>7 DEF Written
  <2> QED
    BY <1>6, <1>8, <2>1, SMTT(30)
<1> HIDE DEF r
<1>11. HandleFits(disk, replaced, r)
  BY <1>9, Zenon DEF HandleFits
<1>12. Written(disk, r)
  BY <1>2, <1>9, <1>10, Zenon DEF Written
<1>13. faults' \in 0 .. MaxFaults
  BY <1>1 DEF IInv, Types
<1> QED
  BY <1>1, <1>4, <1>9, <1>11, <1>12, <1>13, MadeSound DEF Made

(* The bound of the faults is kept.                                        *)
LEMMA OneMoreFault ==
    ASSUME IInv, faults < MaxFaults, faults' = faults + 1
    PROVE  faults' \in 0 .. MaxFaults
BY FaultsAssumption DEF IInv, Types

(* A failing write removes the file.                                       *)
LEMMA WriteFailsSound == ASSUME IInv, NEW c \in Calls, WriteFails(c) PROVE IInv'
BY OneMoreFault, AbandonSound DEF WriteFails

(* An open that fails, or a copy to a lost file, removes what is there.    *)
LEMMA OpenFailsSound == ASSUME IInv, NEW c \in Calls, OpenFails(c) PROVE IInv'
<1>1. /\ job[c].pc = "select" /\ ~Selecting(c) /\ Abandon(c) /\ UNCHANGED replaced
      /\ faults' \in 0 .. MaxFaults
  BY OneMoreFault DEF OpenFails
<1>2. ~Made(job[c])
  BY <1>1 DEF Made
<1> QED
  BY <1>1, <1>2, SelectedApart, LossSound

LEMMA LoseMoreSound == ASSUME IInv, NEW c \in Calls, LoseMore(c) PROVE IInv'
<1>1. /\ job[c].pc = "copy" /\ job[c].lost /\ Abandon(c) /\ UNCHANGED replaced
      /\ faults' \in 0 .. MaxFaults
  BY DEF LoseMore, IInv, Types
<1>2. ~Made(job[c]) /\ job[c].request \in Requests /\ Apart(job[c].request)
  BY <1>1, JobIsSound DEF Phase, Made
<1> QED
  BY <1>1, <1>2, LossSound

(* A kill leaves the file as far as it was written.                        *)
LEMMA LeaveSound == ASSUME IInv, NEW c \in Calls, Leave(c) PROVE IInv'
<1> DEFINE r == [job[c] EXCEPT !.pc = "left", !.handle = Missing]
<1>1. job[c].pc = "copy" /\ UNCHANGED <<disk, replaced>> /\ faults' \in 0 .. MaxFaults
  BY OneMoreFault DEF Leave
<1>2. job[c] \in Jobs /\ (Made(job[c]) => Written(disk, job[c]))
  BY <1>1, JobIsSound DEF Phase, Making
<1>3. job' = [job EXCEPT ![c] = r]
  BY DEF Leave
<1>4. /\ r \in Jobs /\ r.pc = "left" /\ r.request = job[c].request /\ r.selected = job[c].selected
      /\ r.at = job[c].at /\ r.digest = job[c].digest /\ r.handle = Missing
      /\ r.lost = job[c].lost
  BY <1>2, Zenon DEF Jobs
<1> HIDE DEF r
<1>5. CASE job[c].lost
  BY <1>1, <1>3, <1>4, <1>5, RecordSound
<1>6. CASE ~job[c].lost
  <2>1. Made(job[c]) /\ Made(r)
    BY <1>1, <1>4, <1>6 DEF Made
  <2>2. HandleFits(disk, replaced, r) /\ Written(disk, r)
    BY <1>2, <1>4, <2>1, Zenon DEF HandleFits, Written
  <2> QED
    BY <1>1, <1>3, <1>4, <2>1, <2>2, MadeSound
<1> QED
  BY <1>5, <1>6

(* Somebody else's file: no call makes its own there.                      *)
LEMMA ReplaceSound == ASSUME IInv, Replace PROVE IInv'
<1> PICK p \in Paths : \E f \in Later[p] :
         disk' = [disk EXCEPT ![p] = f] /\ replaced' = replaced \union {p}
  BY DEF Replace
<1>1. PICK f \in Later[p] : disk' = [disk EXCEPT ![p] = f] /\ replaced' = replaced \union {p}
  OBVIOUS
<1>2. job' = job /\ faults' \in 0 .. MaxFaults
  BY OneMoreFault DEF Replace
<1>3. disk \in [Paths -> Files \union {Missing}] /\ replaced \subseteq Paths
  BY DEF IInv, Types
<1>4. Types'
  <2>1. f \in Files \union {Missing}
    BY FilesAssumption
  <2> QED
    BY <1>1, <1>2, <1>3, <2>1 DEF IInv, Types
<1>5. \A o : o /= p => disk'[o] = disk[o]
  <2> SUFFICES ASSUME NEW o, o /= p PROVE disk'[o] = disk[o]
    OBVIOUS
  <2> QED
    BY <1>1, <1>3
<1>6. Keeps(disk, replaced, disk', replaced')
  BY <1>1, <1>5 DEF Keeps
<1>7. Phases'
  <2> SUFFICES ASSUME NEW c \in Calls PROVE Phase(disk', replaced', job[c])
    BY <1>2 DEF Phases
  <2>1. Made(job[c]) => disk'[job[c].request.to] = disk[job[c].request.to]
    BY <1>5, MadeIsThere DEF Apart
  <2> QED
    BY <1>6, <2>1, JobIsSound, PhaseKept
<1>8. OneMaker'
  BY <1>2 DEF IInv, OneMaker, Made
<1>9. Provenance'
  BY <1>1, <1>2, <1>5 DEF IInv, Provenance, Made
<1> QED
  BY <1>4, <1>7, <1>8, <1>9 DEF IInv

(* A call before it is made.                                               *)
LEMMA IdleIsAJob == Idle \in Jobs
<1>1. [p \in {} |-> Missing] \in UNION {[D -> Headers] : D \in SUBSET Paths}
  OBVIOUS
<1>2. <<>> \in Seq(Items) /\ <<>> \in Seq(Cell \union Seq(Tensors))
  BY EmptySeq
<1> QED
  BY <1>1, <1>2 DEF Idle, Jobs

(* The invariant holds at first.                                           *)
LEMMA InitSound == Init => IInv
<1> SUFFICES ASSUME Init PROVE IInv
  OBVIOUS
<1>1. disk \in Disks /\ job = [c \in Calls |-> Idle] /\ replaced = {} /\ faults = 0
  BY DEF Init
<1>2. Types
  BY <1>1, IdleIsAJob, FilesAssumption, FaultsAssumption DEF Types
<1>3. Idle.pc = "idle" /\ Idle.handle = Missing /\ ~Idle.lost
  BY DEF Idle
<1>4. Phases
  BY <1>1, <1>3 DEF Phases, Phase, Made, HandleFits
<1>5. OneMaker
  BY <1>1, <1>3 DEF OneMaker, Made
<1>6. Provenance
  BY <1>1 DEF Provenance
<1> QED
  BY <1>2, <1>4, <1>5, <1>6 DEF IInv

(* The invariant is inductive.                                             *)
LEMMA IInvInductive == IInv /\ [Next]_vars => IInv'
<1> SUFFICES ASSUME IInv, [Next]_vars PROVE IInv'
  OBVIOUS
<1>1. ASSUME NEW c \in Calls, Step(c) PROVE IInv'
  BY <1>1, BeginSound, ResolveSound, ReadHeaderSound, ChooseSound, CreateSound, OpenSound,
     CopyChunkSound, LoseMoreSound, ReturnSound DEF Step
<1>2. ASSUME NEW c \in Calls, OpenFails(c) \/ WriteFails(c) \/ Leave(c) PROVE IInv'
  BY <1>2, OpenFailsSound, WriteFailsSound, LeaveSound
<1>3. CASE Replace
  BY <1>3, ReplaceSound
<1>4. CASE UNCHANGED vars
  <2>1. disk' = disk /\ job' = job /\ replaced' = replaced /\ faults' = faults
    BY <1>4 DEF vars
  <2> QED
    BY <2>1 DEF IInv, Types, Phases, OneMaker, Provenance, Made
<1> QED
  BY <1>1, <1>2, <1>3, <1>4 DEF Next

(* The invariant holds always.                                             *)
LEMMA AlwaysSound == Spec => []IInv
<1>1. Init => IInv
  BY InitSound
<1>2. IInv /\ [Next]_vars => IInv'
  BY IInvInductive, Zenon
<1> QED
  BY <1>1, <1>2, PTL DEF Spec
--------------------------------------------------------------------------------
(* What the invariant says of the file of a call that has returned.        *)
LEMMA ReturnedShape ==
    ASSUME IInv, NEW c \in Calls, job[c].pc = "returned", ~job[c].lost
    PROVE  LET q == job[c].request
               s == job[c].selected
               n == Len(s)
               f == disk[q.to]
           IN  /\ q \in Requests /\ s \in Seq(Items) /\ n \in Nat /\ f \in Files /\ f /= Missing
               /\ Readable(f, FileSize(f)) /\ Listed(disk, replaced, job[c])
               /\ f.meta = Layout(s) /\ DOMAIN f.meta = 1 .. n
               /\ Len(f.data) = Offsets(s)[n]
               /\ job[c].digest = <<f.meta>> \o f.data /\ job[c].size = FileSize(f)
               /\ \A i \in 1 .. n : Copied(disk, replaced, job[c], i)
<1> DEFINE q == job[c].request
           s == job[c].selected
           n == Len(s)
           f == disk[q.to]
<1>1. Made(job[c])
  BY DEF Made
<1>2. q \in Requests /\ f \in Files /\ f /= Missing
  BY <1>1, MadeIsThere
<1>3. job[c] \in Jobs /\ Making(disk, replaced, job[c])
  BY <1>1, JobIsSound DEF Phase
<1>4. s \in Seq(Items) /\ n \in Nat
  BY <1>3, LenProperties, ZenonT(30) DEF Jobs
<1>5. /\ f.meta = Layout(s) /\ f.legible /\ Len(f.data) = Offsets(s)[n]
      /\ job[c].digest = <<f.meta>> \o f.data /\ job[c].size = FileSize(f)
  BY <1>3 DEF Making, Written
<1>6. /\ Listed(disk, replaced, job[c]) /\ Ascends(s)
      /\ \A i \in 1 .. n : Copied(disk, replaced, job[c], i)
  BY <1>3, Zenon DEF Making, Listed
<1>7. DOMAIN f.meta = 1 .. n
  <2>1. Layout(s) \in Seq(Tensors) /\ Len(Layout(s)) = n
    BY <1>4, LayoutShape, Zenon
  <2> QED
    BY <1>5, <2>1, LenProperties, Zenon
<1>8. Readable(f, FileSize(f))
  BY <1>2, <1>4, <1>5, <1>6, WholeIsReadable, Zenon
<1> QED
  BY <1>2, <1>4, <1>5, <1>6, <1>7, <1>8, Zenon

(* A stretch of a sequence; two of them, equally long and equal cell by    *)
(* cell.                                                                   *)
Stretch(s, lo, hi) == SubSeq(s, lo + 1, hi)
Alike(s, lo, hi, t, from, to) ==
    /\ s \in Seq(Cell) /\ lo \in Nat /\ hi \in Nat /\ lo <= hi /\ hi <= Len(s)
    /\ t \in Seq(Cell) /\ from \in Nat /\ to \in Nat /\ from <= to /\ to <= Len(t)
    /\ hi - lo = to - from
    /\ \A k \in 1 .. hi - lo : s[lo + k] = t[from + k]

(* Alike stretches are equal, as sequences.                                *)
LEMMA SameStretch ==
    ASSUME NEW s, NEW lo, NEW hi, NEW t, NEW from, NEW to, Alike(s, lo, hi, t, from, to)
    PROVE  Stretch(s, lo, hi) = Stretch(t, from, to)
<1>1. /\ s \in Seq(Cell) /\ lo \in Nat /\ hi \in Nat /\ lo <= hi /\ hi <= Len(s)
      /\ t \in Seq(Cell) /\ from \in Nat /\ to \in Nat /\ from <= to /\ to <= Len(t)
      /\ hi - lo = to - from
      /\ \A k \in 1 .. hi - lo : s[lo + k] = t[from + k]
  BY DEF Alike
<1>2. Len(s) \in Nat /\ Len(t) \in Nat
  BY <1>1, LenProperties
<1> DEFINE a == lo + 1
           b == from + 1
           n == hi - lo
<1>3. /\ a \in Int /\ b \in Int /\ n \in Nat /\ hi - a + 1 = n /\ to - b + 1 = n
      /\ a <= hi <=> n /= 0
      /\ b <= to <=> n /= 0
  BY <1>1
<1>4. (\A i \in a .. hi : s[i] \in Cell) /\ \A i \in b .. to : t[i] \in Cell
  <2>1. ASSUME NEW i \in a .. hi PROVE s[i] \in Cell
    <3>1. i \in 1 .. Len(s)
      BY <1>1, <1>2
    <3> QED
      BY <1>1, <3>1, ElementOfSeq
  <2>2. ASSUME NEW i \in b .. to PROVE t[i] \in Cell
    <3>1. i \in 1 .. Len(t)
      BY <1>1, <1>2
    <3> QED
      BY <1>1, <3>1, ElementOfSeq
  <2> QED
    BY <2>1, <2>2
<1>5. \A k \in 1 .. n : s[a + k - 1] = t[b + k - 1]
  <2> TAKE k \in 1 .. n
  <2>1. a + k - 1 = lo + k /\ b + k - 1 = from + k
    BY <1>1
  <2> QED
    BY <1>1, <2>1
<1> HIDE DEF a, b, n
<1>6. /\ SubSeq(s, a, hi) \in Seq(Cell)
      /\ Len(SubSeq(s, a, hi)) = IF a <= hi THEN hi - a + 1 ELSE 0
      /\ \A i \in 1 .. hi - a + 1 : SubSeq(s, a, hi)[i] = s[a + i - 1]
  BY <1>1, <1>3, <1>4, SubSeqProperties, SMTT(30)
<1>7. /\ SubSeq(t, b, to) \in Seq(Cell)
      /\ Len(SubSeq(t, b, to)) = IF b <= to THEN to - b + 1 ELSE 0
      /\ \A i \in 1 .. to - b + 1 : SubSeq(t, b, to)[i] = t[b + i - 1]
  BY <1>1, <1>3, <1>4, SubSeqProperties
<1>8. Len(SubSeq(s, a, hi)) = n /\ Len(SubSeq(t, b, to)) = n
  BY <1>3, <1>6, <1>7
<1>9. \A i \in 1 .. n : SubSeq(s, a, hi)[i] = SubSeq(t, b, to)[i]
  BY <1>3, <1>5, <1>6, <1>7
<1>10. SubSeq(s, a, hi) = SubSeq(t, b, to)
  BY <1>6, <1>7, <1>8, <1>9, SeqEqual
<1> QED
  BY <1>10 DEF a, b, Stretch

(* The tensor of a name in a file that read_header accepts.                *)
Named(f, x) == CHOOSE m \in ToSet(f.meta) : m.name = x

LEMMA TensorOf ==
    ASSUME NEW f \in Files, Readable(f, FileSize(f)), NEW i \in DOMAIN f.meta
    PROVE  /\ Named(f, f.meta[i].name) = f.meta[i]
           /\ f.data \in Seq(Cell) /\ Len(f.data) \in Nat /\ f.head \in Nat
           /\ f.meta[i].lo \in Nat /\ f.meta[i].hi \in Nat
           /\ f.meta[i].lo <= f.meta[i].hi /\ f.meta[i].hi <= Len(f.data)
<1> DEFINE m == f.meta[i]
           n == Len(f.data)
<1>1. f.head \in Nat /\ f.meta \in Seq(Tensors) /\ f.data \in Seq(Cell)
  BY DEF Files
<1>2. n \in Nat /\ m \in Tensors
  BY <1>1, LenProperties, ElementOfSeq
<1>3. m \in ToSet(f.meta) /\ \A t \in ToSet(f.meta) : t.name = m.name => t = m
  BY DEF Readable, ToSet
<1>4. m.lo <= m.hi /\ f.head + m.hi <= f.head + n
  BY <1>3 DEF Readable, FileSize
<1> HIDE DEF m, n
<1>5. m.lo \in Nat /\ m.hi \in Nat
  BY <1>2 DEF Tensors
<1>6. m.hi <= n
  BY <1>1, <1>2, <1>4, <1>5
<1>7. Named(f, m.name) = m
  BY <1>3 DEF Named
<1> QED
  BY <1>1, <1>2, <1>4, <1>5, <1>6, <1>7 DEF m, n
--------------------------------------------------------------------------------
(* The state keeps its types, an open source is that of the tensor being   *)
(* copied and is read no further than the tensor, and the file of a call   *)
(* that made one and did not lose it is there (the locals of write_subset).*)
THEOREM WriterTypeCorrect == Spec => []TypeOK
<1>1. IInv => TypeOK
  <2> SUFFICES ASSUME IInv PROVE TypeOK
    OBVIOUS
  <2>1. DOMAIN disk = Paths /\ replaced \subseteq Paths /\ faults \in 0 .. MaxFaults
    BY DEF IInv, Types
  <2>2. ASSUME NEW c \in Calls
        PROVE  /\ job[c].pc \in {"idle", "select", "copy", "returned", "raised", "left"}
               /\ job[c].handle /= Missing => Copying(c) /\ job[c].done \in 0 .. Size(Item(c))
               /\ Made(job[c]) => disk[job[c].request.to] /= Missing
    <3>1. job[c] \in Jobs /\ Phase(disk, replaced, job[c])
      BY JobIsSound
    <3>2. job[c].pc \in {"idle", "select", "copy", "returned", "raised", "left"}
      BY <3>1 DEF Jobs
    <3>3. ASSUME job[c].handle /= Missing PROVE Copying(c) /\ job[c].done \in 0 .. Size(Item(c))
      <4>1. Copying(c) /\ job[c].done <= Size(Item(c)) /\ job[c].done \in Nat
        BY <3>1, <3>3 DEF Phase, HandleFits, Copying, Item, Jobs
      <4>2. Size(Item(c)) \in Nat
        BY <4>1, CopyingCall
      <4> QED
        BY <4>1, <4>2
    <3>4. Made(job[c]) => disk[job[c].request.to] /= Missing
      BY MadeIsThere
    <3> QED
      BY <3>2, <3>3, <3>4
  <2> QED
    BY <2>1, <2>2 DEF TypeOK
<1> QED
  BY <1>1, AlwaysSound, PTL

(* In every file that read_header accepts, each byte of the data belongs   *)
(* to exactly one tensor (the check of the offsets in read_header).        *)
THEOREM AcceptedFilesTile == Spec => []AcceptedTiles
<1>1. IInv => AcceptedTiles
  <2> SUFFICES ASSUME IInv, NEW p \in Paths, disk[p] /= Missing, Readable(disk[p], FileSize(disk[p])),
                      NEW k \in DOMAIN disk[p].data
               PROVE  Cardinality({m \in ToSet(disk[p].meta) : m.lo < k /\ k <= m.hi}) = 1
    BY DEF AcceptedTiles
  <2> QED
    BY FileThere, ReadableTiles
<1> QED
  BY <1>1, AlwaysSound, PTL

(* A call that raises leaves no torn file: what is at its destination was  *)
(* there before, is whole, or is another call's (the handlers of           *)
(* write_subset).                                                          *)
THEOREM NothingOrphaned == Spec => []NoOrphan
<1>1. IInv => NoOrphan
  <2> SUFFICES ASSUME IInv, NEW c \in Calls, job[c].pc = "raised", job[c].request.to \notin replaced,
                      ~(disk[job[c].request.to] \in {Missing} \union {k[job[c].request.to] : k \in Disks})
               PROVE  \/ Readable(disk[job[c].request.to], FileSize(disk[job[c].request.to]))
                      \/ \E d \in Calls : /\ Made(job[d]) /\ job[d].pc /= "returned"
                                          /\ job[d].request.to = job[c].request.to
    BY DEF NoOrphan
  <2>1. job[c].request.to \in Paths
    BY JobIsSound, RequestShape DEF Phase
  <2>2. PICK d \in Calls : Made(job[d]) /\ job[d].request.to = job[c].request.to
    BY <2>1, Zenon DEF IInv, Provenance
  <2>3. CASE job[d].pc = "returned"
    BY <2>2, <2>3, ReturnedShape DEF Made
  <2>4. CASE job[d].pc /= "returned"
    BY <2>2, <2>4
  <2> QED
    BY <2>3, <2>4
<1> QED
  BY <1>1, AlwaysSound, PTL

(* A step of a call changes only the file that this call is copying to:    *)
(* the destination is opened with "xb", and only a call that made it       *)
(* writes to it and removes it; but for a call whose open fails for        *)
(* another reason than that the file exists, and for what becomes of those *)
(* it takes the file from (write_subset).                                  *)
THEOREM OthersKept == Spec => NeverReplaced
<1> DEFINE Kept == \/ OthersAlone
                   \/ \E c \in Calls : OpenFails(c) \/ LoseMore(c)
<1>1. IInv /\ [Next]_vars => Kept \/ UNCHANGED vars
  <2> SUFFICES ASSUME IInv, Next, NEW p \in Paths, disk[p] /= Missing, disk'[p] /= disk[p],
                      ~\E c \in Calls : OpenFails(c) \/ LoseMore(c)
               PROVE  \/ p \in replaced'
                      \/ \E c \in Calls : job[c].pc = "copy" /\ ~job[c].lost /\ job[c].request.to = p
    BY DEF OthersAlone
  <2>1. disk \in [Paths -> Files \union {Missing}]
    BY ZenonT(30) DEF IInv, Types
  <2>2. ASSUME NEW c \in Calls, Begin(c) \/ Resolve(c) \/ ReadHeader(c) \/ Select(c) \/ Return(c) \/ Leave(c)
        PROVE  FALSE
    BY <2>2 DEF Begin, Resolve, ReadHeader, Select, Return, Leave
  <2>3. ASSUME NEW c \in Calls, Create(c) PROVE FALSE
    BY <2>1, <2>3, ZenonT(30) DEF Create, MakeFile
  <2>4. ASSUME NEW c \in Calls, Copying(c), Abandon(c) \/ WriteChunk(c)
        PROVE  job[c].pc = "copy" /\ ~job[c].lost /\ job[c].request.to = p
    BY <2>1, <2>4 DEF Copying, Abandon, WriteChunk
  <2>5. ASSUME NEW c \in Calls, Open(c) \/ CopyChunk(c) \/ WriteFails(c)
        PROVE  job[c].pc = "copy" /\ ~job[c].lost /\ job[c].request.to = p
    BY <2>4, <2>5 DEF Open, CopyChunk, NextTensor, WriteFails
  <2>6. CASE Replace
    <3>1. PICK o \in Paths : \E f \in Later[o] :
             disk' = [disk EXCEPT ![o] = f] /\ replaced' = replaced \union {o}
      BY <2>6, Zenon DEF Replace
    <3> QED
      BY <2>1, <3>1
  <2> QED
    BY <2>2, <2>3, <2>5, <2>6 DEF Next, Step
<1>2. Kept \/ UNCHANGED vars <=> [Kept]_vars
  OBVIOUS
<1> HIDE DEF Kept
<1>3. IInv /\ [Next]_vars => [Kept]_vars
  BY <1>1, <1>2
<1>4. Spec => [][Kept]_vars
  BY <1>3, AlwaysSound, PTL DEF Spec
<1> QED
  BY <1>4 DEF NeverReplaced, Kept

(* A returned file is one that read_header accepts, with the tensors asked *)
(* for and no others, of the type asked for and of the size that type and  *)
(* shape give; its digest and its size are those of the file on the disk   *)
(* (what write_subset returns), whatever the other calls did meanwhile,    *)
(* short of removing it.                                                   *)
THEOREM ReturnedFilesWhole == Spec => []ReturnedIsWhole
<1>1. IInv => ReturnedIsWhole
  <2> SUFFICES ASSUME IInv, NEW c \in Calls, job[c].pc = "returned", ~job[c].lost
               PROVE  LET f == disk[job[c].request.to]
                          e == job[c].request.entries
                      IN  /\ f /= Missing /\ Readable(f, FileSize(f))
                          /\ DOMAIN Header(f) = {e[i].name : i \in DOMAIN e}
                          /\ \A n \in DOMAIN Header(f) :
                                /\ Header(f)[n].dtype = Expected
                                /\ Header(f)[n].to - Header(f)[n].from = Header(f)[n].bytes
                          /\ job[c].digest = <<f.meta>> \o f.data
                          /\ job[c].size = FileSize(f)
    BY ZenonT(30) DEF ReturnedIsWhole
  <2> DEFINE q == job[c].request
             e == q.entries
             s == job[c].selected
             n == Len(s)
             f == disk[q.to]
  <2>1. /\ q \in Requests /\ s \in Seq(Items) /\ n \in Nat /\ f \in Files /\ f /= Missing
        /\ Readable(f, FileSize(f)) /\ Listed(disk, replaced, job[c])
        /\ f.meta = Layout(s) /\ DOMAIN f.meta = 1 .. n
        /\ job[c].digest = <<f.meta>> \o f.data /\ job[c].size = FileSize(f)
    BY ReturnedShape, Zenon
  <2>2. /\ \A i \in 1 .. n : Good(disk, replaced, q, s[i])
        /\ \A k \in DOMAIN e : \E i \in 1 .. n : s[i].name = e[k].name
    BY <2>1, Zenon DEF Listed
  <2>3. \A i \in 1 .. n :
          /\ f.meta[i].name = s[i].name /\ f.meta[i].dtype = s[i].meta.dtype
          /\ f.meta[i].bytes = s[i].meta.bytes
          /\ f.meta[i].lo = Offsets(s)[i - 1] /\ f.meta[i].hi = Offsets(s)[i]
    <3>1. s \in Seq(Items) /\ n = Len(s) /\ f.meta = Layout(s)
      BY <2>1, Zenon
    <3> HIDE DEF f, s, n
    <3> QED
      BY <3>1, LayoutShape, SMTT(30)
  <2>4. /\ DOMAIN Header(f) = {f.meta[i].name : i \in 1 .. n}
        /\ \A i \in 1 .. n :
              Header(f)[f.meta[i].name] = [dtype |-> f.meta[i].dtype, bytes |-> f.meta[i].bytes,
                                           from |-> f.head + f.meta[i].lo, to |-> f.head + f.meta[i].hi]
    BY <2>1, HeaderShape, Zenon
  <2>5. /\ \A i \in 1 .. n : /\ s[i].meta.dtype = Expected /\ Size(s[i]) = s[i].meta.bytes
                             /\ \E k \in DOMAIN e : e[k].name = s[i].name
    BY <2>2 DEF Good
  <2>6. DOMAIN Header(f) = {e[k].name : k \in DOMAIN e}
    <3> HIDE DEF f, s, n, e
    <3>1. {f.meta[i].name : i \in 1 .. n} = {s[i].name : i \in 1 .. n}
      BY <2>3
    <3>2. {s[i].name : i \in 1 .. n} = {e[k].name : k \in DOMAIN e}
      BY <2>2, <2>5
    <3> QED
      BY <2>4, <3>1, <3>2
  <2>7. ASSUME NEW x \in DOMAIN Header(f)
        PROVE  Header(f)[x].dtype = Expected /\ Header(f)[x].to - Header(f)[x].from = Header(f)[x].bytes
    <3>1. PICK i \in 1 .. n : x = f.meta[i].name
      BY <2>4, Zenon
    <3> DEFINE lo == f.meta[i].lo
               hi == f.meta[i].hi
               head == f.head
               size == Size(s[i])
    <3>2. /\ Header(f)[x].dtype = Expected /\ Header(f)[x].bytes = size
          /\ Header(f)[x].from = head + lo /\ Header(f)[x].to = head + hi
      <4>1. Header(f)[x] = [dtype |-> f.meta[i].dtype, bytes |-> f.meta[i].bytes,
                            from |-> head + lo, to |-> head + hi]
        BY <2>4, <3>1, Zenon
      <4>2. f.meta[i].dtype = Expected /\ f.meta[i].bytes = size
        BY <2>3, <2>5, ZenonT(30)
      <4> HIDE DEF lo, hi, head, size, f
      <4> QED
        BY <4>1, <4>2, SMTT(30)
    <3>3. head \in Nat /\ lo \in Nat /\ hi \in Nat
      BY <2>1, TensorOf, Zenon
    <3>4. hi = lo + size /\ size \in Nat
      <4>1. s[i] \in Items
        BY <2>1, ElementOfSeq, Zenon
      <4>2. Offsets(s)[i] = Offsets(s)[i - 1] + size
        BY <2>1, OffsetsSum, Zenon
      <4>3. lo = Offsets(s)[i - 1] /\ hi = Offsets(s)[i]
        BY <2>3
      <4> QED
        BY <4>1, <4>2, <4>3, SizeIsNat
    <3> HIDE DEF lo, hi, head, size
    <3>5. (head + hi) - (head + lo) = size
      BY <3>3, <3>4, SMTT(30)
    <3> QED
      BY <3>2, <3>5, Zenon
  <2> QED
    BY <2>1, <2>6, <2>7, ZenonT(30)
<1> QED
  BY <1>1, AlwaysSound, PTL

(* The bytes of each tensor of a returned file are those of its source, if *)
(* nobody replaced the source (the copying loop of write_subset).          *)
THEOREM PayloadIsKept == Spec => []PayloadKept
<1> DEFINE Part(g, x) == Stretch(g.data, Named(g, x).lo, Named(g, x).hi)
<1>1. ASSUME IInv, NEW c \in Calls, job[c].pc = "returned", ~job[c].lost,
             NEW k \in DOMAIN job[c].request.entries, job[c].request.entries[k].path \notin replaced
      PROVE  Part(disk[job[c].request.to], job[c].request.entries[k].name)
                = Part(disk[job[c].request.entries[k].path], job[c].request.entries[k].name)
  <2> DEFINE q == job[c].request
             s == job[c].selected
             n == Len(s)
             f == disk[q.to]
             p == q.entries[k].path
             x == q.entries[k].name
             g == disk[p]
  <2>1. /\ q \in Requests /\ s \in Seq(Items) /\ n \in Nat /\ f \in Files
        /\ Readable(f, FileSize(f)) /\ Listed(disk, replaced, job[c])
        /\ f.meta = Layout(s) /\ DOMAIN f.meta = 1 .. n
        /\ \A i \in 1 .. n : Copied(disk, replaced, job[c], i)
    BY <1>1, ReturnedShape
  <2>2. PICK i \in 1 .. n : s[i].name = x /\ s[i].path = p
    BY <2>1 DEF Listed
  <2>3. Good(disk, replaced, q, s[i]) /\ s[i] \in Items /\ Copied(disk, replaced, job[c], i)
    BY <2>1, ElementOfSeq, Zenon DEF Listed
  <2>4. p \in Paths /\ g /= Missing /\ Readable(g, FileSize(g)) /\ x \in DOMAIN Header(g) /\ s[i].meta = Header(g)[x]
    BY <1>1, <2>1, <2>2, <2>3, RequestShape, Zenon DEF Good
  <2>5. g \in Files
    BY <1>1, <2>4, FileThere, Zenon
  <2>6. PICK j \in DOMAIN g.meta : g.meta[j].name = x
    BY <2>4, <2>5, HeaderShape, Zenon
  <2> DEFINE lo == f.meta[i].lo
             hi == f.meta[i].hi
             from == g.meta[j].lo
             to == g.meta[j].hi
             head == g.head
             size == Size(s[i])
             sf == f.data
             sg == g.data
  <2>7. f.meta[i].name = x /\ lo = Offsets(s)[i - 1] /\ hi = Offsets(s)[i]
    BY <2>1, <2>2, LayoutShape, SMTT(30)
  <2>8. /\ Named(f, x) = f.meta[i] /\ sf \in Seq(Cell)
        /\ lo \in Nat /\ hi \in Nat /\ lo <= hi /\ hi <= Len(sf) /\ Len(sf) \in Nat
    <3>1. i \in DOMAIN f.meta
      BY <2>1
    <3> QED
      BY <2>1, <2>7, <3>1, TensorOf, ZenonT(30)
  <2>9. /\ Named(g, x) = g.meta[j] /\ sg \in Seq(Cell) /\ head \in Nat
        /\ from \in Nat /\ to \in Nat /\ from <= to /\ to <= Len(sg) /\ Len(sg) \in Nat
    BY <2>4, <2>5, <2>6, TensorOf, Zenon
  <2>10. s[i].meta.from = head + from /\ s[i].meta.to = head + to
    <3>1. Header(g)[x] = [dtype |-> g.meta[j].dtype, bytes |-> g.meta[j].bytes,
                          from |-> head + from, to |-> head + to]
      BY <2>4, <2>5, <2>6, HeaderShape, Zenon
    <3> HIDE DEF g, s, head, from, to
    <3> QED
      BY <2>4, <3>1
  <2>11. size = to - from
    <3>1. size = (head + to) - (head + from)
      BY <2>10, Zenon DEF Size
    <3>2. head \in Nat /\ from \in Nat /\ to \in Nat
      BY <2>9, Zenon
    <3> HIDE DEF size, head, to, from
    <3> QED
      BY <3>1, <3>2
  <2>12. hi = lo + size /\ size \in Nat
    BY <2>1, <2>3, <2>7, OffsetsSum, SizeIsNat, Zenon
  <2>13. \A h \in 1 .. size : lo + h <= Len(sf) => sf[lo + h] = Cells(g)[(head + from) + h]
    BY <1>1, <2>2, <2>3, <2>7, <2>10, Zenon DEF Copied
  <2>14. \A h \in 1 .. Len(sg) : Cells(g)[head + h] = sg[h]
    BY <2>5, CellsShape, Zenon
  <2>15. Part(f, x) = Stretch(sf, lo, hi) /\ Part(g, x) = Stretch(sg, from, to)
    BY <2>8, <2>9, Zenon
  <2>16. /\ sf \in Seq(Cell) /\ sg \in Seq(Cell) /\ head \in Nat
        /\ lo \in Nat /\ hi \in Nat /\ lo <= hi /\ hi <= Len(sf) /\ Len(sf) \in Nat
        /\ from \in Nat /\ to \in Nat /\ from <= to /\ to <= Len(sg) /\ Len(sg) \in Nat
    BY <2>8, <2>9, Zenon
  <2> HIDE DEF lo, hi, from, to, head, size, sf, sg, g, f, Part
  <2>17. hi - lo = to - from /\ hi - lo = size
    BY <2>16, <2>11, <2>12
  <2>18. ASSUME NEW h \in 1 .. hi - lo PROVE sf[lo + h] = sg[from + h]
    <3>1. h \in 1 .. size /\ lo + h <= Len(sf)
      BY <2>16, <2>12, <2>17
    <3>2. from + h \in 1 .. Len(sg) /\ (head + from) + h = head + (from + h)
      BY <2>16, <2>11, <2>12, <3>1
    <3> QED
      BY <2>13, <2>14, <3>1, <3>2
  <2>19. Alike(sf, lo, hi, sg, from, to)
    BY <2>16, <2>17, <2>18, Zenon DEF Alike
  <2>20. Stretch(sf, lo, hi) = Stretch(sg, from, to)
    BY <2>19, SameStretch
  <2> QED
    BY <2>15, <2>20, Zenon DEF f, g, Part
<1>2. IInv => PayloadKept
  BY <1>1, Zenon DEF PayloadKept, Named, Stretch
<1> QED
  BY <1>2, AlwaysSound, PTL

(* The items of two calls that ask for the same are the same, and in the   *)
(* same order, when no source was replaced.                                *)
LEMMA SameItems ==
    ASSUME IInv, NEW c \in Calls, NEW d \in Calls, job[c].pc = "returned", job[d].pc = "returned",
           ~job[c].lost, ~job[d].lost, replaced = {}, ToSet(job[c].request.entries) = ToSet(job[d].request.entries)
    PROVE  job[c].selected = job[d].selected
<1>1. ASSUME NEW a \in Calls, NEW b \in Calls, job[a].pc = "returned", job[b].pc = "returned",
             ~job[a].lost, ~job[b].lost,
             ToSet(job[a].request.entries) = ToSet(job[b].request.entries),
             NEW x \in ToSet(job[a].selected)
      PROVE  x \in ToSet(job[b].selected)
  <2> DEFINE s == job[a].selected
             t == job[b].selected
             e == job[a].request.entries
             g == job[b].request.entries
  <2>1. /\ s \in Seq(Items) /\ t \in Seq(Items)
        /\ DOMAIN s = 1 .. Len(s) /\ DOMAIN t = 1 .. Len(t)
        /\ Listed(disk, replaced, job[a]) /\ Listed(disk, replaced, job[b])
    BY <1>1, ReturnedShape, LenProperties
  <2>2. PICK i \in 1 .. Len(s) : x = s[i]
    BY <2>1 DEF ToSet
  <2>3. Good(disk, replaced, job[a].request, x) /\ x \in Items
    BY <2>1, <2>2, ElementOfSeq DEF Listed
  <2>4. PICK k \in DOMAIN e : e[k].name = x.name /\ e[k].path = x.path
    BY <2>3 DEF Good
  <2>5. PICK l \in DOMAIN g : g[l] = e[k]
    <3>1. ToSet(e) = ToSet(g)
      BY <1>1, Zenon
    <3> HIDE DEF e, g
    <3> QED
      BY <2>4, <3>1, SMTT(30) DEF ToSet
  <2>6. PICK j \in 1 .. Len(t) : t[j].name = x.name /\ t[j].path = x.path
    BY <2>1, <2>4, <2>5 DEF Listed
  <2>7. Good(disk, replaced, job[b].request, t[j]) /\ t[j] \in Items
    BY <2>1, ElementOfSeq DEF Listed
  <2>8. t[j].meta = x.meta
    BY <2>3, <2>6, <2>7 DEF Good
  <2>9. t[j] = x
    <3> HIDE DEF t
    <3> QED
      BY <2>3, <2>6, <2>7, <2>8 DEF Items
  <2> QED
    BY <2>1, <2>9, ZenonT(30) DEF ToSet
<1>2. ToSet(job[c].selected) = ToSet(job[d].selected)
  BY <1>1
<1>3. /\ job[c].selected \in Seq(Items) /\ job[d].selected \in Seq(Items)
      /\ Ascends(job[c].selected) /\ Ascends(job[d].selected)
  BY ReturnedShape, ZenonT(30) DEF Listed
<1>4. \A x \in Items : x.name \in Nat
  BY Zenon DEF Items
<1> QED
  BY <1>2, <1>3, <1>4, AscendingUnique

(* Calls that ask for the same tensors of the same sources, in whatever    *)
(* order, write the same bytes and return the same digest (the sorting in  *)
(* write_subset).                                                          *)
THEOREM OrderDoesNotShow == Spec => []OrderIrrelevant
<1>1. ASSUME IInv, NEW c \in Calls, NEW d \in Calls, job[c].pc = "returned", job[d].pc = "returned",
             ~job[c].lost, ~job[d].lost, replaced = {}, ToSet(job[c].request.entries) = ToSet(job[d].request.entries)
      PROVE  job[c].digest = job[d].digest
  <2> DEFINE s == job[c].selected
             n == Len(s)
             sum == Offsets(s)
             f == disk[job[c].request.to]
             g == disk[job[d].request.to]
             u == f.data
             v == g.data
  <2>1. job[d].selected = s
    BY <1>1, SameItems, Zenon
  <2>2. /\ s \in Seq(Items) /\ n \in Nat /\ f \in Files /\ g \in Files
        /\ f.meta = Layout(s) /\ g.meta = Layout(s)
        /\ Len(u) = sum[n] /\ Len(v) = sum[n]
        /\ job[c].digest = <<f.meta>> \o u /\ job[d].digest = <<g.meta>> \o v
        /\ \A i \in 1 .. n : Copied(disk, replaced, job[c], i) /\ Copied(disk, replaced, job[d], i)
    BY <1>1, <2>1, ReturnedShape, Zenon
  <2>3. u \in Seq(Cell) /\ v \in Seq(Cell)
    BY <2>2, Zenon DEF Files
  <2>4. /\ \A i \in 0 .. n : sum[i] \in Nat
        /\ \A i \in 1 .. n : sum[i] = sum[i - 1] + Size(s[i])
        /\ \A i, j \in 0 .. n : i <= j => sum[i] <= sum[j]
        /\ \A k \in 1 .. sum[n] : \E i \in 1 .. n : sum[i - 1] < k /\ k <= sum[i]
    BY <2>2, OffsetsSum, OffsetsTile, Zenon
  <2>5. ASSUME NEW k \in 1 .. sum[n] PROVE u[k] = v[k]
    <3>1. PICK i \in 1 .. n : sum[i - 1] < k /\ k <= sum[i]
      BY <2>4
    <3> DEFINE lo == sum[i - 1]
               size == Size(s[i])
               h == k - lo
    <3>2. i - 1 \in 0 .. n /\ i \in 0 .. n
      <4>1. n \in Nat
        BY <2>2, Zenon
      <4> HIDE DEF n
      <4> QED
        BY <4>1, SMTT(30)
    <3>3. lo \in Nat /\ size \in Nat /\ sum[i] = lo + size
      BY <2>2, <2>4, <3>2, ElementOfSeq, SizeIsNat, Zenon
    <3>4. h \in 1 .. size /\ lo + h = k
      <4>1. sum[n] \in Nat
        <5>1. n \in Nat
          BY <2>2, Zenon
        <5>2. n \in 0 .. n
          BY <5>1
        <5> QED
          BY <2>4, <5>2
      <4>2. lo < k /\ k <= lo + size
        BY <3>1, <3>3
      <4> HIDE DEF lo, size, sum, n
      <4> QED
        BY <3>3, <4>1, <4>2
    <3>5. k <= Len(u) /\ k <= Len(v)
      <4> HIDE DEF sum, u, v
      <4> QED
        BY <2>2, <2>4, SMTT(30)
    <3> HIDE DEF h
    <3>6. u[k] = Cells(disk[s[i].path])[s[i].meta.from + h]
      BY <1>1, <2>2, <3>4, <3>5, Zenon DEF Copied
    <3>7. v[k] = Cells(disk[s[i].path])[s[i].meta.from + h]
      BY <1>1, <2>1, <2>2, <3>4, <3>5, Zenon DEF Copied
    <3> QED
      BY <3>6, <3>7
  <2>6. u = v
    <3> HIDE DEF u, v, sum
    <3> QED
      BY <2>2, <2>3, <2>5, SeqEqual, SMTT(30)
  <2> QED
    BY <2>2, <2>6, Zenon
<1>2. IInv => OrderIrrelevant
  BY <1>1 DEF OrderIrrelevant
<1> QED
  BY <1>2, AlwaysSound, PTL
================================================================================
