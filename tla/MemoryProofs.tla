----------------------------- MODULE MemoryProofs ------------------------------
(***************************************************************************)
(* Theorem about the allocators (BlockAllocator, PoolAllocator), as parts  *)
(* of MCConcurrency, for any workers, lengths, sizes and requests.         *)
(***************************************************************************)
EXTENDS ThreadProofs

-----------------------------------------------------------------------------
(* Sums of functions, which the community modules define as folds over     *)
(* their domains.                                                          *)
One(s) == CHOOSE x \in s : TRUE
Added(f, g, s) == IF s = {} THEN 0 ELSE f[One(s)] + g[s \ {One(s)}]
SumsOf(f, S) == CHOOSE g : g = [s \in SUBSET S |-> Added(f, g, s)]

LEMMA SumIsFold == ASSUME NEW f PROVE Blocks!SumFunction(f) = SumsOf(f, DOMAIN f)[DOMAIN f]
BY DEF Blocks!SumFunction, Blocks!SumFunctionOnSet, Blocks!FoldFunctionOnSet, Blocks!MapThenFoldSet,
       SumsOf, Added, One

LEMMA OneLess ==
  ASSUME NEW S, IsFiniteSet(S), NEW s \in SUBSET S, s # {}
  PROVE  One(s) \in s /\ s \ {One(s)} \in SUBSET S /\ IsFiniteSet(s) /\ Cardinality(s) \in Nat
         /\ Cardinality(s \ {One(s)}) = Cardinality(s) - 1
<1>1. One(s) \in s
  BY DEF One
<1>2. IsFiniteSet(s)
  BY FS_Subset
<1> QED BY <1>1, <1>2, FS_RemoveElement, FS_CardinalityType

LEMMA SumsExist ==
  ASSUME NEW S, IsFiniteSet(S), NEW f
  PROVE  SumsOf(f, S) = [s \in SUBSET S |-> Added(f, SumsOf(f, S), s)]
<1> DEFINE D(k) == {s \in SUBSET S : Cardinality(s) <= k}
           Sums2(g, k) == g = [s \in D(k) |-> Added(f, g, s)]
           T == {k \in Nat : \E g : Sums2(g, k)}
<1>1. 0 \in T
  <2> DEFINE g == [s \in D(0) |-> 0]
  <2>1. ASSUME NEW s \in D(0) PROVE s = {}
    <3>1. IsFiniteSet(s) /\ Cardinality(s) \in Nat /\ Cardinality(s) <= 0
      BY FS_Subset, FS_CardinalityType
    <3> QED BY <3>1, FS_EmptySet
  <2>2. g = [s \in D(0) |-> Added(f, g, s)]
    BY <2>1 DEF Added
  <2> QED BY <2>2, Zenon
<1>2. ASSUME NEW k \in Nat, k \in T PROVE k + 1 \in T
  <2>1. PICK g : Sums2(g, k)
    BY <1>2, Zenon
  <2> DEFINE h == [s \in D(k + 1) |-> Added(f, g, s)]
  <2>2. ASSUME NEW s \in D(k + 1) PROVE Added(f, h, s) = Added(f, g, s)
    <3>1. CASE s = {}
      BY <3>1 DEF Added
    <3>2. CASE s # {}
      <4> DEFINE t == s \ {One(s)}
      <4>1. t \in SUBSET S /\ Cardinality(t) = Cardinality(s) - 1 /\ Cardinality(s) \in Nat
        BY <3>2, OneLess
      <4>2. t \in D(k) /\ t \in D(k + 1)
        BY <4>1
      <4>3. h[t] = Added(f, g, t) /\ g[t] = Added(f, g, t)
        <5> HIDE DEF D, t
        <5> QED BY <2>1, <4>2
      <4> QED BY <3>2, <4>3 DEF Added
    <3> QED BY <3>1, <3>2
  <2>3. Sums2(h, k + 1)
    BY <2>2
  <2> HIDE DEF h
  <2> HIDE DEF Sums2
  <2> QED BY <2>3
<1>3. Nat \subseteq T
  <2> HIDE DEF T
  <2> QED BY <1>1, <1>2, SetInduction
<1>4. Cardinality(S) \in T
  BY <1>3, FS_CardinalityType, Zenon
<1>5. D(Cardinality(S)) = SUBSET S
  BY FS_Subset
<1>6. \E g : g = [s \in SUBSET S |-> Added(f, g, s)]
  BY <1>4, <1>5
<1> QED BY <1>6 DEF SumsOf

(* One summand changes.                                                    *)
LEMMA SumChanges ==
  ASSUME NEW S, IsFiniteSet(S), NEW f \in [S -> Int], NEW w \in S, NEW v \in Int
  PROVE  /\ Blocks!SumFunction(f) \in Int
         /\ Blocks!SumFunction([f EXCEPT ![w] = v]) = Blocks!SumFunction(f) - f[w] + v
<1> DEFINE x == [f EXCEPT ![w] = v]
           g == SumsOf(f, S)
           h == SumsOf(x, S)
           More(s) == IF w \in s THEN v - f[w] ELSE 0
           Good(s) == g[s] \in Int /\ h[s] = g[s] + More(s)
           T == {k \in Nat : \A s \in SUBSET S : Cardinality(s) = k => Good(s)}
<1>1. /\ \A s \in SUBSET S : g[s] = Added(f, g, s)
      /\ \A s \in SUBSET S : h[s] = Added(x, h, s)
  <2>1. g = [s \in SUBSET S |-> Added(f, g, s)] /\ h = [s \in SUBSET S |-> Added(x, h, s)]
    BY SumsExist, Zenon
  <2> HIDE DEF g, h
  <2> QED BY <2>1, Zenon
<1> HIDE DEF g, h
<1>2. ASSUME NEW s \in SUBSET S, s = {} PROVE Good(s)
  <2>1. g[s] = 0
    BY <1>1, <1>2, Zenon DEF Added
  <2>2. h[s] = 0
    <3> HIDE DEF x
    <3> QED BY <1>1, <1>2 DEF Added
  <2>3. w \notin s
    BY <1>2
  <2> QED BY <2>1, <2>2, <2>3
<1>3. 0 \in T
  <2>1. ASSUME NEW s \in SUBSET S, Cardinality(s) = 0 PROVE s = {}
    BY <2>1, FS_Subset, FS_EmptySet
  <2> QED BY <1>2, <2>1
<1>4. ASSUME NEW k \in Nat, k \in T PROVE k + 1 \in T
  <2> SUFFICES ASSUME NEW s \in SUBSET S, Cardinality(s) = k + 1 PROVE Good(s)
    OBVIOUS
  <2>0. CASE s = {}
    BY <1>2, <2>0
  <2>5. CASE s # {}
    <3> DEFINE t == s \ {One(s)}
    <3>1. One(s) \in s /\ t \in SUBSET S /\ Cardinality(t) = k
      <4>1. One(s) \in s /\ t \in SUBSET S /\ Cardinality(t) = Cardinality(s) - 1
        BY <2>5, OneLess, Zenon
      <4> QED BY <4>1
    <3>2. Good(t)
      BY <1>4, <3>1
    <3>3. g[s] = f[One(s)] + g[t] /\ h[s] = x[One(s)] + h[t]
      BY <1>1, <2>5, Zenon DEF Added
    <3>4. w \in s <=> (w = One(s) \/ w \in t)
      BY <3>1
    <3>5. w = One(s) => w \notin t
      OBVIOUS
    <3>6. f[One(s)] \in Int /\ f[w] \in Int /\ x[One(s)] = IF One(s) = w THEN v ELSE f[One(s)]
      BY <3>1
    <3> HIDE DEF t, x
    <3> QED BY <3>2, <3>3, <3>4, <3>5, <3>6
  <2> QED BY <2>0, <2>5
<1>5. Nat \subseteq T
  <2> HIDE DEF T
  <2> QED BY <1>3, <1>4, SetInduction
<1>6. Good(S)
  <2>1. Cardinality(S) \in T
    BY <1>5, FS_CardinalityType
  <2> QED BY <2>1
<1>7. Blocks!SumFunction(f) = g[S] /\ Blocks!SumFunction(x) = h[S]
  BY SumIsFold, Zenon DEF g, h
<1>8. f[w] \in Int
  OBVIOUS
<1>9. Blocks!SumFunction(f) \in Int /\ Blocks!SumFunction(x) = Blocks!SumFunction(f) - f[w] + v
  <2> HIDE DEF x
  <2> QED BY <1>6, <1>7, <1>8
<1> QED BY <1>9, Zenon

LEMMA SumOfZeros ==
  ASSUME NEW S, IsFiniteSet(S)
  PROVE  Blocks!SumFunction([x \in S |-> 0]) = 0
<1> DEFINE f == [x \in S |-> 0]
           g == SumsOf(f, S)
           T == {k \in Nat : \A s \in SUBSET S : Cardinality(s) = k => g[s] = 0}
<1>1. \A s \in SUBSET S : g[s] = Added(f, g, s)
  <2>1. g = [s \in SUBSET S |-> Added(f, g, s)]
    BY SumsExist, Zenon
  <2> HIDE DEF g
  <2> QED BY <2>1
<1> HIDE DEF g
<1>2. 0 \in T
  <2>1. ASSUME NEW s \in SUBSET S, Cardinality(s) = 0 PROVE g[s] = 0
    <3>1. s = {}
      BY <2>1, FS_Subset, FS_EmptySet
    <3> QED BY <1>1, <3>1 DEF Added
  <2> QED BY <2>1
<1>3. ASSUME NEW k \in Nat, k \in T PROVE k + 1 \in T
  <2> SUFFICES ASSUME NEW s \in SUBSET S, Cardinality(s) = k + 1 PROVE g[s] = 0
    OBVIOUS
  <2>1. CASE s = {}
    BY <1>1, <2>1, Zenon DEF Added
  <2>2. CASE s # {}
    <3>1. One(s) \in s /\ s \ {One(s)} \in SUBSET S /\ Cardinality(s \ {One(s)}) = k
      <4>1. One(s) \in s /\ s \ {One(s)} \in SUBSET S /\ Cardinality(s \ {One(s)}) = Cardinality(s) - 1
        BY <2>2, OneLess, Zenon
      <4> QED BY <4>1
    <3>2. g[s \ {One(s)}] = 0 /\ f[One(s)] = 0
      BY <1>3, <3>1
    <3>3. g[s] = f[One(s)] + g[s \ {One(s)}]
      BY <1>1, <2>2 DEF Added
    <3> QED BY <3>2, <3>3
  <2> QED BY <2>1, <2>2
<1>4. Nat \subseteq T
  <2> HIDE DEF T
  <2> QED BY <1>2, <1>3, SetInduction
<1>5. g[S] = 0
  <2>1. Cardinality(S) \in T
    BY <1>4, FS_CardinalityType
  <2> QED BY <2>1
<1>6. DOMAIN f = S
  OBVIOUS
<1> HIDE DEF f
<1> QED BY <1>5, <1>6, SumIsFold DEF g, f

-----------------------------------------------------------------------------
(* Sequences without repetition, and the set of what is in them.           *)
Single(q) == \A i, k \in 1 .. Len(q) : q[i] = q[k] => i = k
Disjoint(p, q) == Blocks!ToSet(p) \cap Blocks!ToSet(q) = {}

LEMMA InSeq ==
  ASSUME NEW A, NEW q \in Seq(A)
  PROVE  /\ Blocks!ToSet(q) = {q[i] : i \in 1 .. Len(q)}
         /\ Blocks!ToSet(q) \subseteq A
BY DEF Blocks!ToSet

LEMMA TailOf ==
  ASSUME NEW A, NEW q \in Seq(A), q # << >>, Single(q)
  PROVE  /\ Tail(q) \in Seq(A) /\ Single(Tail(q)) /\ Len(Tail(q)) = Len(q) - 1
         /\ Head(q) = q[1] /\ Head(q) \in A
         /\ Head(q) \in Blocks!ToSet(q) /\ Head(q) \notin Blocks!ToSet(Tail(q))
         /\ Blocks!ToSet(q) = Blocks!ToSet(Tail(q)) \cup {Head(q)}
         /\ \A i \in 1 .. Len(q) - 1 : Tail(q)[i] = q[i + 1]
<1> DEFINE t == Tail(q)
<1>1. t \in Seq(A) /\ Len(t) = Len(q) - 1 /\ Len(q) \in Nat /\ Len(q) >= 1 /\ Head(q) = q[1] /\ q[1] \in A
  OBVIOUS
<1>2. \A i \in 1 .. Len(t) : t[i] = q[i + 1]
  OBVIOUS
<1> HIDE DEF t
<1>3. Single(t)
  BY <1>1, <1>2 DEF Single
<1>4. ASSUME NEW i \in 1 .. Len(q), i # 1 PROVE i - 1 \in 1 .. Len(t) /\ q[i] = t[i - 1]
  BY <1>1, <1>2, <1>4
<1>5. Blocks!ToSet(q) = {q[i] : i \in 1 .. Len(q)} /\ Blocks!ToSet(t) = {t[i] : i \in 1 .. Len(t)}
  BY <1>1, InSeq
<1>6. Blocks!ToSet(t) \subseteq Blocks!ToSet(q) /\ q[1] \in Blocks!ToSet(q) /\ q[1] \notin Blocks!ToSet(t)
  BY <1>1, <1>2, <1>5 DEF Single
<1>7. Blocks!ToSet(q) \subseteq Blocks!ToSet(t) \cup {q[1]}
  BY <1>4, <1>5
<1>8. Blocks!ToSet(q) = Blocks!ToSet(t) \cup {Head(q)}
  BY <1>1, <1>6, <1>7
<1> QED BY <1>1, <1>2, <1>3, <1>6, <1>8 DEF t

LEMMA ConsOf ==
  ASSUME NEW A, NEW q \in Seq(A), NEW x \in A, x \notin Blocks!ToSet(q), Single(q)
  PROVE  /\ <<x>> \o q \in Seq(A) /\ Single(<<x>> \o q) /\ Len(<<x>> \o q) = Len(q) + 1
         /\ Blocks!ToSet(<<x>> \o q) = Blocks!ToSet(q) \cup {x}
         /\ (<<x>> \o q)[1] = x /\ \A i \in 2 .. Len(q) + 1 : (<<x>> \o q)[i] = q[i - 1]
<1> DEFINE t == <<x>> \o q
<1>1. t \in Seq(A) /\ Len(t) = Len(q) + 1 /\ Len(q) \in Nat /\ t[1] = x
  OBVIOUS
<1>2. \A i \in 2 .. Len(q) + 1 : t[i] = q[i - 1]
  OBVIOUS
<1> HIDE DEF t
<1>3. Blocks!ToSet(q) = {q[i] : i \in 1 .. Len(q)} /\ Blocks!ToSet(t) = {t[i] : i \in 1 .. Len(t)}
  BY <1>1, InSeq
<1>4. ASSUME NEW i \in 1 .. Len(q) PROVE i + 1 \in 1 .. Len(t) /\ q[i] = t[i + 1] /\ q[i] # x
  BY <1>1, <1>2, <1>3
<1>5. ASSUME NEW i \in 1 .. Len(t), i # 1 PROVE i - 1 \in 1 .. Len(q) /\ t[i] = q[i - 1]
  BY <1>1, <1>2, <1>5
<1>6. Blocks!ToSet(t) = Blocks!ToSet(q) \cup {x}
  <2>1. Blocks!ToSet(q) \subseteq Blocks!ToSet(t) /\ x \in Blocks!ToSet(t)
    BY <1>1, <1>3, <1>4
  <2>2. Blocks!ToSet(t) \subseteq Blocks!ToSet(q) \cup {x}
    BY <1>1, <1>3, <1>5
  <2> QED BY <2>1, <2>2
<1>7. Single(t)
  <2> SUFFICES ASSUME NEW i \in 1 .. Len(t), NEW k \in 1 .. Len(t), t[i] = t[k] PROVE i = k
    BY DEF Single
  <2>1. CASE i = 1 \/ k = 1
    <3>1. \A m \in 1 .. Len(t) : m # 1 => t[m] # x
      BY <1>4, <1>5, Zenon
    <3> QED BY <1>1, <2>1, <3>1
  <2>2. CASE i # 1 /\ k # 1
    <3>1. i - 1 = k - 1
      BY <1>5, <2>2 DEF Single
    <3> QED BY <3>1
  <2> QED BY <2>1, <2>2
<1> QED BY <1>1, <1>2, <1>6, <1>7 DEF t

Parts(A, q, p, r) ==
  /\ p \in Seq(A) /\ r \in Seq(A) /\ Single(p) /\ Single(r)
  /\ Disjoint(p, r) /\ Blocks!ToSet(q) = Blocks!ToSet(p) \cup Blocks!ToSet(r)

LEMMA CutOf ==
  ASSUME NEW A, NEW q \in Seq(A), NEW m \in 0 .. Len(q), Single(q)
  PROVE  /\ Parts(A, q, SubSeq(q, 1, m), SubSeq(q, m + 1, Len(q)))
         /\ Len(SubSeq(q, 1, m)) = m /\ Len(SubSeq(q, m + 1, Len(q))) = Len(q) - m
<1> DEFINE p == SubSeq(q, 1, m)
           r == SubSeq(q, m + 1, Len(q))
<1>1. p \in Seq(A) /\ Len(p) = m /\ m \in Nat /\ \A i \in 1 .. m : p[i] = q[i]
  OBVIOUS
<1>2. r \in Seq(A) /\ Len(r) = Len(q) - m /\ Len(q) \in Nat /\ Len(r) \in Nat
  OBVIOUS
<1>3. \A i \in 1 .. Len(r) : r[i] = q[m + i]
  <2> SUFFICES ASSUME NEW i \in 1 .. Len(r) PROVE r[i] = q[m + i]
    OBVIOUS
  <2>1. i \in 1 .. (Len(q) + 1 - (m + 1)) /\ (m + 1) + i - 1 = m + i
    BY <1>2
  <2> QED BY <2>1
<1> HIDE DEF p, r
<1>4. /\ Blocks!ToSet(q) = {q[i] : i \in 1 .. Len(q)}
      /\ Blocks!ToSet(p) = {p[i] : i \in 1 .. m} /\ Blocks!ToSet(r) = {r[i] : i \in 1 .. Len(r)}
  <2>1. Blocks!ToSet(q) = {q[i] : i \in 1 .. Len(q)}
    BY InSeq
  <2>2. Blocks!ToSet(p) = {p[i] : i \in 1 .. Len(p)}
    <3>1. DOMAIN p = 1 .. Len(p)
      BY <1>1
    <3> QED BY <3>1 DEF Blocks!ToSet
  <2>3. Blocks!ToSet(r) = {r[i] : i \in 1 .. Len(r)}
    <3>1. DOMAIN r = 1 .. Len(r)
      BY <1>2
    <3> QED BY <3>1 DEF Blocks!ToSet
  <2> QED BY <1>1, <2>1, <2>2, <2>3
<1>5. ASSUME NEW i \in 1 .. Len(r) PROVE m + i \in 1 .. Len(q) /\ m + i > m
  BY <1>1, <1>2
<1>6. ASSUME NEW i \in 1 .. Len(q), i > m PROVE i - m \in 1 .. Len(r) /\ q[i] = r[i - m]
  <2>1. i - m \in 1 .. Len(r) /\ m + (i - m) = i
    BY <1>1, <1>2, <1>6
  <2> QED BY <1>3, <2>1
<1>7. Single(p) /\ Single(r)
  <2>1. Single(p)
    BY <1>1 DEF Single
  <2>2. ASSUME NEW i \in 1 .. Len(r), NEW k \in 1 .. Len(r), r[i] = r[k] PROVE i = k
    <3>1. m + i = m + k
      BY <1>3, <1>5, <2>2 DEF Single
    <3> QED BY <1>1, <3>1
  <2> QED BY <2>1, <2>2 DEF Single
<1>8. Disjoint(p, r)
  <2> SUFFICES ASSUME NEW i \in 1 .. m, NEW k \in 1 .. Len(r), p[i] = r[k] PROVE FALSE
    BY <1>4 DEF Disjoint
  <2>1. i = m + k
    BY <1>1, <1>3, <1>5 DEF Single
  <2> QED BY <1>1, <2>1
<1>9. Blocks!ToSet(q) = Blocks!ToSet(p) \cup Blocks!ToSet(r)
  <2>1. Blocks!ToSet(p) \subseteq Blocks!ToSet(q)
    BY <1>1, <1>4
  <2>2. Blocks!ToSet(r) \subseteq Blocks!ToSet(q)
    BY <1>3, <1>4, <1>5
  <2>3. ASSUME NEW i \in 1 .. Len(q) PROVE q[i] \in Blocks!ToSet(p) \cup Blocks!ToSet(r)
    <3>1. CASE i <= m
      BY <1>1, <1>4, <3>1
    <3>2. CASE i > m
      BY <1>4, <1>6, <3>2, Zenon
    <3> QED BY <1>1, <3>1, <3>2
  <2> QED BY <1>4, <2>1, <2>2, <2>3, Zenon
<1> QED BY <1>1, <1>2, <1>7, <1>8, <1>9 DEF Parts, p, r

-----------------------------------------------------------------------------
(* The block allocator, as what holds of its lists, l of the workers, g    *)
(* shared and f on their way, of the blocks u handed out, and of the       *)
(* number of buffers b.                                                    *)
SharedLists(g, f) == Blocks!ToSet(g) \cup f
FreeBlocks(l, g, f) == (UNION {Blocks!ToSet(q) : q \in SharedLists(g, f)})
                       \cup (UNION {Blocks!ToSet(l[w].list) : w \in Pair})
LocalBlocks(l) == Blocks!SumFunction([w \in Pair |-> l[w].sz])

LocalList == [sz : Nat, list : Seq(Nat), mid : Nat]
BlockTypes(l, g, f, u, b) ==
  /\ l \in [Pair -> LocalList]
  /\ g \in Seq(Seq(Nat)) /\ f \in SUBSET Seq(Nat) /\ IsFiniteSet(f)
  /\ u \in SUBSET Nat /\ b \in Nat

Lengths(l, g, f) ==
  /\ \A w \in Pair : l[w].sz = Len(l[w].list)
  /\ \A q \in SharedLists(g, f) : Len(q) = ListLength

(* No block is twice on a list, or on two lists, and no list is shared and *)
(* on its way.                                                             *)
EachOnce(l, g, f) ==
  /\ Single(g) /\ \A q \in f : q \notin Blocks!ToSet(g)
  /\ \A q \in SharedLists(g, f) : Single(q)
  /\ \A w \in Pair : Single(l[w].list)
  /\ \A q, r \in SharedLists(g, f) : q # r => Disjoint(q, r)
  /\ \A w, v \in Pair : w # v => Disjoint(l[w].list, l[v].list)
  /\ \A w \in Pair : \A q \in SharedLists(g, f) : Disjoint(l[w].list, q)

(* From mid on there are as many blocks as a shared list has, and one.     *)
Middle(l) == \A w \in Pair : l[w].sz >= ListLength + 2 => l[w].list[l[w].sz - ListLength] = l[w].mid

AllThere(l, g, f, u, b) ==
  /\ u \cap FreeBlocks(l, g, f) = {} /\ u \cup FreeBlocks(l, g, f) = 1 .. b * ListLength
  /\ Cardinality(FreeBlocks(l, g, f)) = ListLength * (Len(g) + Cardinality(f)) + LocalBlocks(l)

BlocksInv(l, g, f, u, b) ==
  /\ BlockTypes(l, g, f, u, b) /\ Lengths(l, g, f) /\ EachOnce(l, g, f)
  /\ Middle(l) /\ AllThere(l, g, f, u, b)

LEMMA LocalChanges ==
  ASSUME NEW l \in [Pair -> LocalList], NEW w \in Pair,
         NEW x \in LocalList
  PROVE  /\ LocalBlocks(l) \in Int
         /\ LocalBlocks([l EXCEPT ![w] = x]) = LocalBlocks(l) - l[w].sz + x.sz
<1> DEFINE f == [v \in Pair |-> l[v].sz]
           m == [l EXCEPT ![w] = x]
<1>1. f \in [Pair -> Int] /\ x.sz \in Int /\ f[w] = l[w].sz /\ IsFiniteSet(Pair)
  BY BlocksOK DEF LocalList
<1>2. [v \in Pair |-> m[v].sz] = [f EXCEPT ![w] = x.sz]
  BY Zenon
<1> HIDE DEF f, m
<1>3. Blocks!SumFunction(f) \in Int /\ Blocks!SumFunction([f EXCEPT ![w] = x.sz]) = Blocks!SumFunction(f) - f[w] + x.sz
  BY <1>1, SumChanges, Zenon
<1>4. LocalBlocks(l) = Blocks!SumFunction(f) /\ LocalBlocks(m) = Blocks!SumFunction([f EXCEPT ![w] = x.sz])
  BY <1>2, Zenon DEF LocalBlocks, f
<1>5. LocalBlocks(l) \in Int /\ LocalBlocks(m) = LocalBlocks(l) - l[w].sz + x.sz
  BY <1>1, <1>3, <1>4
<1> QED BY <1>5, Zenon DEF m

LEMMA LocalSum == \A l \in [Pair -> LocalList] : LocalBlocks(l) \in Int
<1> SUFFICES ASSUME NEW l \in [Pair -> LocalList] PROVE LocalBlocks(l) \in Int
  OBVIOUS
<1>1. CASE Pair = {}
  <2>1. [w \in Pair |-> l[w].sz] = [w \in Pair |-> 0]
    BY <1>1
  <2>2. Blocks!SumFunction([w \in Pair |-> 0]) = 0
    BY SumOfZeros, BlocksOK
  <2> QED BY <2>1, <2>2 DEF LocalBlocks
<1>2. CASE Pair # {}
  BY <1>2, LocalChanges
<1> QED BY <1>1, <1>2

LEMMA FreeFinite ==
  ASSUME NEW l, NEW g, NEW f, NEW u, NEW b, BlocksInv(l, g, f, u, b)
  PROVE  /\ Cardinality(f) \in Nat /\ Len(g) \in Nat /\ ListLength * (Len(g) + Cardinality(f)) \in Nat
         /\ IsFiniteSet(FreeBlocks(l, g, f)) /\ IsFiniteSet(u)
         /\ Cardinality(FreeBlocks(l, g, f)) \in Nat
         /\ u \subseteq 1 .. b * ListLength
         /\ ListLength \in Nat /\ ListLength >= 1
<1>1. b * ListLength \in Nat /\ ListLength \in Nat /\ ListLength >= 1 /\ b \in Nat
  BY BlocksOK DEF BlocksInv, BlockTypes
<1>2. IsFiniteSet(1 .. b * ListLength)
  BY <1>1, FS_Interval
<1>3. FreeBlocks(l, g, f) \subseteq 1 .. b * ListLength /\ u \subseteq 1 .. b * ListLength
  BY DEF BlocksInv, AllThere
<1>4. Cardinality(f) \in Nat /\ Len(g) \in Nat
  BY FS_CardinalityType DEF BlocksInv, BlockTypes
<1>5. ListLength * (Len(g) + Cardinality(f)) \in Nat
  BY <1>1, <1>4
<1> QED BY <1>1, <1>2, <1>3, <1>4, <1>5, FS_Subset, FS_CardinalityType, Zenon

(* A worker's list becomes another one.                                    *)
Fits(l, g, f, w, x) ==
  /\ l \in [Pair -> LocalList] /\ Lengths(l, g, f) /\ EachOnce(l, g, f)
  /\ x \in LocalList /\ x.sz = Len(x.list) /\ Single(x.list)
  /\ \A v \in Pair : v # w => Disjoint(x.list, l[v].list)
  /\ \A q \in SharedLists(g, f) : Disjoint(x.list, q)

Replaced(l, g, f, w, x, m) ==
  /\ m \in [Pair -> LocalList] /\ Lengths(m, g, f) /\ EachOnce(m, g, f)
  /\ m[w] = x /\ \A v \in Pair : v # w => m[v] = l[v]
  /\ FreeBlocks(m, g, f) = (FreeBlocks(l, g, f) \ Blocks!ToSet(l[w].list)) \cup Blocks!ToSet(x.list)

LEMMA ListReplaced ==
  ASSUME NEW l, NEW g, NEW f, NEW w \in Pair, NEW x, Fits(l, g, f, w, x)
  PROVE  Replaced(l, g, f, w, x, [l EXCEPT ![w] = x])
<1> DEFINE m == [l EXCEPT ![w] = x]
<1>0. l \in [Pair -> LocalList] /\ x \in LocalList /\ m = [l EXCEPT ![w] = x]
  BY DEF Fits
<1> HIDE DEF m
<1>1. m \in [Pair -> LocalList] /\ m[w] = x /\ \A v \in Pair : v # w => m[v] = l[v]
  BY <1>0, Zenon
<1> DEFINE before == FreeBlocks(l, g, f)
           after  == FreeBlocks(m, g, f)
<1>2. Lengths(m, g, f)
  BY <1>1 DEF Lengths, Fits
<1>3. EachOnce(m, g, f)
  BY <1>1, Zenon DEF EachOnce, Disjoint, Fits
<1>4. \A d \in before : d \notin Blocks!ToSet(l[w].list) => d \in after
  BY <1>1 DEF FreeBlocks
<1>5. Blocks!ToSet(x.list) \subseteq after
  BY <1>1 DEF FreeBlocks
<1>6. ASSUME NEW d \in after, d \notin Blocks!ToSet(x.list)
      PROVE  d \in before /\ d \notin Blocks!ToSet(l[w].list)
  <2>1. CASE \E q \in SharedLists(g, f) : d \in Blocks!ToSet(q)
    BY <2>1 DEF FreeBlocks, EachOnce, Disjoint, Fits
  <2>2. CASE \E v \in Pair : d \in Blocks!ToSet(m[v].list)
    <3>1. PICK v \in Pair : d \in Blocks!ToSet(m[v].list)
      BY <2>2
    <3>2. v # w /\ d \in Blocks!ToSet(l[v].list)
      BY <1>1, <1>6, <3>1
    <3> QED BY <3>2 DEF FreeBlocks, EachOnce, Disjoint, Fits
  <2> QED BY <2>1, <2>2 DEF FreeBlocks
<1> QED BY <1>1, <1>2, <1>3, <1>4, <1>5, <1>6, Zenon DEF Replaced, m

(* alloc takes the first block of a list.                                  *)
LEMMA BlockTaken ==
  ASSUME NEW l, NEW g, NEW f, NEW u, NEW b, BlocksInv(l, g, f, u, b), NEW w \in Pair, l[w].sz # 0
  PROVE  BlocksInv([l EXCEPT ![w] = [l[w] EXCEPT !.sz = @ - 1, !.list = Tail(@)]],
                   g, f, u \cup {Head(l[w].list)}, b)
<1> DEFINE r == l[w]
           c == Head(r.list)
           x == [r EXCEPT !.sz = @ - 1, !.list = Tail(@)]
           m == [l EXCEPT ![w] = x]
           u2 == u \cup {c}
<1>1. /\ l \in [Pair -> LocalList] /\ r \in LocalList
      /\ r.list \in Seq(Nat) /\ Single(r.list) /\ r.sz = Len(r.list) /\ r.sz \in Nat
      /\ u \in SUBSET Nat /\ b \in Nat
  BY DEF BlocksInv, BlockTypes, Lengths, EachOnce, LocalList
<1>2. r.list # << >>
  BY <1>1
<1>3. /\ Tail(r.list) \in Seq(Nat) /\ Single(Tail(r.list)) /\ Len(Tail(r.list)) = Len(r.list) - 1
      /\ c \in Nat /\ c \in Blocks!ToSet(r.list) /\ c \notin Blocks!ToSet(Tail(r.list))
      /\ Blocks!ToSet(r.list) = Blocks!ToSet(Tail(r.list)) \cup {c}
      /\ \A i \in 1 .. Len(r.list) - 1 : Tail(r.list)[i] = r.list[i + 1]
  <2> HIDE DEF r
  <2> QED BY <1>1, <1>2, TailOf
<1>4. x \in LocalList /\ x.sz = r.sz - 1 /\ x.list = Tail(r.list) /\ x.mid = r.mid
  <2> HIDE DEF r
  <2>1. r.sz - 1 \in Nat
    BY <1>1, <1>2
  <2> QED BY <1>1, <1>3, <2>1, Zenon DEF LocalList
<1> HIDE DEF x
<1>5. /\ \A v \in Pair : v # w => Disjoint(x.list, l[v].list)
      /\ \A q \in SharedLists(g, f) : Disjoint(x.list, q)
  BY <1>3, <1>4, Zenon DEF BlocksInv, EachOnce, Disjoint
<1>6. /\ m \in [Pair -> LocalList] /\ Lengths(m, g, f) /\ EachOnce(m, g, f)
      /\ m[w] = x /\ \A v \in Pair : v # w => m[v] = l[v]
      /\ FreeBlocks(m, g, f) = (FreeBlocks(l, g, f) \ Blocks!ToSet(l[w].list)) \cup Blocks!ToSet(x.list)
  <2>1. x.sz = Len(x.list) /\ Single(x.list)
    BY <1>1, <1>3, <1>4
  <2>2. Lengths(l, g, f) /\ EachOnce(l, g, f)
    BY DEF BlocksInv
  <2>3. Fits(l, g, f, w, x)
    BY <1>1, <1>4, <1>5, <2>1, <2>2 DEF Fits
  <2>4. Replaced(l, g, f, w, x, m)
    BY <2>3, ListReplaced
  <2> HIDE DEF m, r
  <2> QED BY <2>4 DEF Replaced
<1> HIDE DEF m
<1>7. BlockTypes(m, g, f, u2, b)
  BY <1>3, <1>6, Zenon DEF BlocksInv, BlockTypes
<1>8. Middle(m)
  <2> SUFFICES ASSUME NEW v \in Pair, m[v].sz >= ListLength + 2
               PROVE  m[v].list[m[v].sz - ListLength] = m[v].mid
    BY DEF Middle
  <2>1. CASE v # w
    BY <1>6, <2>1 DEF BlocksInv, Middle
  <2>2. CASE v = w
    <3> DEFINE i == x.sz - ListLength
    <3>1. ListLength \in Nat /\ x.sz >= ListLength + 2
      BY <1>6, <2>2, BlocksOK
    <3>2. i \in 1 .. Len(r.list) - 1 /\ i + 1 = r.sz - ListLength /\ r.sz >= ListLength + 2
      BY <1>1, <1>4, <3>1
    <3>3. Tail(r.list)[i] = r.list[i + 1]
      BY <1>3, <3>2
    <3>4. r.list[i + 1] = r.mid
      BY <3>2 DEF BlocksInv, Middle
    <3> QED BY <1>4, <1>6, <2>2, <3>3, <3>4, Zenon
  <2> QED BY <2>1, <2>2
<1>9. c \in FreeBlocks(l, g, f) /\ FreeBlocks(m, g, f) = FreeBlocks(l, g, f) \ {c}
  <2>1. Blocks!ToSet(r.list) \subseteq FreeBlocks(l, g, f)
    BY DEF FreeBlocks
  <2> QED BY <1>3, <1>4, <1>6, <2>1
<1>10. AllThere(m, g, f, u2, b)
  <2>1. u2 \cap FreeBlocks(m, g, f) = {} /\ u2 \cup FreeBlocks(m, g, f) = 1 .. b * ListLength
    BY <1>9 DEF BlocksInv, AllThere
  <2>2. Cardinality(FreeBlocks(m, g, f)) = Cardinality(FreeBlocks(l, g, f)) - 1
    <3> DEFINE S == FreeBlocks(l, g, f)
    <3>1. IsFiniteSet(S) /\ c \in S /\ FreeBlocks(m, g, f) = S \ {c}
      BY <1>9, FreeFinite
    <3> HIDE DEF S
    <3>2. Cardinality(S \ {c}) = Cardinality(S) - 1
      BY <3>1, FS_RemoveElement, Zenon
    <3> QED BY <3>1, <3>2 DEF S
  <2>3. LocalBlocks(l) \in Int /\ LocalBlocks(m) = LocalBlocks(l) - r.sz + x.sz
    BY <1>1, <1>4, LocalChanges, Zenon DEF m
  <2>4. ListLength * (Len(g) + Cardinality(f)) \in Int
    BY FreeFinite
  <2>5. Cardinality(FreeBlocks(l, g, f)) = ListLength * (Len(g) + Cardinality(f)) + LocalBlocks(l)
    BY DEF BlocksInv, AllThere
  <2>6. LocalBlocks(m) = LocalBlocks(l) - 1
    BY <1>1, <1>4, <2>3
  <2>7. Cardinality(FreeBlocks(m, g, f)) = ListLength * (Len(g) + Cardinality(f)) + LocalBlocks(m)
    BY <2>2, <2>3, <2>4, <2>5, <2>6
  <2> QED BY <2>1, <2>7 DEF AllThere
<1> QED BY <1>6, <1>7, <1>8, <1>10 DEF BlocksInv, m, x

Longer(r, s, q) == [r EXCEPT !.sz = s, !.list = q]

LEMMA LongerList ==
  ASSUME NEW r \in LocalList, NEW s \in Nat, NEW q \in Seq(Nat)
  PROVE  /\ Longer(r, s, q) \in LocalList /\ Longer(r, s, q).sz = s
         /\ Longer(r, s, q).list = q /\ Longer(r, s, q).mid = r.mid
BY Zenon DEF LocalList, Longer

(* free puts a block in front of a worker's list.                          *)
LEMMA BlockPut ==
  ASSUME NEW l, NEW g, NEW f, NEW u, NEW b, BlocksInv(l, g, f, u, b), NEW w \in Pair, NEW c \in u,
         l[w].sz = ListLength + 1 => l[w].mid = Head(l[w].list)
  PROVE  BlocksInv([l EXCEPT ![w] = Blocks!Put(l[w], c)], g, f, u \ {c}, b)
<1> DEFINE r == l[w]
           x == Blocks!Put(r, c)
           m == [l EXCEPT ![w] = x]
           u2 == u \ {c}
<1>1. /\ l \in [Pair -> LocalList] /\ r \in LocalList
      /\ r.list \in Seq(Nat) /\ Single(r.list) /\ r.sz = Len(r.list) /\ r.sz \in Nat
      /\ u \in SUBSET Nat /\ b \in Nat /\ c \in Nat
  BY DEF BlocksInv, BlockTypes, Lengths, EachOnce, LocalList
<1>2. Blocks!ToSet(r.list) \subseteq FreeBlocks(l, g, f) /\ c \notin FreeBlocks(l, g, f)
  BY DEF FreeBlocks, BlocksInv, AllThere
<1>3. /\ <<c>> \o r.list \in Seq(Nat) /\ Single(<<c>> \o r.list) /\ Len(<<c>> \o r.list) = Len(r.list) + 1
      /\ Blocks!ToSet(<<c>> \o r.list) = Blocks!ToSet(r.list) \cup {c}
      /\ \A i \in 2 .. Len(r.list) + 1 : (<<c>> \o r.list)[i] = r.list[i - 1]
  <2> HIDE DEF r
  <2>1. c \notin Blocks!ToSet(r.list)
    BY <1>2
  <2> QED BY <1>1, <2>1, ConsOf
<1>4. x \in LocalList /\ x.sz = r.sz + 1 /\ x.list = <<c>> \o r.list /\ x.mid = r.mid
  <2> HIDE DEF r
  <2>1. r.sz + 1 \in Nat
    BY <1>1
  <2>2. x = Longer(r, r.sz + 1, <<c>> \o r.list)
    BY Zenon DEF Blocks!Put, Longer
  <2>3. \A s \in Nat, z \in Seq(Nat) :
          /\ Longer(r, s, z) \in LocalList /\ Longer(r, s, z).sz = s
          /\ Longer(r, s, z).list = z /\ Longer(r, s, z).mid = r.mid
    BY <1>1, LongerList, Zenon
  <2> HIDE DEF x
  <2>4. <<c>> \o r.list \in Seq(Nat)
    BY <1>3
  <2> QED BY <2>1, <2>2, <2>3, <2>4, Zenon
<1> HIDE DEF x
<1>5. /\ \A v \in Pair : v # w => Disjoint(x.list, l[v].list)
      /\ \A q \in SharedLists(g, f) : Disjoint(x.list, q)
  <2>1. ASSUME NEW v \in Pair PROVE c \notin Blocks!ToSet(l[v].list)
    BY <1>2 DEF FreeBlocks
  <2>2. ASSUME NEW q \in SharedLists(g, f) PROVE c \notin Blocks!ToSet(q)
    BY <1>2 DEF FreeBlocks
  <2>3. /\ \A v \in Pair : v # w => Disjoint(r.list, l[v].list)
        /\ \A q \in SharedLists(g, f) : Disjoint(r.list, q)
    BY DEF BlocksInv, EachOnce
  <2>4. Blocks!ToSet(x.list) = Blocks!ToSet(r.list) \cup {c}
    BY <1>3, <1>4
  <2> HIDE DEF r
  <2> QED BY <2>1, <2>2, <2>3, <2>4 DEF Disjoint
<1>6. /\ m \in [Pair -> LocalList] /\ Lengths(m, g, f) /\ EachOnce(m, g, f)
      /\ m[w] = x /\ \A v \in Pair : v # w => m[v] = l[v]
      /\ FreeBlocks(m, g, f) = (FreeBlocks(l, g, f) \ Blocks!ToSet(l[w].list)) \cup Blocks!ToSet(x.list)
  <2>1. x.sz = Len(x.list) /\ Single(x.list)
    BY <1>1, <1>3, <1>4
  <2>2. Lengths(l, g, f) /\ EachOnce(l, g, f)
    BY DEF BlocksInv
  <2>3. Fits(l, g, f, w, x)
    BY <1>1, <1>4, <1>5, <2>1, <2>2 DEF Fits
  <2>4. Replaced(l, g, f, w, x, m)
    BY <2>3, ListReplaced
  <2> HIDE DEF m, r
  <2> QED BY <2>4 DEF Replaced
<1> HIDE DEF m
<1>7. BlockTypes(m, g, f, u2, b)
  BY <1>3, <1>6 DEF BlocksInv, BlockTypes
<1>8. Middle(m)
  <2> SUFFICES ASSUME NEW v \in Pair, m[v].sz >= ListLength + 2
               PROVE  m[v].list[m[v].sz - ListLength] = m[v].mid
    BY DEF Middle
  <2>1. CASE v # w
    BY <1>6, <2>1 DEF BlocksInv, Middle
  <2>2. CASE v = w
    <3> DEFINE i == x.sz - ListLength
    <3>1. ListLength \in Nat /\ x.sz >= ListLength + 2
      BY <1>6, <2>2, BlocksOK
    <3>2. i \in 2 .. Len(r.list) + 1 /\ i - 1 = r.sz - ListLength /\ r.sz >= ListLength + 1
      <4>0. ListLength >= 1
        BY BlocksOK
      <4>1. x.sz = r.sz + 1 /\ r.sz = Len(r.list) /\ r.sz \in Nat
        BY <1>1, <1>4
      <4> HIDE DEF r, x
      <4> QED BY <3>1, <4>0, <4>1
    <3>3. (<<c>> \o r.list)[i] = r.list[i - 1]
      BY <1>3, <3>2
    <3>4. r.list[i - 1] = r.mid
      <4>1. CASE r.sz >= ListLength + 2
        BY <3>2, <4>1 DEF BlocksInv, Middle
      <4>2. CASE r.sz = ListLength + 1
        <5>1. i - 1 = 1 /\ r.list # << >>
          <6>1. r.sz - ListLength = 1 /\ r.sz # 0
            BY <3>1, <4>2
          <6> HIDE DEF r, i
          <6> QED BY <1>1, <3>2, <6>1
        <5>2. Head(r.list) = r.list[1]
          <6> HIDE DEF r
          <6> QED BY <1>1, <5>1
        <5> QED BY <4>2, <5>1, <5>2
      <4> QED BY <1>1, <3>1, <3>2, <4>1, <4>2
    <3> QED BY <1>4, <1>6, <2>2, <3>3, <3>4, Zenon
  <2> QED BY <2>1, <2>2
<1>9. FreeBlocks(m, g, f) = FreeBlocks(l, g, f) \cup {c}
  BY <1>2, <1>3, <1>4, <1>6
<1>10. AllThere(m, g, f, u2, b)
  <2>1. u2 \cap FreeBlocks(m, g, f) = {} /\ u2 \cup FreeBlocks(m, g, f) = 1 .. b * ListLength
    BY <1>9 DEF BlocksInv, AllThere
  <2>2. Cardinality(FreeBlocks(m, g, f)) = Cardinality(FreeBlocks(l, g, f)) + 1
    <3>1. IsFiniteSet(FreeBlocks(l, g, f))
      BY FreeFinite
    <3> QED BY <1>2, <1>9, <3>1, FS_AddElement, Zenon
  <2>3. LocalBlocks(l) \in Int /\ LocalBlocks(m) = LocalBlocks(l) - r.sz + x.sz
    BY <1>1, <1>4, LocalChanges, Zenon DEF m
  <2>4. ListLength * (Len(g) + Cardinality(f)) \in Int
    BY FreeFinite
  <2>5. Cardinality(FreeBlocks(l, g, f)) = ListLength * (Len(g) + Cardinality(f)) + LocalBlocks(l)
    BY DEF BlocksInv, AllThere
  <2>6. LocalBlocks(m) = LocalBlocks(l) + 1
    BY <1>1, <1>4, <2>3
  <2>7. Cardinality(FreeBlocks(m, g, f)) = ListLength * (Len(g) + Cardinality(f)) + LocalBlocks(m)
    BY <2>2, <2>3, <2>4, <2>5, <2>6
  <2> QED BY <2>1, <2>7 DEF AllThere
<1> QED BY <1>6, <1>7, <1>8, <1>10 DEF BlocksInv, m, x

(* free marks the middle.                                                  *)
LEMMA MiddleMarked ==
  ASSUME NEW l, NEW g, NEW f, NEW u, NEW b, BlocksInv(l, g, f, u, b), NEW w \in Pair,
         l[w].sz = ListLength + 1
  PROVE  BlocksInv([l EXCEPT ![w] = [l[w] EXCEPT !.mid = Head(l[w].list)]], g, f, u, b)
<1> DEFINE r == l[w]
           x == [r EXCEPT !.mid = Head(r.list)]
           m == [l EXCEPT ![w] = x]
<1>1. /\ l \in [Pair -> LocalList] /\ r \in LocalList /\ r.sz = Len(r.list) /\ r.list \in Seq(Nat)
      /\ Single(r.list)
  BY DEF BlocksInv, BlockTypes, Lengths, EachOnce, LocalList
<1>2. x \in LocalList /\ x.sz = r.sz /\ x.list = r.list
  <2> HIDE DEF r
  <2>1. r.list # << >>
    BY <1>1, BlocksOK DEF r
  <2>2. Head(r.list) \in Nat
    BY <1>1, <2>1
  <2> QED BY <1>1, <2>2, Zenon DEF LocalList
<1> HIDE DEF x
<1>3. /\ m \in [Pair -> LocalList] /\ Lengths(m, g, f) /\ EachOnce(m, g, f)
      /\ m[w] = x /\ \A v \in Pair : v # w => m[v] = l[v]
      /\ FreeBlocks(m, g, f) = (FreeBlocks(l, g, f) \ Blocks!ToSet(l[w].list)) \cup Blocks!ToSet(x.list)
  <2>1. /\ \A v \in Pair : v # w => Disjoint(x.list, l[v].list)
        /\ \A q \in SharedLists(g, f) : Disjoint(x.list, q)
    BY <1>2 DEF BlocksInv, EachOnce
  <2>2. Lengths(l, g, f) /\ EachOnce(l, g, f)
    BY DEF BlocksInv
  <2>3. x.sz = Len(x.list) /\ Single(x.list)
    BY <1>1, <1>2
  <2>4. Fits(l, g, f, w, x)
    BY <1>1, <1>2, <2>1, <2>2, <2>3 DEF Fits
  <2>5. Replaced(l, g, f, w, x, m)
    BY <2>4, ListReplaced
  <2> HIDE DEF m, r
  <2> QED BY <2>5 DEF Replaced
<1> HIDE DEF m
<1>4. BlockTypes(m, g, f, u, b)
  BY <1>3 DEF BlocksInv, BlockTypes
<1>5. Middle(m)
  <2>1. m[w].sz = ListLength + 1 /\ ListLength \in Nat
    BY <1>2, <1>3, BlocksOK
  <2> QED BY <1>3, <2>1 DEF BlocksInv, Middle
<1>6. FreeBlocks(m, g, f) = FreeBlocks(l, g, f)
  <2>1. Blocks!ToSet(r.list) \subseteq FreeBlocks(l, g, f)
    BY DEF FreeBlocks
  <2> QED BY <1>2, <1>3, <2>1
<1>7. LocalBlocks(m) = LocalBlocks(l)
  <2>1. LocalBlocks(l) \in Int /\ LocalBlocks(m) = LocalBlocks(l) - r.sz + x.sz
    BY <1>1, <1>2, LocalChanges, Zenon DEF m
  <2> QED BY <1>1, <1>2, <2>1 DEF LocalList
<1>8. AllThere(m, g, f, u, b)
  BY <1>6, <1>7 DEF BlocksInv, AllThere
<1> QED BY <1>3, <1>4, <1>5, <1>8 DEF BlocksInv, m, x

(* The shared lists, and those on their way.                               *)
LEMMA ListShared ==
  ASSUME NEW l, NEW g \in Seq(Seq(Nat)), NEW f, NEW q \in Seq(Nat),
         Lengths(l, g, f), EachOnce(l, g, f), q \notin SharedLists(g, f),
         Len(q) = ListLength, Single(q),
         \A w \in Pair : Disjoint(l[w].list, q), \A p \in SharedLists(g, f) : Disjoint(p, q)
  PROVE  /\ <<q>> \o g \in Seq(Seq(Nat)) /\ Len(<<q>> \o g) = Len(g) + 1
         /\ SharedLists(<<q>> \o g, f) = SharedLists(g, f) \cup {q}
         /\ Lengths(l, <<q>> \o g, f) /\ EachOnce(l, <<q>> \o g, f)
<1> DEFINE h == <<q>> \o g
<1>1. Single(g) /\ q \notin Blocks!ToSet(g)
  BY DEF EachOnce, SharedLists
<1>2. h \in Seq(Seq(Nat)) /\ Single(h) /\ Len(h) = Len(g) + 1 /\ Blocks!ToSet(h) = Blocks!ToSet(g) \cup {q}
  BY <1>1, ConsOf
<1> HIDE DEF h
<1>3. SharedLists(h, f) = SharedLists(g, f) \cup {q}
  BY <1>2 DEF SharedLists
<1>4. Lengths(l, h, f)
  BY <1>3 DEF Lengths
<1>5. \A p \in f : p \notin Blocks!ToSet(h)
  BY <1>2 DEF EachOnce, SharedLists
<1>6. \A p, r \in SharedLists(h, f) : p # r => Disjoint(p, r)
  BY <1>3 DEF EachOnce, Disjoint
<1>7. EachOnce(l, h, f)
  BY <1>2, <1>3, <1>5, <1>6 DEF EachOnce
<1> QED BY <1>2, <1>3, <1>4, <1>7 DEF h

LEMMA ListFetched ==
  ASSUME NEW l, NEW g, NEW f, NEW u, NEW b, BlocksInv(l, g, f, u, b), g # << >>
  PROVE  BlocksInv(l, Tail(g), f \cup {Head(g)}, u, b)
<1> DEFINE q == Head(g)
           h == Tail(g)
           fw == f \cup {q}
<1>1. g \in Seq(Seq(Nat)) /\ Single(g) /\ f \in SUBSET Seq(Nat) /\ IsFiniteSet(f)
      /\ \A p \in f : p \notin Blocks!ToSet(g)
  BY DEF BlocksInv, BlockTypes, EachOnce
<1>2. /\ h \in Seq(Seq(Nat)) /\ Single(h) /\ Len(h) = Len(g) - 1 /\ q \in Seq(Nat)
      /\ q \in Blocks!ToSet(g) /\ q \notin Blocks!ToSet(h) /\ Blocks!ToSet(g) = Blocks!ToSet(h) \cup {q}
  BY <1>1, TailOf
<1> HIDE DEF q, h
<1>3. SharedLists(g, f) = SharedLists(h, fw)
  BY <1>2 DEF SharedLists
<1>4. q \notin f /\ \A p \in fw : p \notin Blocks!ToSet(h)
  BY <1>1, <1>2
<1>5. FreeBlocks(l, g, f) = FreeBlocks(l, h, fw) /\ Lengths(l, h, fw) /\ EachOnce(l, h, fw)
  <2>1. Lengths(l, g, f) /\ EachOnce(l, g, f)
    BY DEF BlocksInv
  <2> HIDE DEF fw
  <2>2. FreeBlocks(l, g, f) = FreeBlocks(l, h, fw)
    BY <1>3 DEF FreeBlocks
  <2>3. Lengths(l, h, fw)
    BY <1>3, <2>1 DEF Lengths
  <2>4. EachOnce(l, h, fw)
    BY <1>2, <1>3, <1>4, <2>1 DEF EachOnce
  <2> QED BY <2>2, <2>3, <2>4
<1>6. IsFiniteSet(fw) /\ Cardinality(fw) = Cardinality(f) + 1 /\ Cardinality(f) \in Nat
  BY <1>1, <1>4, FS_AddElement, FS_CardinalityType
<1>7. Len(h) + Cardinality(fw) = Len(g) + Cardinality(f)
  BY <1>1, <1>2, <1>6
<1> HIDE DEF fw
<1>8. AllThere(l, h, fw, u, b)
  BY <1>5, <1>7, Zenon DEF BlocksInv, AllThere
<1>9. BlockTypes(l, h, fw, u, b)
  BY <1>1, <1>2, <1>6 DEF BlocksInv, BlockTypes, fw
<1>10. BlocksInv(l, h, fw, u, b)
  BY <1>5, <1>8, <1>9 DEF BlocksInv
<1> QED BY <1>10 DEF q, h, fw

LEMMA ListReturned ==
  ASSUME NEW l, NEW g, NEW f, NEW u, NEW b, BlocksInv(l, g, f, u, b), NEW q \in f
  PROVE  BlocksInv(l, <<q>> \o g, f \ {q}, u, b)
<1> DEFINE h == <<q>> \o g
           fw == f \ {q}
<1>1. g \in Seq(Seq(Nat)) /\ Single(g) /\ f \in SUBSET Seq(Nat) /\ IsFiniteSet(f)
      /\ (\A p \in f : p \notin Blocks!ToSet(g)) /\ q \in Seq(Nat)
  BY DEF BlocksInv, BlockTypes, EachOnce
<1>2. h \in Seq(Seq(Nat)) /\ Single(h) /\ Len(h) = Len(g) + 1 /\ Blocks!ToSet(h) = Blocks!ToSet(g) \cup {q}
  BY <1>1, ConsOf
<1> HIDE DEF h
<1>3. SharedLists(g, f) = SharedLists(h, fw)
  BY <1>2 DEF SharedLists
<1>4. \A p \in fw : p \notin Blocks!ToSet(h)
  BY <1>1, <1>2
<1>5. FreeBlocks(l, g, f) = FreeBlocks(l, h, fw) /\ Lengths(l, h, fw) /\ EachOnce(l, h, fw)
  <2>1. Lengths(l, g, f) /\ EachOnce(l, g, f)
    BY DEF BlocksInv
  <2> HIDE DEF fw
  <2>2. FreeBlocks(l, g, f) = FreeBlocks(l, h, fw)
    BY <1>3 DEF FreeBlocks
  <2>3. Lengths(l, h, fw)
    BY <1>3, <2>1 DEF Lengths
  <2>4. EachOnce(l, h, fw)
    BY <1>2, <1>3, <1>4, <2>1 DEF EachOnce
  <2> QED BY <2>2, <2>3, <2>4
<1>6. IsFiniteSet(fw) /\ Cardinality(fw) = Cardinality(f) - 1 /\ Cardinality(f) \in Nat
  BY <1>1, FS_RemoveElement, FS_CardinalityType
<1>7. Len(h) + Cardinality(fw) = Len(g) + Cardinality(f)
  BY <1>1, <1>2, <1>6
<1> HIDE DEF fw
<1>8. AllThere(l, h, fw, u, b)
  BY <1>5, <1>7, Zenon DEF BlocksInv, AllThere
<1>9. BlockTypes(l, h, fw, u, b)
  BY <1>1, <1>2, <1>6 DEF BlocksInv, BlockTypes, fw
<1>10. BlocksInv(l, h, fw, u, b)
  BY <1>5, <1>8, <1>9 DEF BlocksInv
<1> QED BY <1>10 DEF h, fw

(* get_list obtains a buffer of new blocks.                                *)
LEMMA ListMade ==
  ASSUME NEW l, NEW g, NEW f, NEW u, NEW b, BlocksInv(l, g, f, u, b)
  PROVE  BlocksInv(l, g, f \cup {Blocks!initialize_list(b)}, u, b + 1)
<1> DEFINE q == Blocks!initialize_list(b)
           fw == f \cup {q}
           new == b * ListLength + 1 .. b * ListLength + ListLength
<1>1. b \in Nat /\ ListLength \in Nat /\ ListLength >= 1 /\ b * ListLength \in Nat
      /\ f \in SUBSET Seq(Nat) /\ IsFiniteSet(f) /\ g \in Seq(Seq(Nat))
  BY BlocksOK DEF BlocksInv, BlockTypes
<1> DEFINE base == b * ListLength
<1>2. (b + 1) * ListLength = base + ListLength
  BY <1>1
<1> HIDE DEF base
<1>3. base \in Nat
  BY <1>1 DEF base
<1>4. q = [i \in 1 .. ListLength |-> base + i]
  BY DEF Blocks!initialize_list, base
<1>5. q \in Seq(Nat) /\ Len(q) = ListLength /\ Single(q)
  BY <1>1, <1>3, <1>4 DEF Single
<1>6. Blocks!ToSet(q) = base + 1 .. base + ListLength
  <2>1. DOMAIN q = 1 .. ListLength /\ \A i \in 1 .. ListLength : q[i] = base + i
    BY <1>4
  <2>2. ASSUME NEW d \in base + 1 .. base + ListLength PROVE \E i \in 1 .. ListLength : d = base + i
    <3>1. d - base \in 1 .. ListLength /\ d = base + (d - base)
      BY <1>1, <1>3
    <3> QED BY <3>1
  <2>3. \A i \in 1 .. ListLength : base + i \in base + 1 .. base + ListLength
    BY <1>1, <1>3
  <2> HIDE DEF q
  <2> QED BY <2>1, <2>2, <2>3 DEF Blocks!ToSet
<1> HIDE DEF q
<1> DEFINE old == FreeBlocks(l, g, f)
<1>7. u \subseteq 1 .. base /\ old \subseteq 1 .. base
  BY DEF BlocksInv, AllThere, base
<1>8. (1 .. base) \cap Blocks!ToSet(q) = {} /\ (1 .. base) \cup Blocks!ToSet(q) = 1 .. base + ListLength
  BY <1>1, <1>3, <1>6
<1>9. (\A w \in Pair : Disjoint(l[w].list, q)) /\ \A p \in SharedLists(g, f) : Disjoint(p, q)
  BY <1>7, <1>8 DEF FreeBlocks, Disjoint
<1>10. q \notin SharedLists(g, f)
  <2>1. base + 1 \in Blocks!ToSet(q)
    BY <1>1, <1>3, <1>6
  <2> QED BY <1>9, <2>1 DEF Disjoint
<1>11. SharedLists(g, fw) = SharedLists(g, f) \cup {q}
  BY DEF SharedLists
<1>12. Lengths(l, g, fw)
  BY <1>5, <1>11, Zenon DEF BlocksInv, Lengths
<1>13. EachOnce(l, g, fw)
  <2>1. \A p \in fw : p \notin Blocks!ToSet(g)
    BY <1>10 DEF BlocksInv, EachOnce, SharedLists
  <2>2. \A p, r \in SharedLists(g, fw) : p # r => Disjoint(p, r)
    BY <1>9, <1>11 DEF BlocksInv, EachOnce, Disjoint
  <2> HIDE DEF fw
  <2> QED BY <1>5, <1>9, <1>11, <2>1, <2>2, Zenon DEF BlocksInv, EachOnce
<1>14. q \notin f
  BY <1>10 DEF SharedLists
<1>15. IsFiniteSet(fw) /\ Cardinality(fw) = Cardinality(f) + 1
  BY <1>1, <1>14, FS_AddElement
<1>16. FreeBlocks(l, g, fw) = old \cup Blocks!ToSet(q)
  BY <1>11, Zenon DEF FreeBlocks
<1>17. Cardinality(FreeBlocks(l, g, fw)) = Cardinality(old) + ListLength
  <2>1. IsFiniteSet(Blocks!ToSet(q)) /\ Cardinality(Blocks!ToSet(q)) = ListLength
    BY <1>1, <1>3, <1>6, FS_Interval
  <2>2. IsFiniteSet(old) /\ Cardinality(old) \in Nat
    BY FreeFinite
  <2>3. old \cap Blocks!ToSet(q) = {}
    BY <1>7, <1>8
  <2> HIDE DEF old
  <2>4. Cardinality(old \cup Blocks!ToSet(q)) = Cardinality(old) + Cardinality(Blocks!ToSet(q)) - Cardinality({})
    BY <2>1, <2>2, <2>3, FS_Union
  <2>5. Cardinality({}) = 0
    BY FS_EmptySet
  <2>6. Cardinality(old \cup Blocks!ToSet(q)) = Cardinality(old) + ListLength
    BY <1>1, <2>1, <2>2, <2>4, <2>5
  <2> HIDE DEF fw
  <2> QED BY <1>16, <2>6
<1>18. AllThere(l, g, fw, u, b + 1)
  <2>1. u \cap FreeBlocks(l, g, fw) = {} /\ u \cup FreeBlocks(l, g, fw) = 1 .. (b + 1) * ListLength
    <3>1. u \cap old = {} /\ u \cup old = 1 .. base
      BY DEF BlocksInv, AllThere, base
    <3>2. u \cap Blocks!ToSet(q) = {}
      BY <1>7, <1>8
    <3> HIDE DEF old, fw
    <3> QED BY <1>2, <1>8, <1>16, <3>1, <3>2
  <2>2. /\ Cardinality(f) \in Nat /\ Len(g) \in Nat
        /\ Cardinality(old) = ListLength * (Len(g) + Cardinality(f)) + LocalBlocks(l)
    BY FreeFinite DEF BlocksInv, AllThere
  <2>3. ListLength * (Len(g) + Cardinality(fw)) = ListLength * (Len(g) + Cardinality(f)) + ListLength
    <3>1. Len(g) + Cardinality(fw) = (Len(g) + Cardinality(f)) + 1 /\ Len(g) + Cardinality(f) \in Nat
      BY <1>15, <2>2
    <3> QED BY <1>1, <3>1
  <2>4. ListLength * (Len(g) + Cardinality(f)) \in Nat /\ LocalBlocks(l) \in Int
    <3>1. ListLength * (Len(g) + Cardinality(f)) \in Nat /\ Cardinality(old) \in Nat
      BY FreeFinite
    <3>2. LocalBlocks(l) \in Int
      BY LocalSum DEF BlocksInv, BlockTypes
    <3> QED BY <3>1, <3>2
  <2>5. Cardinality(FreeBlocks(l, g, fw)) = ListLength * (Len(g) + Cardinality(fw)) + LocalBlocks(l)
    <3> HIDE DEF old, fw
    <3> QED BY <1>1, <1>17, <2>2, <2>3, <2>4
  <2> QED BY <2>1, <2>5, Zenon DEF AllThere
<1>19. BlockTypes(l, g, fw, u, b + 1)
  BY <1>1, <1>5, <1>15 DEF BlocksInv, BlockTypes
<1> HIDE DEF fw
<1>20. BlocksInv(l, g, fw, u, b + 1)
  BY <1>12, <1>13, <1>18, <1>19 DEF BlocksInv
<1> QED BY <1>20 DEF fw, q

(* alloc makes a list that was on its way its worker's.                    *)
LEMMA ListPlaced ==
  ASSUME NEW l, NEW g, NEW f, NEW u, NEW b, BlocksInv(l, g, f, u, b), NEW w \in Pair, NEW q \in f,
         l[w].sz = 0
  PROVE  BlocksInv([l EXCEPT ![w] = [l[w] EXCEPT !.list = q, !.sz = ListLength]], g, f \ {q}, u, b)
<1> DEFINE r == l[w]
           x == [r EXCEPT !.list = q, !.sz = ListLength]
           fw == f \ {q}
           m == [l EXCEPT ![w] = x]
<1>1. /\ l \in [Pair -> LocalList] /\ r \in LocalList /\ r.sz = Len(r.list) /\ r.list \in Seq(Nat)
      /\ f \in SUBSET Seq(Nat) /\ IsFiniteSet(f) /\ q \in Seq(Nat) /\ Len(q) = ListLength /\ Single(q)
      /\ ListLength \in Nat /\ ListLength >= 1
  BY BlocksOK DEF BlocksInv, BlockTypes, Lengths, EachOnce, LocalList, SharedLists
<1>2. x \in LocalList /\ x.sz = ListLength /\ x.list = q
  <2> HIDE DEF r
  <2> QED BY <1>1, Zenon DEF LocalList
<1> HIDE DEF x
<1>3. Blocks!ToSet(r.list) = {}
  <2>1. DOMAIN r.list = {}
    <3> HIDE DEF r
    <3> QED BY <1>1 DEF r
  <2> QED BY <2>1 DEF Blocks!ToSet
<1>4. q \in SharedLists(g, f) /\ SharedLists(g, fw) = SharedLists(g, f) \ {q} /\ q \notin Blocks!ToSet(g)
  BY DEF SharedLists, BlocksInv, EachOnce
<1>5. Lengths(l, g, fw) /\ EachOnce(l, g, fw)
  BY <1>4, Zenon DEF BlocksInv, Lengths, EachOnce
<1>6. Replaced(l, g, fw, w, x, m)
  <2>1. \A v \in Pair : v # w => Disjoint(x.list, l[v].list)
    BY <1>2, <1>4 DEF BlocksInv, EachOnce, Disjoint
  <2>2. \A p \in SharedLists(g, fw) : Disjoint(x.list, p)
    BY <1>2, <1>4 DEF BlocksInv, EachOnce
  <2>3. Fits(l, g, fw, w, x)
    BY <1>1, <1>2, <1>5, <2>1, <2>2, Zenon DEF Fits
  <2> QED BY <2>3, ListReplaced
<1> HIDE DEF m
<1>7. FreeBlocks(m, g, fw) = FreeBlocks(l, g, f)
  <2>1. FreeBlocks(m, g, fw) = (FreeBlocks(l, g, fw) \ Blocks!ToSet(r.list)) \cup Blocks!ToSet(x.list)
    BY <1>6 DEF Replaced
  <2>2. FreeBlocks(l, g, f) = FreeBlocks(l, g, fw) \cup Blocks!ToSet(q)
    BY <1>4, Zenon DEF FreeBlocks
  <2> QED BY <1>2, <1>3, <2>1, <2>2, Zenon
<1>8. Middle(m)
  BY <1>1, <1>2, <1>6 DEF Replaced, BlocksInv, Middle
<1>9. IsFiniteSet(fw) /\ Cardinality(fw) = Cardinality(f) - 1
  BY <1>1, FS_RemoveElement
<1>10. AllThere(m, g, fw, u, b)
  <2>1. LocalBlocks(l) \in Int /\ LocalBlocks(m) = LocalBlocks(l) - r.sz + x.sz
    BY <1>1, <1>2, LocalChanges, Zenon DEF m
  <2>2. LocalBlocks(m) = LocalBlocks(l) + ListLength
    BY <1>1, <1>2, <2>1 DEF LocalList
  <2>3. /\ Cardinality(f) \in Nat /\ Len(g) \in Nat /\ ListLength * (Len(g) + Cardinality(f)) \in Nat
        /\ Cardinality(FreeBlocks(l, g, f)) = ListLength * (Len(g) + Cardinality(f)) + LocalBlocks(l)
    BY FreeFinite DEF BlocksInv, AllThere
  <2>4. ListLength * (Len(g) + Cardinality(f)) = ListLength * (Len(g) + Cardinality(fw)) + ListLength
    <3>1. Cardinality(fw) \in Nat
      BY <1>9, FS_CardinalityType
    <3>2. Len(g) + Cardinality(f) = (Len(g) + Cardinality(fw)) + 1 /\ Len(g) + Cardinality(fw) \in Nat
      BY <1>9, <2>3, <3>1
    <3> HIDE DEF fw
    <3> QED BY <1>1, <3>2
  <2>5. ListLength * (Len(g) + Cardinality(fw)) \in Int
    <3>1. Cardinality(fw) \in Nat
      BY <1>9, FS_CardinalityType
    <3> QED BY <1>1, <2>3, <3>1
  <2>6. Cardinality(FreeBlocks(m, g, fw)) = ListLength * (Len(g) + Cardinality(fw)) + LocalBlocks(m)
    <3>1. ListLength * (Len(g) + Cardinality(f)) \in Int /\ ListLength \in Int /\ LocalBlocks(m) \in Int
      BY <1>1, <2>1, <2>2, <2>3
    <3>2. Cardinality(FreeBlocks(l, g, f)) \in Int
      BY <2>1, <2>3, <3>1
    <3> HIDE DEF fw, m
    <3>3. PICK G, Q \in Int : G = ListLength * (Len(g) + Cardinality(f)) /\ Q = ListLength * (Len(g) + Cardinality(fw))
      BY <2>5, <3>1
    <3>4. G = Q + ListLength /\ Cardinality(FreeBlocks(l, g, f)) = G + LocalBlocks(l)
      BY <2>3, <2>4, <3>3, Zenon
    <3>5. Cardinality(FreeBlocks(l, g, f)) = Q + LocalBlocks(m)
      BY <2>1, <2>2, <3>1, <3>4
    <3> QED BY <1>7, <3>3, <3>5, Zenon
  <2> QED BY <1>7, <2>6, Zenon DEF BlocksInv, AllThere
<1>11. BlockTypes(m, g, fw, u, b)
  BY <1>6, <1>9, Zenon DEF BlocksInv, BlockTypes, Replaced
<1> HIDE DEF fw
<1>12. BlocksInv(m, g, fw, u, b)
  BY <1>6, <1>8, <1>10, <1>11 DEF BlocksInv, Replaced
<1> QED BY <1>12 DEF m, x, fw

(* free gives up the blocks after the middle.                              *)
LEMMA ListSpilled ==
  ASSUME NEW l, NEW g, NEW f, NEW u, NEW b, BlocksInv(l, g, f, u, b), NEW w \in Pair,
         l[w].sz = 2 * ListLength, l[w].sz # ListLength + 1
  PROVE  BlocksInv([l EXCEPT ![w] = [l[w] EXCEPT !.sz = ListLength, !.list = Blocks!UpToMid(l[w])]],
                   <<Blocks!Spilled(l[w])>> \o g, f, u, b)
<1> DEFINE r == l[w]
           q == Blocks!Spilled(r)
           p == Blocks!UpToMid(r)
           x == [r EXCEPT !.sz = ListLength, !.list = p]
           m == [l EXCEPT ![w] = x]
           h == <<q>> \o g
<1>1. /\ l \in [Pair -> LocalList] /\ r \in LocalList /\ r.sz = Len(r.list) /\ r.list \in Seq(Nat)
      /\ Single(r.list) /\ Lengths(l, g, f) /\ EachOnce(l, g, f) /\ g \in Seq(Seq(Nat))
      /\ ListLength \in Nat /\ ListLength >= 2 /\ r.sz = 2 * ListLength
  BY BlocksOK DEF BlocksInv, BlockTypes, Lengths, EachOnce, LocalList
<1>2. Blocks!AfterMid(r) = ListLength + 1
  <2>1. r.list[ListLength] = r.mid
    <3>1. r.sz >= ListLength + 2 /\ r.sz - ListLength = ListLength
      BY <1>1
    <3> QED BY <3>1 DEF BlocksInv, Middle
  <2>2. ListLength \in 1 .. Len(r.list)
    BY <1>1
  <2> HIDE DEF r
  <2>3. \A i \in 1 .. Len(r.list) : r.list[i] = r.mid => i = ListLength
    BY <1>1, <2>1, <2>2 DEF Single
  <2>4. {i \in 1 .. Len(r.list) : r.list[i] = r.mid} = {ListLength}
    BY <2>1, <2>2, <2>3
  <2>5. (CHOOSE i \in {ListLength} : \A k \in {ListLength} : i =< k) = ListLength
    BY <1>1
  <2>6. Blocks!SelectInSeq(r.list, LAMBDA c : c = r.mid) = ListLength
    BY <2>4, <2>5, Zenon DEF Blocks!SelectInSeq, Blocks!Min
  <2> QED BY <1>1, <2>6 DEF Blocks!AfterMid
<1>3. /\ p \in Seq(Nat) /\ q \in Seq(Nat) /\ Single(p) /\ Single(q)
      /\ Len(p) = ListLength /\ Len(q) = ListLength
      /\ Disjoint(p, q) /\ Blocks!ToSet(r.list) = Blocks!ToSet(p) \cup Blocks!ToSet(q)
  <2>1. ListLength + 1 - 1 = ListLength /\ ListLength \in 0 .. Len(r.list) /\ Len(r.list) - ListLength = ListLength
    BY <1>1
  <2>2. p = SubSeq(r.list, 1, ListLength) /\ q = SubSeq(r.list, ListLength + 1, Len(r.list))
    <3>1. p = SubSeq(r.list, 1, Blocks!AfterMid(r) - 1) /\ q = SubSeq(r.list, Blocks!AfterMid(r), Len(r.list))
      BY Zenon DEF Blocks!UpToMid, Blocks!Spilled
    <3>2. Blocks!AfterMid(r) - 1 = ListLength
      <4> HIDE DEF r
      <4> QED BY <1>2, <2>1
    <3> HIDE DEF r, p, q
    <3> QED BY <1>2, <3>1, <3>2, Zenon
  <2> HIDE DEF r, p, q
  <2>3. Parts(Nat, r.list, p, q) /\ Len(p) = ListLength /\ Len(q) = Len(r.list) - ListLength
    BY <1>1, <2>1, <2>2, CutOf, Zenon
  <2> QED BY <2>1, <2>3 DEF Parts
<1> HIDE DEF p, q
<1>4. x \in LocalList /\ x.sz = ListLength /\ x.list = p
  <2> HIDE DEF r
  <2> QED BY <1>1, <1>3, Zenon DEF LocalList
<1> HIDE DEF x
<1>5. Replaced(l, g, f, w, x, m)
  <2>1. \A v \in Pair : v # w => Disjoint(x.list, l[v].list)
    BY <1>3, <1>4, Zenon DEF BlocksInv, EachOnce, Disjoint
  <2>2. \A s \in SharedLists(g, f) : Disjoint(x.list, s)
    BY <1>3, <1>4 DEF BlocksInv, EachOnce, Disjoint
  <2>3. Fits(l, g, f, w, x)
    BY <1>1, <1>3, <1>4, <2>1, <2>2 DEF Fits
  <2> QED BY <2>3, ListReplaced
<1> HIDE DEF m
<1>6. /\ \A v \in Pair : Disjoint(m[v].list, q)
      /\ \A s \in SharedLists(g, f) : Disjoint(s, q)
  <2>1. ASSUME NEW v \in Pair PROVE Disjoint(m[v].list, q)
    <3>1. CASE v = w
      BY <1>3, <1>4, <1>5, <3>1 DEF Replaced
    <3>2. CASE v # w
      BY <1>3, <1>5, <3>2, Zenon DEF Replaced, BlocksInv, EachOnce, Disjoint
    <3> QED BY <3>1, <3>2
  <2>2. \A s \in SharedLists(g, f) : Disjoint(s, q)
    BY <1>3 DEF BlocksInv, EachOnce, Disjoint
  <2> QED BY <2>1, <2>2
<1>7. q \notin SharedLists(g, f)
  <2>1. q[1] \in Blocks!ToSet(q)
    <3>1. 1 \in DOMAIN q
      BY <1>1, <1>3
    <3> QED BY <3>1 DEF Blocks!ToSet
  <2> QED BY <1>6, <2>1 DEF Disjoint
<1>8. /\ h \in Seq(Seq(Nat)) /\ Len(h) = Len(g) + 1
      /\ SharedLists(h, f) = SharedLists(g, f) \cup {q}
      /\ Lengths(m, h, f) /\ EachOnce(m, h, f)
  <2>1. Lengths(m, g, f) /\ EachOnce(m, g, f)
    BY <1>5 DEF Replaced
  <2> QED BY <1>1, <1>3, <1>6, <1>7, <2>1, ListShared, Zenon
<1> HIDE DEF h
<1>9. FreeBlocks(m, h, f) = FreeBlocks(l, g, f)
  <2>1. FreeBlocks(m, g, f) = (FreeBlocks(l, g, f) \ Blocks!ToSet(r.list)) \cup Blocks!ToSet(x.list)
    BY <1>5 DEF Replaced
  <2>2. FreeBlocks(m, h, f) = FreeBlocks(m, g, f) \cup Blocks!ToSet(q)
    BY <1>8 DEF FreeBlocks
  <2>3. Blocks!ToSet(r.list) \subseteq FreeBlocks(l, g, f)
    BY DEF FreeBlocks
  <2> QED BY <1>3, <1>4, <2>1, <2>2, <2>3
<1>10. Middle(m)
  BY <1>1, <1>4, <1>5 DEF Replaced, BlocksInv, Middle
<1>11. AllThere(m, h, f, u, b)
  <2>1. LocalBlocks(l) \in Int /\ LocalBlocks(m) = LocalBlocks(l) - r.sz + x.sz
    BY <1>1, <1>4, LocalChanges, Zenon DEF m
  <2>2. LocalBlocks(m) = LocalBlocks(l) - ListLength
    BY <1>1, <1>4, <2>1
  <2>3. /\ Cardinality(f) \in Nat /\ Len(g) \in Nat /\ ListLength * (Len(g) + Cardinality(f)) \in Nat
        /\ Cardinality(FreeBlocks(l, g, f)) = ListLength * (Len(g) + Cardinality(f)) + LocalBlocks(l)
    BY FreeFinite DEF BlocksInv, AllThere
  <2>4. ListLength * (Len(h) + Cardinality(f)) = ListLength * (Len(g) + Cardinality(f)) + ListLength
    <3>1. Len(h) + Cardinality(f) = (Len(g) + Cardinality(f)) + 1 /\ Len(g) + Cardinality(f) \in Nat
      BY <1>8, <2>3
    <3> QED BY <1>1, <3>1
  <2>5. Cardinality(FreeBlocks(m, h, f)) = ListLength * (Len(h) + Cardinality(f)) + LocalBlocks(m)
    BY <1>1, <1>9, <2>1, <2>2, <2>3, <2>4
  <2> QED BY <1>9, <2>5 DEF BlocksInv, AllThere
<1>12. BlockTypes(m, h, f, u, b)
  BY <1>5, <1>8 DEF BlocksInv, BlockTypes, Replaced
<1>13. BlocksInv(m, h, f, u, b)
  BY <1>8, <1>10, <1>11, <1>12 DEF BlocksInv
<1> QED BY <1>13 DEF m, x, h, p, q

LEMMA TwiceReplaced ==
  ASSUME NEW l \in [Pair -> LocalList], NEW w \in Pair, NEW x, NEW y
  PROVE  [[l EXCEPT ![w] = x] EXCEPT ![w] = y] = [l EXCEPT ![w] = y] /\ [l EXCEPT ![w] = x][w] = x
BY Zenon

(* Every block is used, or free.                                           *)
LEMMA AllCounted ==
  ASSUME NEW l, NEW g, NEW f, NEW u, NEW b, BlocksInv(l, g, f, u, b)
  PROVE  /\ Cardinality(u) \in Nat
         /\ b * ListLength = Cardinality(u) + ListLength * (Len(g) + Cardinality(f)) + LocalBlocks(l)
<1> DEFINE S == FreeBlocks(l, g, f)
           N == b * ListLength
<1>1. /\ IsFiniteSet(u) /\ IsFiniteSet(S) /\ u \cap S = {} /\ u \cup S = 1 .. N
      /\ Cardinality(S) = ListLength * (Len(g) + Cardinality(f)) + LocalBlocks(l)
      /\ ListLength * (Len(g) + Cardinality(f)) \in Nat
  BY FreeFinite DEF BlocksInv, AllThere
<1>2. N \in Nat
  BY BlocksOK DEF BlocksInv, BlockTypes
<1>3. LocalBlocks(l) \in Int
  BY LocalSum DEF BlocksInv, BlockTypes
<1> HIDE DEF S, N
<1>4. Cardinality(u \cup S) = Cardinality(u) + Cardinality(S) - Cardinality(u \cap S)
  BY <1>1, FS_Union
<1>5. Cardinality(u \cap S) = 0
  BY <1>1, FS_EmptySet, Zenon
<1>6. Cardinality(u \cup S) = N
  <2>1. Cardinality(1 .. N) = N
    BY <1>2, FS_Interval
  <2> QED BY <1>1, <2>1, Zenon
<1>7. Cardinality(u) \in Nat /\ Cardinality(S) \in Nat
  BY <1>1, FS_CardinalityType
<1>8. N = Cardinality(u) + Cardinality(S)
  BY <1>4, <1>5, <1>6, <1>7
<1> QED BY <1>1, <1>3, <1>7, <1>8 DEF N

BlocksWhole == BlocksInv(local, global, fetching, used, buffers)

LEMMA AllocSteps ==
  ASSUME BlocksWhole, NEW w \in Pair, Blocks!AllocLocal(w) \/ Blocks!GetList(w) \/ Blocks!AllocFetched(w)
  PROVE  BlocksWhole'
<1>0. local \in [Pair -> LocalList]
  BY DEF BlocksWhole, BlocksInv, BlockTypes
<1>1. CASE Blocks!AllocLocal(w)
  <2>1. BlocksInv([local EXCEPT ![w] = [local[w] EXCEPT !.sz = @ - 1, !.list = Tail(@)]],
                  global, fetching, used \cup {Head(local[w].list)}, buffers)
    BY <1>1, BlockTaken, Zenon DEF BlocksWhole, Blocks!AllocLocal
  <2> QED BY <1>1, <2>1, Zenon DEF Blocks!AllocLocal, Blocks!Take, BlocksWhole
<1>2. CASE Blocks!GetList(w)
  <2>1. CASE global # << >>
    <3>1. BlocksInv(local, Tail(global), fetching \cup {Head(global)}, used, buffers)
      BY <2>1, ListFetched DEF BlocksWhole
    <3> QED BY <1>2, <2>1, <3>1, Zenon DEF Blocks!GetList, BlocksWhole
  <2>2. CASE global = << >>
    <3>1. BlocksInv(local, global, fetching \cup {Blocks!initialize_list(buffers)}, used, buffers + 1)
      BY ListMade DEF BlocksWhole
    <3> QED BY <1>2, <2>2, <3>1, Zenon DEF Blocks!GetList, BlocksWhole
  <2> QED BY <2>1, <2>2
<1>3. CASE Blocks!AllocFetched(w)
  <2>1. PICK q \in fetching :
          /\ fetching' = fetching \ {q} /\ buffers' = buffers
          /\ IF local[w].sz = 0
             THEN /\ Blocks!Take(w, [local[w] EXCEPT !.list = q, !.sz = ListLength])
                  /\ global' = global
             ELSE Blocks!Take(w, local[w]) /\ global' = <<q>> \o global
    BY <1>3, Zenon DEF Blocks!AllocFetched
  <2>2. CASE local[w].sz = 0
    <3> DEFINE x == [local[w] EXCEPT !.list = q, !.sz = ListLength]
               l == [local EXCEPT ![w] = x]
    <3>1. BlocksInv(l, global, fetching \ {q}, used, buffers)
      BY <2>2, ListPlaced, Zenon DEF BlocksWhole
    <3>2. l[w] = x
      BY <1>0
    <3>3. x.sz = ListLength /\ ListLength # 0
      <4>1. local[w] \in LocalList
        BY <1>0
      <4> QED BY <4>1, BlocksOK DEF LocalList
    <3> HIDE DEF x
    <3>4. [l EXCEPT ![w] = [l[w] EXCEPT !.sz = @ - 1, !.list = Tail(@)]]
            = [local EXCEPT ![w] = [x EXCEPT !.sz = @ - 1, !.list = Tail(@)]]
      BY <1>0, <3>2, TwiceReplaced, Zenon
    <3> HIDE DEF l
    <3>5. BlocksInv([l EXCEPT ![w] = [l[w] EXCEPT !.sz = @ - 1, !.list = Tail(@)]],
                    global, fetching \ {q}, used \cup {Head(l[w].list)}, buffers)
      BY <3>1, <3>2, <3>3, BlockTaken, Zenon
    <3>6. Blocks!Take(w, x) /\ global' = global
      BY <2>1, <2>2 DEF x
    <3>7. /\ local' = [local EXCEPT ![w] = [x EXCEPT !.sz = @ - 1, !.list = Tail(@)]]
          /\ used' = used \cup {Head(x.list)}
      BY <3>6 DEF Blocks!Take
    <3> QED BY <2>1, <3>2, <3>4, <3>5, <3>6, <3>7, Zenon DEF BlocksWhole
  <2>3. CASE local[w].sz # 0
    <3>1. BlocksInv(local, <<q>> \o global, fetching \ {q}, used, buffers)
      BY ListReturned DEF BlocksWhole
    <3>2. BlocksInv([local EXCEPT ![w] = [local[w] EXCEPT !.sz = @ - 1, !.list = Tail(@)]],
                    <<q>> \o global, fetching \ {q}, used \cup {Head(local[w].list)}, buffers)
      BY <2>3, <3>1, BlockTaken, Zenon
    <3>3. /\ local' = [local EXCEPT ![w] = [local[w] EXCEPT !.sz = @ - 1, !.list = Tail(@)]]
          /\ used' = used \cup {Head(local[w].list)} /\ global' = <<q>> \o global
      BY <2>1, <2>3 DEF Blocks!Take
    <3> QED BY <2>1, <3>2, <3>3, Zenon DEF BlocksWhole
  <2> QED BY <2>2, <2>3
<1> QED BY <1>1, <1>2, <1>3

LEMMA FreeStep ==
  ASSUME BlocksWhole, NEW w \in Pair, NEW c \in used, Blocks!FreeBlock(w, c)
  PROVE  BlocksWhole'
<1>0. local \in [Pair -> LocalList] /\ local[w] \in LocalList
  BY DEF BlocksWhole, BlocksInv, BlockTypes
<1>1. used' = used \ {c} /\ fetching' = fetching /\ buffers' = buffers
  BY DEF Blocks!FreeBlock
<1>2. CASE Blocks!Mark(local[w])
  <2> DEFINE x == [local[w] EXCEPT !.mid = Head(local[w].list)]
             l == [local EXCEPT ![w] = x]
  <2>1. local' = [local EXCEPT ![w] = Blocks!Put(x, c)] /\ global' = global
    BY <1>2 DEF Blocks!FreeBlock, Blocks!Spill
  <2>2. BlocksInv(l, global, fetching, used, buffers)
    BY <1>2, MiddleMarked DEF BlocksWhole, Blocks!Mark
  <2>3. l[w] = x
    BY <1>0
  <2>4. x.mid = Head(x.list)
    BY <1>0 DEF LocalList
  <2> HIDE DEF x
  <2>5. [l EXCEPT ![w] = Blocks!Put(l[w], c)] = [local EXCEPT ![w] = Blocks!Put(x, c)]
    BY <1>0, <2>3, TwiceReplaced, Zenon
  <2> HIDE DEF l
  <2>6. BlocksInv([l EXCEPT ![w] = Blocks!Put(l[w], c)], global, fetching, used \ {c}, buffers)
    BY <2>2, <2>3, <2>4, BlockPut
  <2> QED BY <1>1, <2>1, <2>5, <2>6, Zenon DEF BlocksWhole
<1>3. CASE Blocks!Spill(local[w])
  <2> DEFINE x == [local[w] EXCEPT !.sz = ListLength, !.list = Blocks!UpToMid(local[w])]
             l == [local EXCEPT ![w] = x]
             g == <<Blocks!Spilled(local[w])>> \o global
  <2>1. local' = [local EXCEPT ![w] = Blocks!Put(x, c)] /\ global' = g
    BY <1>3 DEF Blocks!FreeBlock, Blocks!Spill
  <2>2. BlocksInv(l, g, fetching, used, buffers)
    BY <1>3, ListSpilled, Zenon DEF BlocksWhole, Blocks!Mark, Blocks!Spill
  <2>3. l[w] = x
    BY <1>0
  <2>4. x.sz # ListLength + 1
    <3>1. x.sz = ListLength
      BY <1>0 DEF LocalList
    <3> QED BY <3>1, BlocksOK
  <2> HIDE DEF x, g
  <2>5. [l EXCEPT ![w] = Blocks!Put(l[w], c)] = [local EXCEPT ![w] = Blocks!Put(x, c)]
    BY <1>0, <2>3, TwiceReplaced, Zenon
  <2> HIDE DEF l
  <2>6. BlocksInv([l EXCEPT ![w] = Blocks!Put(l[w], c)], g, fetching, used \ {c}, buffers)
    BY <2>2, <2>3, <2>4, BlockPut
  <2> QED BY <1>1, <2>1, <2>5, <2>6, Zenon DEF BlocksWhole
<1>4. CASE ~Blocks!Mark(local[w]) /\ ~Blocks!Spill(local[w])
  <2>1. local' = [local EXCEPT ![w] = Blocks!Put(local[w], c)] /\ global' = global
    BY <1>4 DEF Blocks!FreeBlock
  <2>2. BlocksInv([local EXCEPT ![w] = Blocks!Put(local[w], c)], global, fetching, used \ {c}, buffers)
    BY <1>4, BlockPut DEF BlocksWhole, Blocks!Mark
  <2> QED BY <1>1, <2>1, <2>2, Zenon DEF BlocksWhole
<1> QED BY <1>2, <1>3, <1>4

(* No buffer has been obtained, or all have gone.                          *)
LEMMA NothingYet ==
  ASSUME NEW l \in [Pair -> LocalList], \A w \in Pair : l[w].sz = 0 /\ l[w].list = << >>
  PROVE  BlocksInv(l, << >>, {}, {}, 0)
<1>1. ListLength \in Nat /\ ListLength >= 1
  BY BlocksOK
<1>6. SharedLists(<< >>, {}) = {} /\ Blocks!ToSet(<< >>) = {}
  BY DEF SharedLists, Blocks!ToSet
<1>7. FreeBlocks(l, << >>, {}) = {}
  BY <1>6 DEF FreeBlocks
<1>8. BlockTypes(l, << >>, {}, {}, 0)
  BY FS_EmptySet DEF BlockTypes
<1>9. Lengths(l, << >>, {})
  BY <1>6 DEF Lengths
<1>10. EachOnce(l, << >>, {})
  BY <1>6 DEF EachOnce, Single, Disjoint
<1>11. Middle(l)
  BY <1>1 DEF Middle
<1>12. AllThere(l, << >>, {}, {}, 0)
  <2>1. LocalBlocks(l) = 0
    <3>1. [w \in Pair |-> l[w].sz] = [w \in Pair |-> 0]
      OBVIOUS
    <3>2. Blocks!SumFunction([w \in Pair |-> 0]) = 0
      BY SumOfZeros, BlocksOK
    <3> QED BY <3>1, <3>2 DEF LocalBlocks
  <2>2. Cardinality({}) = 0 /\ Len(<< >>) = 0 /\ 0 * ListLength = 0 /\ ListLength * (0 + 0) = 0 /\ 1 .. 0 = {}
    BY <1>1, FS_EmptySet
  <2>3. Cardinality(FreeBlocks(l, << >>, {})) = ListLength * (Len(<< >>) + Cardinality({})) + LocalBlocks(l)
    <3>1. Cardinality(FreeBlocks(l, << >>, {})) = 0
      BY <1>7, <2>2, Zenon
    <3>2. ListLength * (Len(<< >>) + Cardinality({})) = 0
      BY <2>2, Zenon
    <3>3. 0 + 0 = 0
      OBVIOUS
    <3> QED BY <2>1, <3>1, <3>2, <3>3, Zenon
  <2>4. {} \cap FreeBlocks(l, << >>, {}) = {} /\ {} \cup FreeBlocks(l, << >>, {}) = 1 .. 0 * ListLength
    BY <1>7, <2>2, Zenon
  <2> QED BY <2>3, <2>4 DEF AllThere
<1> QED BY <1>8, <1>9, <1>10, <1>11, <1>12 DEF BlocksInv

(* clear finds every block on a list and none on its way.                  *)
LEMMA ClearStep == ASSUME BlocksWhole, Blocks!Clear PROVE BlocksWhole'
<1> DEFINE l == [w \in Pair |-> [local[w] EXCEPT !.sz = 0, !.list = << >>]]
<1>1. /\ buffers \in Nat /\ global \in Seq(Seq(Nat)) /\ used \in SUBSET Nat /\ IsFiniteSet(used)
      /\ local \in [Pair -> LocalList] /\ IsFiniteSet(fetching)
      /\ ListLength \in Nat /\ ListLength >= 1 /\ Cardinality(fetching) \in Nat /\ Len(global) \in Nat
      /\ LocalBlocks(local) \in Int
  BY FreeFinite, LocalSum, Zenon DEF BlocksWhole, BlocksInv, BlockTypes
<1>2. used = {} /\ fetching = {}
  <2>1. /\ Cardinality(used) \in Nat
        /\ buffers * ListLength = Cardinality(used) + ListLength * (Len(global) + Cardinality(fetching))
                                    + LocalBlocks(local)
    BY AllCounted DEF BlocksWhole
  <2>2. buffers * ListLength - Len(global) * ListLength - LocalBlocks(local) = 0
    BY Zenon DEF Blocks!Clear, Blocks!num_used_blocks, LocalBlocks
  <2>3. ListLength * (Len(global) + Cardinality(fetching)) = Len(global) * ListLength + ListLength * Cardinality(fetching)
    BY <1>1
  <2>4. ListLength * Cardinality(fetching) \in Nat /\ buffers * ListLength \in Nat /\ Len(global) * ListLength \in Nat
    BY <1>1
  <2>5. Cardinality(used) + ListLength * Cardinality(fetching) = 0
    <3>1. /\ buffers * ListLength \in Int /\ Cardinality(used) \in Int /\ LocalBlocks(local) \in Int
          /\ Len(global) * ListLength \in Int /\ ListLength * Cardinality(fetching) \in Int
      BY <1>1, <2>1, <2>4
    <3>2. ListLength * (Len(global) + Cardinality(fetching)) \in Int
      BY <2>3, <3>1
    <3>3. PICK N, S, G, F \in Int : /\ N = buffers * ListLength /\ G = Len(global) * ListLength
                                    /\ S = ListLength * (Len(global) + Cardinality(fetching))
                                    /\ F = ListLength * Cardinality(fetching)
      BY <3>1, <3>2
    <3>4. /\ N = Cardinality(used) + S + LocalBlocks(local)
          /\ S = G + F /\ N - G - LocalBlocks(local) = 0
      BY <2>1, <2>2, <2>3, <3>3, Zenon
    <3>5. Cardinality(used) + F = 0
      <4>1. Cardinality(used) \in Int /\ LocalBlocks(local) \in Int
        BY <3>1
      <4> QED BY <3>4, <4>1
    <3> QED BY <3>3, <3>5, Zenon
  <2>6. Cardinality(used) = 0 /\ ListLength * Cardinality(fetching) = 0
    BY <2>1, <2>4, <2>5
  <2>7. Cardinality(fetching) = 0
    BY <1>1, <2>6
  <2> QED BY <1>1, <2>6, <2>7, FS_EmptySet
<1>3. local' = l /\ global' = << >> /\ buffers' = 0 /\ fetching' = {} /\ used' = {}
  BY <1>2, Zenon DEF Blocks!Clear
<1>4. \A w \in Pair : l[w] \in LocalList /\ l[w].sz = 0 /\ l[w].list = << >>
  <2> SUFFICES ASSUME NEW w \in Pair PROVE l[w] \in LocalList /\ l[w].sz = 0 /\ l[w].list = << >>
    BY Zenon
  <2>1. l[w] = Longer(local[w], 0, << >>)
    BY DEF Longer
  <2>2. local[w] \in LocalList /\ 0 \in Nat /\ << >> \in Seq(Nat)
    BY <1>1
  <2> HIDE DEF l
  <2>3. LET y == Longer(local[w], 0, << >>) IN y \in LocalList /\ y.sz = 0 /\ y.list = << >>
    BY <2>2, LongerList, Zenon
  <2> QED BY <2>1, <2>3
<1>5. l \in [Pair -> LocalList]
  BY <1>4, Zenon
<1> HIDE DEF l
<1>6. BlocksInv(l, << >>, {}, {}, 0)
  BY <1>4, <1>5, NothingYet
<1> QED BY <1>3, <1>6, Zenon DEF BlocksWhole

LEMMA BlocksInit == Blocks!Init => BlocksWhole
<1> SUFFICES ASSUME Blocks!Init PROVE BlocksWhole
  OBVIOUS
<1> DEFINE l == [w \in Pair |-> [sz |-> 0, list |-> << >>, mid |-> Blocks!None]]
<1>1. local = l /\ global = << >> /\ buffers = 0 /\ fetching = {} /\ used = {}
  BY DEF Blocks!Init
<1>2. \A w \in Pair : l[w] \in LocalList /\ l[w].sz = 0 /\ l[w].list = << >>
  BY DEF LocalList, Blocks!None
<1>3. l \in [Pair -> LocalList]
  BY <1>2
<1> HIDE DEF l
<1>4. BlocksInv(l, << >>, {}, {}, 0)
  BY <1>2, <1>3, NothingYet
<1> QED BY <1>1, <1>4, Zenon DEF BlocksWhole

LEMMA BlocksStep == BlocksWhole /\ Blocks!Next => BlocksWhole'
<1> SUFFICES ASSUME BlocksWhole, Blocks!Next PROVE BlocksWhole'
  OBVIOUS
<1>1. CASE Blocks!Clear
  BY <1>1, ClearStep
<1>2. CASE \E w \in Pair : Blocks!AllocLocal(w) \/ Blocks!GetList(w) \/ Blocks!AllocFetched(w)
  BY <1>2, AllocSteps
<1>3. CASE \E w \in Pair : \E c \in used : Blocks!FreeBlock(w, c)
  BY <1>3, FreeStep
<1> QED BY <1>1, <1>2, <1>3 DEF Blocks!Next

LEMMA BlocksKept == BlocksWhole => Blocks!BlocksAreKept
<1> SUFFICES ASSUME BlocksWhole PROVE Blocks!BlocksAreKept
  OBVIOUS
<1>0. Blocks!Lists = [w \in Pair |-> local[w].list]
  BY DEF Blocks!Lists
<1>1. \A w \in Pair : local[w].sz = Len(Blocks!Lists[w])
  BY <1>0 DEF BlocksWhole, BlocksInv, Lengths
<1>2. \A q \in Blocks!ToSet(global) \cup fetching : Len(q) = ListLength
  BY DEF BlocksWhole, BlocksInv, Lengths, SharedLists
<1>3. Blocks!Held = FreeBlocks(local, global, fetching)
  <2>1. \A w \in Pair : Blocks!Lists[w] = local[w].list
    BY <1>0
  <2> QED BY <2>1 DEF Blocks!Held, FreeBlocks, SharedLists
<1>4. used \cap Blocks!Held = {} /\ used \cup Blocks!Held = 1 .. buffers * ListLength
  BY <1>3 DEF BlocksWhole, BlocksInv, AllThere
<1>5. Cardinality(Blocks!Held) = ListLength * (Len(global) + Cardinality(fetching))
                                   + Blocks!SumFunction([w \in Pair |-> local[w].sz])
  BY <1>3 DEF BlocksWhole, BlocksInv, AllThere, LocalBlocks
<1>6. Blocks!num_used_blocks = Cardinality(used) + ListLength * Cardinality(fetching)
  <2>1. /\ Cardinality(used) \in Nat
        /\ buffers * ListLength = Cardinality(used) + ListLength * (Len(global) + Cardinality(fetching))
                                    + LocalBlocks(local)
    BY AllCounted DEF BlocksWhole
  <2>2. /\ ListLength \in Nat /\ Cardinality(fetching) \in Nat /\ Len(global) \in Nat /\ buffers \in Nat
        /\ LocalBlocks(local) \in Int
    BY FreeFinite, LocalSum, Zenon DEF BlocksWhole, BlocksInv, BlockTypes
  <2>3. ListLength * (Len(global) + Cardinality(fetching)) = Len(global) * ListLength + ListLength * Cardinality(fetching)
    BY <2>2
  <2>4. ListLength * Cardinality(fetching) \in Nat /\ buffers * ListLength \in Nat /\ Len(global) * ListLength \in Nat
    BY <2>2
  <2>5. Blocks!num_used_blocks = buffers * ListLength - Len(global) * ListLength - LocalBlocks(local)
    BY Zenon DEF Blocks!num_used_blocks, LocalBlocks
  <2>6. /\ buffers * ListLength \in Int /\ Cardinality(used) \in Int /\ LocalBlocks(local) \in Int
        /\ Len(global) * ListLength \in Int /\ ListLength * Cardinality(fetching) \in Int
    BY <2>1, <2>2, <2>4
  <2>7. ListLength * (Len(global) + Cardinality(fetching)) \in Int
    BY <2>3, <2>6
  <2>8. PICK N, S, G, F \in Int : /\ N = buffers * ListLength /\ G = Len(global) * ListLength
                                  /\ S = ListLength * (Len(global) + Cardinality(fetching))
                                  /\ F = ListLength * Cardinality(fetching)
    BY <2>6, <2>7
  <2>9. /\ N = Cardinality(used) + S + LocalBlocks(local)
        /\ S = G + F /\ Blocks!num_used_blocks = N - G - LocalBlocks(local)
    BY <2>1, <2>3, <2>5, <2>8, Zenon
  <2>10. Blocks!num_used_blocks = Cardinality(used) + F
    <3>1. Cardinality(used) \in Int /\ LocalBlocks(local) \in Int
      BY <2>6
    <3> QED BY <2>9, <3>1
  <2> QED BY <2>8, <2>10, Zenon
<1>7. \A S : Blocks!Cardinality(S) = Cardinality(S)
  BY DEF Blocks!Cardinality, Cardinality
<1> HIDE DEF Blocks!Cardinality
<1> QED BY <1>1, <1>2, <1>4, <1>5, <1>6, <1>7 DEF Blocks!BlocksAreKept

-----------------------------------------------------------------------------
(* The pool of a size is that of the power of two its header tells: the    *)
(* sizes of the pools are powers of two, so that rounding a size up to one *)
(* crosses none of them.                                                   *)
LEMMA PowerAbove == \A k \in Nat : 2 ^ k >= k
<1> DEFINE T == {k \in Nat : 2 ^ k >= k}
<1>1. 0 \in T
  <2>1. 2 ^ 0 \in Nat
    BY PowerType
  <2> QED BY <2>1
<1>2. ASSUME NEW k \in Nat, k \in T PROVE k + 1 \in T
  <2>1. 2 ^ (k + 1) = 2 * 2 ^ k /\ 2 ^ k \in Nat /\ 2 ^ k >= k /\ 2 ^ k >= 1
    BY <1>2, PowerStep, PowerType, PowerPositive
  <2>2. 2 ^ (k + 1) >= k + 1
    BY <2>1
  <2> QED BY <2>2
<1>3. Nat \subseteq T
  <2> HIDE DEF T
  <2> QED BY <1>1, <1>2, SetInduction
<1> QED BY <1>3

LEMMA PowerOrder == ASSUME NEW k \in Nat, NEW m \in Nat, k <= m PROVE 2 ^ k <= 2 ^ m
<1>1. PICK d \in Nat : m = k + d
  <2>1. m - k \in Nat /\ m = k + (m - k)
    OBVIOUS
  <2> QED BY <2>1
<1> QED BY <1>1, PowerMonotone

LEMMA LeastOf ==
  ASSUME NEW T \in SUBSET Nat, T # {}
  PROVE  Pools!Min(T) \in T /\ \A m \in T : Pools!Min(T) <= m
<1>1. \E i \in T : \A m \in T : i <= m
  BY Least
<1> QED BY <1>1, Zenon DEF Pools!Min

LEMMA LogUp ==
  ASSUME NEW s \in Nat
  PROVE  /\ Pools!log2_up(s) \in Nat /\ s <= 2 ^ Pools!log2_up(s) /\ 2 ^ Pools!log2_up(s) \in Nat
         /\ \A k \in Nat : s <= 2 ^ k => 2 ^ Pools!log2_up(s) <= 2 ^ k
<1> DEFINE T == {k \in 0 .. s : 2 ^ k >= s}
<1>1. T \in SUBSET Nat /\ T # {}
  <2>1. s \in T
    BY PowerAbove
  <2> QED BY <2>1
<1>2. Pools!log2_up(s) = Pools!Min(T)
  BY DEF Pools!log2_up
<1>3. Pools!log2_up(s) \in T /\ \A m \in T : Pools!log2_up(s) <= m
  <2> HIDE DEF T
  <2> QED BY <1>1, <1>2, LeastOf
<1>4. PICK l \in Nat : l = Pools!log2_up(s) /\ l <= s /\ 2 ^ l >= s
  BY <1>3
<1>5. ASSUME NEW k \in Nat, s <= 2 ^ k PROVE 2 ^ l <= 2 ^ k
  <2>1. 2 ^ k \in Nat
    BY PowerType
  <2>2. l <= k
    <3>1. CASE k <= s
      BY <1>3, <1>4, <1>5, <2>1, <3>1
    <3>2. CASE s < k
      BY <1>4, <3>2
    <3> QED BY <3>1, <3>2
  <2> QED BY <2>2, PowerOrder
<1>6. 2 ^ l \in Nat
  BY PowerType
<1> QED BY <1>4, <1>5, <1>6

LEMMA PoolsAre ==
  /\ Len(PoolSizes) \in Nat /\ Len(PoolSizes) >= 1 /\ DOMAIN PoolSizes = 1 .. Len(PoolSizes)
  /\ \A b \in 1 .. Len(PoolSizes) : PoolSizes[b] \in Nat /\ PoolSizes[b] <= Pools!max_size
  /\ Pools!max_size = PoolSizes[Len(PoolSizes)] /\ Pools!max_small \in Nat
  /\ SmallPools \in Nat /\ SmallPools <= Len(PoolSizes) /\ Pools!Large = SmallPools + 1 .. Len(PoolSizes)
  /\ Pools!max_small <= Pools!max_size
  /\ \A b \in 1 .. Len(PoolSizes) : Pools!max_small < PoolSizes[b] => b \in Pools!Large
<1>1. PoolSizes \in Seq(Nat) /\ PoolSizes # << >> /\ SmallPools \in 0 .. Len(PoolSizes)
  BY PoolsOK
<1>2. Len(PoolSizes) \in Nat /\ Len(PoolSizes) >= 1 /\ DOMAIN PoolSizes = 1 .. Len(PoolSizes)
  BY <1>1
<1>3. \A b \in 1 .. Len(PoolSizes) : PoolSizes[b] \in Nat
  BY <1>1
<1>4. \A a, b \in 1 .. Len(PoolSizes) : a < b => PoolSizes[a] < PoolSizes[b]
  BY <1>2, PoolsOK, Zenon
<1>5. Pools!max_size = PoolSizes[Len(PoolSizes)]
  BY DEF Pools!max_size, Pools!Last
<1>6. \A b \in 1 .. Len(PoolSizes) : PoolSizes[b] <= PoolSizes[Len(PoolSizes)]
  BY <1>2, <1>3, <1>4
<1>7. SmallPools \in Nat /\ SmallPools <= Len(PoolSizes) /\ Pools!Large = SmallPools + 1 .. Len(PoolSizes)
  BY <1>1, <1>2 DEF Pools!Large
<1>8. Pools!max_small = IF SmallPools = 0 THEN 0 ELSE PoolSizes[SmallPools]
  BY DEF Pools!max_small
<1>9. Pools!max_small \in Nat /\ Pools!max_small <= PoolSizes[Len(PoolSizes)]
  BY <1>2, <1>3, <1>6, <1>7, <1>8
<1>10. ASSUME NEW b \in 1 .. Len(PoolSizes), Pools!max_small < PoolSizes[b] PROVE b \in Pools!Large
  <2> SUFFICES ASSUME b <= SmallPools PROVE FALSE
    BY <1>2, <1>7
  <2>1. SmallPools \in 1 .. Len(PoolSizes) /\ Pools!max_small = PoolSizes[SmallPools]
    BY <1>7, <1>8
  <2>2. PoolSizes[b] <= PoolSizes[SmallPools]
    BY <1>3, <1>4, <2>1
  <2> QED BY <1>3, <1>10, <2>1, <2>2
<1> QED BY <1>2, <1>3, <1>5, <1>6, <1>7, <1>9, <1>10

LEMMA BucketOf ==
  ASSUME NEW s \in Nat, s <= Pools!max_size
  PROVE  /\ Pools!Bucket(s) \in 1 .. Len(PoolSizes) /\ s <= PoolSizes[Pools!Bucket(s)]
         /\ Pools!max_small < s => Pools!Bucket(s) \in Pools!Large
<1> DEFINE T == {b \in DOMAIN PoolSizes : s <= PoolSizes[b]}
<1>1. T \in SUBSET Nat /\ Len(PoolSizes) \in T
  BY PoolsAre
<1>2. Pools!Bucket(s) = Pools!Min(T)
  BY DEF Pools!Bucket
<1>3. Pools!Bucket(s) \in T
  <2> HIDE DEF T
  <2> QED BY <1>1, <1>2, LeastOf
<1>4. PICK b \in 1 .. Len(PoolSizes) : b = Pools!Bucket(s) /\ s <= PoolSizes[b] /\ PoolSizes[b] \in Nat
  BY <1>3, PoolsAre
<1>5. ASSUME Pools!max_small < s PROVE b \in Pools!Large
  <2>1. Pools!max_small < PoolSizes[b]
    BY <1>4, <1>5, PoolsAre
  <2> QED BY <2>1, PoolsAre
<1> QED BY <1>4, <1>5

LEMMA SamePool ==
  ASSUME NEW s \in Nat
  PROVE  Pools!Source(2 ^ Pools!log2_up(s)) = IF s <= Pools!max_size THEN Pools!Bucket(s) ELSE 0
<1>1. PICK r \in Nat : r = 2 ^ Pools!log2_up(s) /\ s <= r /\ \A k \in Nat : s <= 2 ^ k => r <= 2 ^ k
  BY LogUp
<1>2. ASSUME NEW b \in 1 .. Len(PoolSizes) PROVE s <= PoolSizes[b] <=> r <= PoolSizes[b]
  <2>1. PICK k \in 0 .. PoolSizes[b] : PoolSizes[b] = 2 ^ k
    BY PoolsOK, PoolsAre, Zenon
  <2>2. PoolSizes[b] \in Nat /\ k \in Nat
    BY <2>1, PoolsAre
  <2>3. s <= PoolSizes[b] => r <= PoolSizes[b]
    BY <1>1, <2>1, <2>2
  <2> QED BY <1>1, <2>2, <2>3
<1>3. s <= Pools!max_size <=> r <= Pools!max_size
  BY <1>2, PoolsAre
<1>4. {b \in DOMAIN PoolSizes : s <= PoolSizes[b]} = {b \in DOMAIN PoolSizes : r <= PoolSizes[b]}
  BY <1>2, PoolsAre
<1>5. Pools!Bucket(s) = Pools!Bucket(r)
  BY <1>4 DEF Pools!Bucket
<1> QED BY <1>1, <1>3, <1>5 DEF Pools!Source

LEMMA RoundedUp == ASSUME NEW s \in Nat PROVE Pools!RoundUp(s) \in Nat /\ Pools!RoundUp(s) >= s
<1>1. Alignment \in Nat /\ Alignment > 0
  BY PoolsOK
<1>2. s % Alignment \in 0 .. Alignment - 1
  BY <1>1
<1> QED BY <1>1, <1>2 DEF Pools!RoundUp

-----------------------------------------------------------------------------
(* Blocks in use and pooled blocks of the pools: L are the free blocks of  *)
(* the large pools, U the blocks in use and m the number made.             *)
Spare     == [id : Nat, capacity : Nat]
HandedOut == [id : Nat, capacity : Nat, n : Nat, from : 0 .. Len(PoolSizes), log_size : Nat]
Entries(L, b) == 1 .. Len(L[b])

FitsIn(x) == /\ x \in HandedOut
             /\ x.capacity >= x.n + Padding
             /\ Pools!Source(2 ^ x.log_size) = x.from
             /\ x.from # 0 => x.capacity >= PoolSizes[x.from]

PoolTypes(L, U, m) == /\ m \in Nat /\ L \in [Pools!Large -> Seq(Spare)]
                      /\ \A x \in U : FitsIn(x) /\ x.id <= m
SparesFit(L, m) == \A b \in Pools!Large : \A i \in Entries(L, b) :
                     L[b][i].capacity >= PoolSizes[b] /\ L[b][i].id <= m
SparesApart(L)  == \A b, c \in Pools!Large : \A i \in Entries(L, b) : \A k \in Entries(L, c) :
                     L[b][i].id = L[c][k].id => b = c /\ i = k
NotShared(L, U) == /\ \A x, y \in U : x.id = y.id => x = y
                   /\ \A x \in U : \A b \in Pools!Large : \A i \in Entries(L, b) : x.id # L[b][i].id

PoolsInv(L, U, m) == /\ PoolTypes(L, U, m) /\ SparesFit(L, m)
                     /\ SparesApart(L) /\ NotShared(L, U)

LEMMA SpareTypes ==
  ASSUME NEW L, NEW U, NEW m, PoolTypes(L, U, m), NEW b \in Pools!Large
  PROVE  /\ L[b] \in Seq(Spare) /\ Len(L[b]) \in Nat
         /\ \A i \in Entries(L, b) : L[b][i] \in Spare /\ L[b][i].id \in Nat /\ L[b][i].capacity \in Nat
<1>1. L[b] \in Seq(Spare)
  BY DEF PoolTypes
<1>2. \A i \in Entries(L, b) : L[b][i] \in Spare
  BY <1>1 DEF Entries
<1> QED BY <1>1, <1>2 DEF Spare

(* A new block.                                                            *)
LEMMA HandNew ==
  ASSUME NEW L, NEW U, NEW m, PoolsInv(L, U, m), NEW x, FitsIn(x), x.id = m + 1
  PROVE  PoolsInv(L, U \cup {x}, m + 1)
<1>1. m \in Nat /\ L \in [Pools!Large -> Seq(Spare)] /\ m + 1 \in Nat
  BY DEF PoolsInv, PoolTypes
<1>2. \A y \in U : FitsIn(y) /\ y.id \in Nat /\ y.id <= m
  BY DEF PoolsInv, PoolTypes, FitsIn, HandedOut
<1>3. \A b \in Pools!Large : \A i \in Entries(L, b) : L[b][i].id \in Nat /\ L[b][i].id <= m
  BY SpareTypes DEF PoolsInv, SparesFit
<1>4. PoolTypes(L, U \cup {x}, m + 1)
  BY <1>1, <1>2 DEF PoolTypes
<1>5. SparesFit(L, m + 1)
  BY <1>1, <1>3 DEF PoolsInv, SparesFit
<1>6. NotShared(L, U \cup {x})
  <2>1. \A y \in U : y.id # x.id
    BY <1>1, <1>2
  <2>2. \A b \in Pools!Large : \A i \in Entries(L, b) : x.id # L[b][i].id
    BY <1>1, <1>3
  <2> QED BY <2>1, <2>2 DEF PoolsInv, NotShared
<1> QED BY <1>4, <1>5, <1>6 DEF PoolsInv

(* The block on top of the stack of a large pool.                          *)
LEMMA HandSpare ==
  ASSUME NEW L, NEW U, NEW m, PoolsInv(L, U, m), NEW p \in Pools!Large, L[p] # << >>,
         NEW x, FitsIn(x), x.id = Head(L[p]).id
  PROVE  PoolsInv([L EXCEPT ![p] = Tail(L[p])], U \cup {x}, m)
<1> DEFINE t == Tail(L[p])
           M == [L EXCEPT ![p] = t]
<1>1. m \in Nat /\ L \in [Pools!Large -> Seq(Spare)] /\ \A y \in U : FitsIn(y) /\ y.id <= m
  BY DEF PoolsInv, PoolTypes
<1>2. L[p] \in Seq(Spare) /\ Len(L[p]) \in Nat /\ 1 \in Entries(L, p) /\ Head(L[p]) = L[p][1]
  BY <1>1 DEF Entries
<1>3. /\ t \in Seq(Spare) /\ Len(t) = Len(L[p]) - 1
      /\ \A i \in 1 .. Len(t) : t[i] = L[p][i + 1]
  BY <1>2
<1> HIDE DEF t
<1>4. M \in [Pools!Large -> Seq(Spare)] /\ M[p] = t /\ \A b \in Pools!Large : b # p => M[b] = L[b]
  BY <1>1, <1>3
<1> HIDE DEF M
<1> DEFINE Old(b, i) == IF b = p THEN i + 1 ELSE i
<1>5. \A b \in Pools!Large : \A i \in Entries(M, b) :
        Old(b, i) \in Entries(L, b) /\ M[b][i] = L[b][Old(b, i)]
  BY <1>2, <1>3, <1>4 DEF Entries
<1>6. \A b \in Pools!Large : \A i \in Entries(M, b) : i \in Nat /\ i >= 1
  BY DEF Entries
<1>7. x.id = L[p][1].id /\ x.id <= m
  BY <1>2 DEF PoolsInv, SparesFit
<1>8. \A b \in Pools!Large : \A i \in Entries(M, b) : b = p => Old(b, i) # 1
  BY <1>6
<1>9. \A b \in Pools!Large : \A i, k \in Entries(M, b) : Old(b, i) = Old(b, k) => i = k
  BY <1>6
<1> HIDE DEF Old
<1>10. PoolTypes(M, U \cup {x}, m)
  BY <1>1, <1>4, <1>7 DEF PoolTypes
<1>11. SparesFit(M, m)
  BY <1>5 DEF PoolsInv, SparesFit
<1>12. SparesApart(M)
  BY <1>5, <1>9 DEF PoolsInv, SparesApart
<1>13. NotShared(M, U \cup {x})
  <2>1. \A y \in U : y.id # x.id
    BY <1>2, <1>7 DEF PoolsInv, NotShared
  <2>2. \A b \in Pools!Large : \A i \in Entries(M, b) : x.id # M[b][i].id
    BY <1>2, <1>5, <1>7, <1>8 DEF PoolsInv, SparesApart
  <2>3. \A y \in U : \A b \in Pools!Large : \A i \in Entries(M, b) : y.id # M[b][i].id
    BY <1>5 DEF PoolsInv, NotShared
  <2>4. \A y, z \in U : y.id = z.id => y = z
    BY DEF PoolsInv, NotShared
  <2> QED BY <2>1, <2>2, <2>3, <2>4 DEF NotShared
<1>14. PoolsInv(M, U \cup {x}, m)
  BY <1>10, <1>11, <1>12, <1>13 DEF PoolsInv
<1> QED BY <1>14 DEF M, t

(* A block that goes back, to the system or onto a stack.                  *)
LEMMA GivenUp ==
  ASSUME NEW L, NEW U, NEW m, PoolsInv(L, U, m), NEW x \in U
  PROVE  PoolsInv(L, U \ {x}, m)
BY DEF PoolsInv, PoolTypes, NotShared

LEMMA GivenBack ==
  ASSUME NEW L, NEW U, NEW m, PoolsInv(L, U, m), NEW x \in U, NEW p \in Pools!Large,
         x.capacity >= PoolSizes[p]
  PROVE  PoolsInv([L EXCEPT ![p] = <<[id |-> x.id, capacity |-> x.capacity]>> \o L[p]], U \ {x}, m)
<1> DEFINE top == [id |-> x.id, capacity |-> x.capacity]
           t == <<top>> \o L[p]
           M == [L EXCEPT ![p] = t]
<1>1. m \in Nat /\ L \in [Pools!Large -> Seq(Spare)] /\ FitsIn(x) /\ x.id <= m
  BY DEF PoolsInv, PoolTypes
<1>2. top \in Spare /\ top.id = x.id /\ top.capacity = x.capacity
  BY <1>1 DEF FitsIn, HandedOut, Spare
<1>3. L[p] \in Seq(Spare) /\ Len(L[p]) \in Nat
  BY <1>1
<1> HIDE DEF top
<1>4. /\ t \in Seq(Spare) /\ Len(t) = Len(L[p]) + 1 /\ t[1] = top
      /\ \A i \in 2 .. Len(t) : t[i] = L[p][i - 1]
  BY <1>2, <1>3
<1> HIDE DEF t
<1>5. M \in [Pools!Large -> Seq(Spare)] /\ M[p] = t /\ \A b \in Pools!Large : b # p => M[b] = L[b]
  BY <1>1, <1>4
<1> HIDE DEF M
<1> DEFINE Old(b, i) == IF b = p THEN i - 1 ELSE i
<1>6. \A b \in Pools!Large : \A i \in Entries(M, b) :
        \/ b = p /\ i = 1 /\ M[b][i] = top
        \/ Old(b, i) \in Entries(L, b) /\ M[b][i] = L[b][Old(b, i)]
  BY <1>3, <1>4, <1>5 DEF Entries
<1>7. \A b \in Pools!Large : \A i, k \in Entries(M, b) : Old(b, i) = Old(b, k) => i = k
  BY DEF Entries
<1> HIDE DEF Old
<1>8. PoolTypes(M, U \ {x}, m)
  BY <1>1, <1>5 DEF PoolsInv, PoolTypes
<1>9. SparesFit(M, m)
  BY <1>1, <1>2, <1>6 DEF PoolsInv, SparesFit
<1>10. \A b \in Pools!Large : \A i \in Entries(L, b) : L[b][i].id # top.id
  BY <1>2 DEF PoolsInv, NotShared
<1>11. SparesApart(M)
  <2> SUFFICES ASSUME NEW b \in Pools!Large, NEW c \in Pools!Large,
                      NEW i \in Entries(M, b), NEW k \in Entries(M, c), M[b][i].id = M[c][k].id
               PROVE  b = c /\ i = k
    BY DEF SparesApart
  <2>1. CASE b = p /\ i = 1 /\ M[b][i] = top
    BY <1>6, <1>10, <2>1, Zenon
  <2>2. CASE c = p /\ k = 1 /\ M[c][k] = top
    BY <1>6, <1>10, <2>2, Zenon
  <2>3. CASE /\ Old(b, i) \in Entries(L, b) /\ M[b][i] = L[b][Old(b, i)]
             /\ Old(c, k) \in Entries(L, c) /\ M[c][k] = L[c][Old(c, k)]
    <3>1. b = c /\ Old(b, i) = Old(c, k)
      BY <2>3 DEF PoolsInv, SparesApart
    <3> QED BY <1>7, <3>1
  <2> QED BY <1>6, <2>1, <2>2, <2>3
<1>12. NotShared(M, U \ {x})
  <2>1. \A y \in U \ {x} : y.id # x.id
    BY DEF PoolsInv, NotShared
  <2>2. \A y \in U \ {x} : \A b \in Pools!Large : \A i \in Entries(M, b) : y.id # M[b][i].id
    BY <1>2, <1>6, <2>1 DEF PoolsInv, NotShared
  <2>3. \A y, z \in U \ {x} : y.id = z.id => y = z
    BY DEF PoolsInv, NotShared
  <2> QED BY <2>2, <2>3 DEF NotShared
<1>13. PoolsInv(M, U \ {x}, m)
  BY <1>8, <1>9, <1>11, <1>12 DEF PoolsInv
<1> QED BY <1>13 DEF M, t, top

(* No free blocks: at the start, and once they went back to the system.    *)
LEMMA NoSpares ==
  ASSUME NEW U, NEW m \in Nat, \A x \in U : FitsIn(x) /\ x.id <= m, \A x, y \in U : x.id = y.id => x = y
  PROVE  PoolsInv([b \in Pools!Large |-> << >>], U, m)
<1> DEFINE L == [b \in Pools!Large |-> << >>]
<1>1. L \in [Pools!Large -> Seq(Spare)] /\ \A b \in Pools!Large : Entries(L, b) = {}
  BY DEF Entries
<1> HIDE DEF L
<1>2. PoolsInv(L, U, m)
  BY <1>1 DEF PoolsInv, PoolTypes, SparesFit, SparesApart, NotShared
<1> QED BY <1>2 DEF L

(* A block of capacity c handed out from pool f for a request of r bytes.  *)
Block(r, f, i, c) ==
  [id |-> i, capacity |-> c, n |-> r, from |-> f, log_size |-> Pools!log2_up(r + Padding)]

LEMMA BlockFits ==
  ASSUME NEW r \in Nat, NEW f, NEW i \in Nat, NEW c \in Nat,
         f = IF r + Padding <= Pools!max_size THEN Pools!Bucket(r + Padding) ELSE 0,
         c >= r + Padding, f # 0 => c >= PoolSizes[f]
  PROVE  FitsIn(Block(r, f, i, c))
<1>1. PICK s \in Nat : s = r + Padding
  BY PoolsOK
<1>2. Pools!log2_up(s) \in Nat /\ Pools!Source(2 ^ Pools!log2_up(s)) = f
  BY <1>1, LogUp, SamePool
<1>3. f \in 0 .. Len(PoolSizes)
  BY <1>1, BucketOf, PoolsAre
<1> DEFINE x == Block(r, f, i, c)
<1>4. /\ x = [id |-> i, capacity |-> c, n |-> r, from |-> f, log_size |-> Pools!log2_up(s)]
  BY <1>1 DEF Block
<1>5. x \in HandedOut
  BY <1>2, <1>3, <1>4 DEF HandedOut
<1>6. x.id = i /\ x.capacity = c /\ x.n = r /\ x.from = f /\ x.log_size = Pools!log2_up(s)
  BY <1>4
<1> HIDE DEF x
<1>7. FitsIn(x)
  BY <1>2, <1>5, <1>6 DEF FitsIn
<1> QED BY <1>7 DEF x

PoolsSound == PoolsInv(large_buckets, inUse, made)

LEMMA MallocStep == ASSUME PoolsSound, NEW r \in Requests, Pools!p_malloc(r) PROVE PoolsSound'
<1>1. r \in Nat /\ Padding \in Nat /\ made \in Nat /\ made + 1 \in Nat
  BY PoolsOK DEF PoolsSound, PoolsInv, PoolTypes
<1>2. PICK s \in Nat : s = r + Padding
  BY <1>1
<1>3. \A f, i, c : Pools!HandOut(r, f, i, c) => inUse' = inUse \cup {Block(r, f, i, c)}
  BY DEF Pools!HandOut, Block
<1>4. \A f, i, c : Block(r, f, i, c).id = i
  BY DEF Block
<1>5. CASE /\ s <= Pools!max_small
           /\ made' = made + 1
           /\ Pools!HandOut(r, Pools!Bucket(s), made', PoolSizes[Pools!Bucket(s)])
           /\ UNCHANGED large_buckets
  <2>1. s <= Pools!max_size
    <3>1. Pools!max_size \in Nat /\ Pools!max_small \in Nat /\ Pools!max_small <= Pools!max_size
      BY PoolsAre
    <3> QED BY <1>5, <3>1
  <2>2. PICK b \in 1 .. Len(PoolSizes) : b = Pools!Bucket(s) /\ s <= PoolSizes[b] /\ PoolSizes[b] \in Nat
    BY <2>1, BucketOf, PoolsAre
  <2>3. FitsIn(Block(r, b, made + 1, PoolSizes[b]))
    BY <1>1, <1>2, <2>1, <2>2, BlockFits
  <2>4. inUse' = inUse \cup {Block(r, b, made + 1, PoolSizes[b])}
    BY <1>3, <1>5, <2>2
  <2>5. PoolsInv(large_buckets, inUse', made + 1)
    BY <1>4, <2>3, <2>4, HandNew DEF PoolsSound
  <2> QED BY <1>5, <2>5 DEF PoolsSound
<1>6. CASE /\ s > Pools!max_small /\ s <= Pools!max_size
           /\ large_buckets[Pools!Bucket(s)] # << >>
           /\ LET block == Head(large_buckets[Pools!Bucket(s)])
              IN  Pools!HandOut(r, Pools!Bucket(s), block.id, block.capacity)
           /\ large_buckets' = [large_buckets EXCEPT ![Pools!Bucket(s)] = Tail(large_buckets[Pools!Bucket(s)])]
           /\ UNCHANGED made
  <2>1. PICK b \in Pools!Large : b = Pools!Bucket(s) /\ s <= PoolSizes[b] /\ PoolSizes[b] \in Nat /\ b # 0
    BY <1>6, BucketOf, PoolsAre
  <2>2. PICK y : y = Head(large_buckets[b])
    OBVIOUS
  <2>3. y = large_buckets[b][1] /\ 1 \in Entries(large_buckets, b)
    <3>1. large_buckets[b] \in Seq(Spare) /\ large_buckets[b] # << >>
      BY <1>6, <2>1, SpareTypes DEF PoolsSound, PoolsInv
    <3> QED BY <2>2, <3>1 DEF Entries
  <2>4. y.id \in Nat /\ y.capacity \in Nat /\ y.capacity >= PoolSizes[b]
    BY <2>3, SpareTypes DEF PoolsSound, PoolsInv, SparesFit
  <2>5. FitsIn(Block(r, b, y.id, y.capacity))
    <3>1. y.capacity >= r + Padding
      BY <1>2, <2>1, <2>4
    <3> QED BY <1>1, <1>2, <1>6, <2>1, <2>4, <3>1, BlockFits, Zenon
  <2>6. /\ inUse' = inUse \cup {Block(r, b, y.id, y.capacity)}
        /\ large_buckets' = [large_buckets EXCEPT ![b] = Tail(large_buckets[b])] /\ made' = made
        /\ large_buckets[b] # << >>
    BY <1>3, <1>6, <2>1, <2>2
  <2>7. PoolsInv(large_buckets', inUse', made)
    <3>1. PICK x : x = Block(r, b, y.id, y.capacity) /\ x.id = Head(large_buckets[b]).id
      BY <1>4, <2>2
    <3>2. PoolsInv([large_buckets EXCEPT ![b] = Tail(large_buckets[b])], inUse \cup {x}, made)
      BY <2>5, <2>6, <3>1, HandSpare, Zenon DEF PoolsSound
    <3> QED BY <2>6, <3>1, <3>2
  <2> QED BY <2>6, <2>7 DEF PoolsSound
<1>7. CASE /\ s > Pools!max_small
           /\ made' = made + 1
           /\ LET bucket == IF s <= Pools!max_size THEN Pools!Bucket(s) ELSE 0
              IN  Pools!HandOut(r, bucket, made',
                                Pools!RoundUp(IF bucket = 0 THEN s ELSE PoolSizes[bucket]))
           /\ UNCHANGED large_buckets
  <2>1. PICK f : f = IF s <= Pools!max_size THEN Pools!Bucket(s) ELSE 0
    OBVIOUS
  <2>2. f # 0 => s <= Pools!max_size /\ f \in 1 .. Len(PoolSizes) /\ s <= PoolSizes[f]
    BY <2>1, BucketOf
  <2>3. PICK z \in Nat : z = IF f = 0 THEN s ELSE PoolSizes[f]
    BY <2>2, PoolsAre
  <2>4. PICK c \in Nat : c = Pools!RoundUp(z) /\ c >= z
    BY RoundedUp
  <2>5. c >= s /\ (f # 0 => c >= PoolSizes[f])
    <3>1. z >= s
      BY <2>2, <2>3
    <3> QED BY <2>3, <2>4, <3>1
  <2>6. FitsIn(Block(r, f, made + 1, c))
    BY <1>1, <1>2, <2>1, <2>5, BlockFits, Zenon
  <2>7. inUse' = inUse \cup {Block(r, f, made + 1, c)}
    BY <1>3, <1>7, <2>1, <2>3, <2>4
  <2>8. PoolsInv(large_buckets, inUse', made + 1)
    BY <1>4, <2>6, <2>7, HandNew DEF PoolsSound
  <2> QED BY <1>7, <2>8 DEF PoolsSound
<1> QED BY <1>2, <1>5, <1>6, <1>7, Zenon DEF Pools!p_malloc

LEMMA PFreeStep == ASSUME PoolsSound, NEW x \in inUse, Pools!p_free(x) PROVE PoolsSound'
<1>1. PICK to : to = Pools!Source(Pools!Freed(x))
  OBVIOUS
<1>2. FitsIn(x) /\ to = x.from
  BY <1>1 DEF PoolsSound, PoolsInv, PoolTypes, FitsIn, Pools!Freed
<1>3. inUse' = inUse \ {x} /\ made' = made
  BY DEF Pools!p_free
<1>4. CASE to \notin Pools!Large
  <2>1. large_buckets' = large_buckets
    BY <1>1, <1>4 DEF Pools!p_free
  <2> QED BY <1>3, <2>1, GivenUp DEF PoolsSound
<1>5. CASE to \in Pools!Large
  <2>1. large_buckets' = [large_buckets EXCEPT ![to] =
                            <<[id |-> x.id, capacity |-> x.capacity]>> \o large_buckets[to]]
    BY <1>1, <1>5 DEF Pools!p_free
  <2>2. x.capacity >= PoolSizes[to]
    BY <1>2, <1>5, PoolsAre DEF FitsIn
  <2>3. PoolsInv(large_buckets', inUse', made)
    BY <1>3, <1>5, <2>1, <2>2, GivenBack, Zenon DEF PoolsSound
  <2> QED BY <1>3, <2>3 DEF PoolsSound
<1> QED BY <1>4, <1>5

LEMMA ReleaseStep == ASSUME PoolsSound, Pools!memory_clear PROVE PoolsSound'
<1>1. large_buckets' = [b \in Pools!Large |-> << >>] /\ inUse' = inUse /\ made' = made
  BY DEF Pools!memory_clear
<1>2. made \in Nat /\ (\A x \in inUse : FitsIn(x) /\ x.id <= made) /\ \A x, y \in inUse : x.id = y.id => x = y
  BY DEF PoolsSound, PoolsInv, PoolTypes, NotShared
<1>3. PoolsInv(large_buckets', inUse, made)
  BY <1>1, <1>2, NoSpares, Zenon
<1> QED BY <1>1, <1>3 DEF PoolsSound

LEMMA PoolsInit == Pools!Init => PoolsSound
<1> SUFFICES ASSUME Pools!Init PROVE PoolsSound
  OBVIOUS
<1>1. large_buckets = [b \in Pools!Large |-> << >>] /\ inUse = {} /\ made = 0
  BY DEF Pools!Init
<1>2. PoolsInv([b \in Pools!Large |-> << >>], {}, 0)
  BY NoSpares
<1> QED BY <1>1, <1>2, Zenon DEF PoolsSound

LEMMA PoolsStep == PoolsSound /\ Pools!Next => PoolsSound'
BY MallocStep, PFreeStep, ReleaseStep DEF Pools!Next

LEMMA PoolsFit == PoolsSound => Pools!BuffersFit
<1> SUFFICES ASSUME PoolsSound PROVE Pools!BuffersFit
  OBVIOUS
<1>1. \A x \in inUse : x.capacity >= x.n + Padding /\ Pools!Source(Pools!Freed(x)) = x.from
  BY DEF PoolsSound, PoolsInv, PoolTypes, FitsIn, Pools!Freed
<1>2. \A x, y \in inUse : x.id = y.id => x = y
  BY DEF PoolsSound, PoolsInv, NotShared
<1>3. ASSUME NEW b \in Pools!Large
      PROVE  /\ DOMAIN large_buckets[b] = Entries(large_buckets, b)
             /\ \A i \in Entries(large_buckets, b) :
                  /\ large_buckets[b][i].capacity >= PoolSizes[b]
                  /\ \A x \in inUse : x.id # large_buckets[b][i].id
  <2>1. large_buckets[b] \in Seq(Spare)
    BY SpareTypes DEF PoolsSound, PoolsInv
  <2>2. DOMAIN large_buckets[b] = Entries(large_buckets, b)
    BY <2>1 DEF Entries
  <2> QED BY <2>2 DEF PoolsSound, PoolsInv, SparesFit, NotShared
<1> QED BY <1>1, <1>2, <1>3 DEF Pools!BuffersFit

-----------------------------------------------------------------------------
(* The block allocators lose no block, give none to two workers, and the   *)
(* lengths they keep are those of their lists (block_allocator.h); a       *)
(* buffer is as large as asked for, is nobody else's, and goes back to the *)
(* pool it came from (pool_allocator.h, alloc.h): for any workers, lengths *)
(* of lists, sizes of pools that are powers of two, and requests.          *)
THEOREM MemoryKept == Spec => []MemorySound
<1> DEFINE Inv == /\ running = "blocks" => BlocksWhole
                  /\ running = "pools" => PoolsSound
<1>1. Init => Inv
  BY BlocksInit, PoolsInit DEF Init
<1>2. Inv /\ [Next]_vars => Inv'
  <2> SUFFICES ASSUME Inv, [Next]_vars PROVE Inv'
    OBVIOUS
  <2>1. CASE UNCHANGED vars
    BY <2>1 DEF vars, ofBlocks, ofPools, shared, BlocksWhole, PoolsSound
  <2>2. CASE Next
    <3>1. running' = running
      BY <2>2 DEF Next
    <3>2. ASSUME running = "blocks" PROVE BlocksWhole'
      BY <2>2, <3>2, BlocksStep DEF Next
    <3>3. ASSUME running = "pools" PROVE PoolsSound'
      BY <2>2, <3>3, PoolsStep DEF Next
    <3> QED BY <3>1, <3>2, <3>3
  <2> QED BY <2>1, <2>2
<1>3. Inv => MemorySound
  BY BlocksKept, PoolsFit DEF MemorySound
<1> QED BY <1>1, <1>2, <1>3, PTL DEF Spec

================================================================================
