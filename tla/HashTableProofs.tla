---------------------------- MODULE HashTableProofs ----------------------------
(***************************************************************************)
(* Theorem about the phase-concurrent hash table (HashTable), for any      *)
(* threads, keys, values and calls, and for any hash and number of cells   *)
(* with which clusters stay short (Params).                                *)
(***************************************************************************)
EXTENDS HashTable, FiniteSetTheorems, WellFoundedInduction, TLAPS

-----------------------------------------------------------------------------
(* Induction on the naturals, of sets: there is a least element, because   *)
(* the intervals below the elements are finite sets and so one of them     *)
(* contains no other.                                                      *)
LEMMA Least ==
  ASSUME NEW T \in SUBSET Nat, T # {}
  PROVE  \E i \in T : \A m \in T : i <= m
<1> DEFINE below == {0 .. i : i \in T}
           R == StrictSubsetOrdering(Nat)
<1>1. IsWellFoundedOn(R, FiniteSubsetsOf(Nat))
  BY FS_StrictSubsetOrderingWellFounded
<1>2. below \subseteq FiniteSubsetsOf(Nat) /\ below # {}
  <2>1. ASSUME NEW m \in T PROVE 0 .. m \in FiniteSubsetsOf(Nat)
    <3>1. m \in Nat
      OBVIOUS
    <3>2. 0 .. m \subseteq Nat /\ IsFiniteSet(0 .. m)
      BY <3>1, FS_Interval
    <3> QED BY <3>2 DEF FiniteSubsetsOf
  <2> QED BY <2>1
<1>3. \E x \in below : \A y \in below : ~ (<<y, x>> \in R)
  BY <1>1, <1>2, WFMin
<1>4. PICK i \in T : \A m \in T : ~ (<<0 .. m, 0 .. i>> \in R)
  BY <1>3
<1>5. ASSUME NEW m \in T PROVE i <= m
  <2>0. i \in Nat /\ m \in Nat
    OBVIOUS
  <2> SUFFICES ASSUME m < i PROVE FALSE
    BY <2>0
  <2>1. 0 .. m \subseteq 0 .. i /\ i \in 0 .. i /\ i \notin 0 .. m
    BY <2>0
  <2>2. <<0 .. m, 0 .. i>> \in R
    <3>1. 0 .. m \subseteq Nat /\ 0 .. i \subseteq Nat
      BY <2>0
    <3> QED BY <2>1, <3>1 DEF StrictSubsetOrdering
  <2> QED BY <1>4, <2>2
<1> QED BY <1>5

LEMMA SetInduction ==
  ASSUME NEW T, 0 \in T, \A i \in Nat : i \in T => i + 1 \in T
  PROVE  Nat \subseteq T
<1> DEFINE missing == Nat \ T
<1> SUFFICES ASSUME missing # {} PROVE FALSE
  OBVIOUS
<1>1. PICK i \in missing : \A m \in missing : i <= m
  BY Least
<1>2. i # 0 /\ i - 1 \in Nat /\ i - 1 \notin missing /\ (i - 1) + 1 = i
  BY <1>1
<1> QED BY <1>1, <1>2

LEMMA SmallestIs ==
  ASSUME NEW T \in SUBSET Nat, NEW d \in T, \A n \in T : d <= n
  PROVE  Min(T) = d
<1>1. d \in T /\ \A n \in T : d <= n
  OBVIOUS
<1>2. \A x \in T : (\A n \in T : x <= n) => x = d
  OBVIOUS
<1> QED BY <1>1, <1>2, Zenon DEF Min

LEMMA SmallestIn ==
  ASSUME NEW T \in SUBSET Nat, T # {}
  PROVE  Min(T) \in T /\ \A n \in T : Min(T) <= n
<1>1. PICK d \in T : \A n \in T : d <= n
  BY Least
<1>2. Min(T) = d
  BY <1>1, SmallestIs
<1> QED BY <1>1, <1>2

-----------------------------------------------------------------------------
(* Cells lie on a ring.                                                    *)
Cells    == 0 .. M - 1
Elements == Keys \X Values
Slots    == Elements \cup {empty}

(* Steps from cell a to cell h, going up.                                  *)
Dist(a, h) == IF h >= a THEN h - a ELSE h + M - a

(* The cells from the hash of k up to h hold keys of higher priority.      *)
Above(c, k)   == c # empty /\ Key(c) > k
Reached(cells, k, h) ==
  \A q \in Cells : Dist(firstIndex(k), q) < Dist(firstIndex(k), h) => Above(cells[q], k)

PCs == {"idle", "probe", "cas", "down", "match", "scan", "rescan", "replace", "reread"}
Locals == [pc : PCs, v : (Keys \X Nat) \cup {empty}, i : Cells, j : Cells, c : Slots,
           jj : Cells, x : Slots, jjj : Cells]
TypeOK ==
  /\ TA \in [Cells -> Slots]
  /\ phase \in {"insert", "update", "delete"}
  /\ content \subseteq Elements
  /\ me \in [Procs -> Locals]
  /\ \A p \in Procs : me[p].pc # "idle" => me[p].v \in Keys \X Nat

(* Insertion: what the table holds and what the threads carry has been     *)
(* kept from no cell by anything lower; of the elements of a key, the      *)
(* largest is the one the calls leave.                                     *)
Carries(p) == me[p].pc \in {"probe", "cas"}
Holding(e) == (\E h \in Cells : TA[h] = e) \/ (\E p \in Procs : Carries(p) /\ me[p].v = e)
InsertOK ==
  /\ \A p \in Procs : me[p].pc \in {"idle", "probe", "cas"}
  /\ \A h \in Cells : TA[h] # empty => Reached(TA, Key(TA[h]), h)
  /\ \A p \in Procs : Carries(p) => me[p].v \in Elements /\ Reached(TA, Key(me[p].v), me[p].i)
  /\ \A p \in Procs : me[p].pc = "cas" =>
       LET l == me[p] IN l.c # empty => Key(l.c) < Key(l.v) \/ (Key(l.c) = Key(l.v) /\ replaceQ(l.v, l.c))
  /\ \A e \in content : Holding(e)
  /\ \A e \in Elements : Holding(e) => \E f \in content : Key(f) = Key(e) /\ e[2] <= f[2]
  /\ \A e, f \in content : Key(e) = Key(f) => e = f

-----------------------------------------------------------------------------
(* The ring from an empty cell b on is a line, on which keys lie from      *)
(* their hashes up: r is the place of a cell, F are the cells that may be  *)
(* full, whose runs are shorter than half of the line.                     *)
Rank(b, h) == IF h > b THEN h - b - 1 ELSE h + M - 1 - b
Line(r, F) ==
  F \subseteq Cells /\ \E b \in Cells \ F : r = [h \in Cells |-> Rank(b, h)]
Run(r, F, a, h) == r[a] <= r[h] /\ \A q \in Cells : r[a] <= r[q] /\ r[q] < r[h] => q \in F
Short(r, F) == \A a, h \in Cells : Run(r, F, a, h) => 2 * (r[h] - r[a]) < M

LEMMA NotEmpty == ASSUME NEW e \in Keys \X Nat PROVE e # empty
<1>1. e = <<e[1], e[2]>>
  OBVIOUS
<1>2. <<e[1], e[2]>> \in Seq({e[1], e[2]}) /\ Len(<<e[1], e[2]>>) = 2
  OBVIOUS
<1>3. Len(<< >>) = 0
  OBVIOUS
<1>4. e = << >> => Len(<<e[1], e[2]>>) = 0
  BY <1>1, <1>3
<1> QED BY <1>2, <1>4 DEF empty

LEMMA HashInCells == ASSUME Params, NEW k \in Keys PROVE firstIndex(k) \in Cells
<1>1. M \in Nat /\ Hash[k] \in Nat
  BY DEF Params
<1>2. M > 0
  BY <1>1 DEF Params
<1> QED BY <1>1, <1>2 DEF firstIndex, Cells

LEMMA Around ==
  ASSUME Params, NEW h \in Cells
  PROVE  /\ M \in Nat /\ M > 0
         /\ incrementIndex(h) = IF h = M - 1 THEN 0 ELSE h + 1
         /\ decrementIndex(h) = IF h = 0 THEN M - 1 ELSE h - 1
         /\ incrementIndex(h) \in Cells /\ decrementIndex(h) \in Cells
<1>1. M \in Nat /\ M > 0
  BY DEF Params
<1>2. incrementIndex(h) = IF h = M - 1 THEN 0 ELSE h + 1
  BY <1>1 DEF incrementIndex, Cells
<1>3. decrementIndex(h) = IF h = 0 THEN M - 1 ELSE h - 1
  <2>1. CASE h = 0
    BY <1>1, <2>1 DEF decrementIndex, Cells
  <2>2. CASE h # 0
    <3>1. h + M - 1 = (h - 1) + M /\ h - 1 \in 0 .. M - 1
      BY <1>1, <2>2 DEF Cells
    <3>2. ((h - 1) + M) % M = h - 1
      BY <1>1, <3>1
    <3> QED BY <2>2, <3>1, <3>2 DEF decrementIndex
  <2> QED BY <2>1, <2>2
<1> QED BY <1>1, <1>2, <1>3 DEF Cells

(* A step up on the ring is one on the line, but for the last cell, which  *)
(* is empty; lessIndex compares places that are near.                      *)
LEMMA LineFacts ==
  ASSUME Params, NEW r, NEW F, Line(r, F)
  PROVE  /\ M \in Nat /\ M > 0 /\ F \subseteq Cells
         /\ r \in [Cells -> Cells] /\ \A h \in Cells : r[h] \in Nat
         /\ \A a, h \in Cells : r[a] = r[h] => a = h
         /\ \A h \in Cells : h \in F => r[h] < M - 1
         /\ \A h \in Cells : r[h] < M - 1 => r[incrementIndex(h)] = r[h] + 1
         /\ \A h \in Cells : r[h] > 0 => r[decrementIndex(h)] = r[h] - 1
         /\ \A a, h \in Cells : 2 * (r[h] - r[a]) < M /\ 2 * (r[a] - r[h]) < M =>
              (lessIndex(a, h) <=> r[a] < r[h])
<1>1. PICK b \in Cells : b \notin F /\ r = [h \in Cells |-> Rank(b, h)]
  BY DEF Line
<1>2. M \in Nat /\ M > 0
  BY DEF Params
<1>3. \A h \in Cells : r[h] = Rank(b, h) /\ Rank(b, h) \in Cells
  BY <1>1, <1>2 DEF Rank, Cells
<1>4. F \subseteq Cells
  BY DEF Line
<1>5. r \in [Cells -> Cells] /\ \A h \in Cells : r[h] \in Nat
  BY <1>1, <1>2, <1>3 DEF Cells
<1>6. ASSUME NEW a \in Cells, NEW h \in Cells, r[a] = r[h] PROVE a = h
  BY <1>2, <1>3, <1>6 DEF Rank, Cells
<1>7. ASSUME NEW h \in Cells, h \in F PROVE r[h] < M - 1
  <2>1. h # b
    BY <1>1, <1>7
  <2> QED BY <1>2, <1>3, <2>1 DEF Rank, Cells
<1>8. ASSUME NEW h \in Cells, r[h] < M - 1 PROVE r[incrementIndex(h)] = r[h] + 1
  <2>1. incrementIndex(h) = (IF h = M - 1 THEN 0 ELSE h + 1) /\ incrementIndex(h) \in Cells
    BY Around
  <2>2. r[incrementIndex(h)] = Rank(b, incrementIndex(h)) /\ r[h] = Rank(b, h)
    BY <1>3, <2>1
  <2> HIDE DEF incrementIndex
  <2> QED BY <1>2, <1>8, <2>1, <2>2 DEF Rank, Cells
<1>9. ASSUME NEW h \in Cells, r[h] > 0 PROVE r[decrementIndex(h)] = r[h] - 1
  <2>1. decrementIndex(h) = (IF h = 0 THEN M - 1 ELSE h - 1) /\ decrementIndex(h) \in Cells
    BY Around
  <2>2. r[decrementIndex(h)] = Rank(b, decrementIndex(h)) /\ r[h] = Rank(b, h)
    BY <1>3, <2>1
  <2> QED BY <1>2, <1>9, <2>1, <2>2 DEF Rank, Cells
<1>10. ASSUME NEW a \in Cells, NEW h \in Cells, 2 * (r[h] - r[a]) < M, 2 * (r[a] - r[h]) < M
       PROVE  lessIndex(a, h) <=> r[a] < r[h]
  <2>1. r[a] = Rank(b, a) /\ r[h] = Rank(b, h)
    BY <1>3
  <2> QED BY <1>2, <1>10, <2>1 DEF Rank, Cells, lessIndex
<1> QED BY <1>2, <1>4, <1>5, <1>6, <1>7, <1>8, <1>9, <1>10

(* The way from a to h on the ring is that on the line.                    *)
LEMMA SameWay ==
  ASSUME Params, NEW r, NEW F, Line(r, F), NEW a \in Cells, NEW h \in Cells, r[a] <= r[h]
  PROVE  \A q \in Cells : Dist(a, q) < Dist(a, h) <=> r[a] <= r[q] /\ r[q] < r[h]
<1>1. PICK b \in Cells : b \notin F /\ r = [g \in Cells |-> Rank(b, g)]
  BY DEF Line
<1>2. M \in Nat /\ M > 0
  BY DEF Params
<1>3. \A g \in Cells : r[g] = Rank(b, g)
  BY <1>1
<1> QED BY <1>2, <1>3 DEF Rank, Cells, Dist

(* A way through full cells only does not meet the last one.               *)
LEMMA WayOnLine ==
  ASSUME Params, NEW r, NEW F, Line(r, F), NEW a \in Cells, NEW h \in Cells, h \in F,
         \A q \in Cells : Dist(a, q) < Dist(a, h) => q \in F
  PROVE  Run(r, F, a, h)
<1>1. PICK b \in Cells : b \notin F /\ r = [g \in Cells |-> Rank(b, g)]
  BY DEF Line
<1>2. M \in Nat /\ M > 0
  BY DEF Params
<1>3. \A g \in Cells : r[g] = Rank(b, g)
  BY <1>1
<1>4. b # h /\ ~(Dist(a, b) < Dist(a, h))
  BY <1>1
<1>5. r[a] <= r[h]
  BY <1>2, <1>3, <1>4 DEF Rank, Cells, Dist
<1> QED BY <1>5, SameWay DEF Run

-----------------------------------------------------------------------------
(* Insertion.                                                              *)
LEMMA DistPositive ==
  ASSUME Params, NEW a \in Cells, NEW h \in Cells
  PROVE  /\ Dist(a, h) \in Nat /\ Dist(a, h) < M /\ Dist(a, a) = 0
         /\ Dist(a, h) = 0 => a = h
         /\ \A q \in Cells : Dist(a, q) < Dist(a, incrementIndex(h)) => q = h \/ Dist(a, q) < Dist(a, h)
<1>1. M \in Nat /\ M > 0
  BY DEF Params
<1>2. incrementIndex(h) = (IF h = M - 1 THEN 0 ELSE h + 1) /\ incrementIndex(h) \in Cells
  BY Around
<1> QED BY <1>1, <1>2 DEF Dist, Cells

LEMMA KeyTypes ==
  ASSUME Params
  PROVE  /\ \A e \in Elements : Key(e) \in Keys /\ e[2] \in Nat /\ e = <<Key(e), e[2]>> /\ e # empty
         /\ \A e \in Keys \X Nat : Key(e) \in Keys /\ e[2] \in Nat /\ e # empty
         /\ \A e \in Elements : e \in Keys \X Nat
         /\ \A k \in Keys : k \in Nat /\ firstIndex(k) \in Cells
<1>1. Keys \subseteq Nat /\ Values \subseteq Nat
  BY DEF Params
<1>2. \A e \in Elements : e \in Keys \X Nat
  BY <1>1 DEF Elements
<1>3. \A e \in Elements : Key(e) \in Keys /\ e[2] \in Nat /\ e = <<Key(e), e[2]>>
  <2>1. \A e \in Elements : e[1] \in Keys /\ e[2] \in Nat
    BY <1>1 DEF Elements
  <2>2. \A e \in Elements : e = <<e[1], e[2]>>
    BY DEF Elements
  <2> QED BY <2>1, <2>2 DEF Key
<1> QED BY <1>1, <1>2, <1>3, NotEmpty, HashInCells DEF Key

LEMMA AgainstFacts ==
  ASSUME Params, NEW k \in Keys, NEW c \in Slots
  PROVE  /\ Against(k, c) < 0 <=> Above(c, k)
         /\ Against(k, c) = 0 <=> c # empty /\ Key(c) = k
         /\ Against(k, c) > 0 <=> c = empty \/ Key(c) < k
         /\ Against(k, c) >= 0 <=> ~Above(c, k)
         /\ c # empty => c \in Elements /\ Key(c) \in Keys /\ Key(c) \in Nat
         /\ k \in Nat
<1>1. c # empty => c \in Elements /\ Key(c) \in Keys /\ Key(c) \in Nat
  BY KeyTypes DEF Slots
<1>2. k \in Nat
  BY KeyTypes
<1>3. CASE c = empty
  BY <1>2, <1>3 DEF Against, Above
<1>4. CASE c # empty
  <2>1. Against(k, c) = k - Key(c)
    BY <1>4 DEF Against, cmp
  <2> QED BY <1>1, <1>2, <1>4, <2>1 DEF Above
<1> QED BY <1>1, <1>2, <1>3, <1>4

(* A step changes the locals of one thread.                                *)
LEMMA LocalStep ==
  ASSUME TypeOK, NEW p \in Procs, NEW l \in Locals, l.pc # "idle" => l.v \in Keys \X Nat,
         me' = [me EXCEPT ![p] = l]
  PROVE  /\ me' \in [Procs -> Locals] /\ me'[p] = l
         /\ \A q \in Procs : q # p => me'[q] = me[q]
         /\ \A q \in Procs : me'[q].pc # "idle" => me'[q].v \in Keys \X Nat
<1>1. me' \in [Procs -> Locals] /\ me'[p] = l /\ \A q \in Procs : q # p => me'[q] = me[q]
  BY DEF TypeOK
<1> QED BY <1>1 DEF TypeOK

LEMMA IdleType == ASSUME Params PROVE Idle \in Locals /\ Idle.pc = "idle"
<1>1. 0 \in Cells
  BY DEF Params, Cells
<1> QED BY <1>1 DEF Idle, Locals, PCs, Slots

LEMMA CallInsertKeeps ==
  ASSUME Params, TypeOK, InsertOK, NEW p \in Procs, NEW v \in Elements, CallInsert(p, v)
  PROVE  TypeOK' /\ InsertOK'
<1> DEFINE l == [[Idle EXCEPT !.v = v, !.i = firstIndex(Key(v))] EXCEPT !.pc = "probe"]
<1>3. Key(v) \in Keys /\ v \in Keys \X Nat /\ firstIndex(Key(v)) \in Cells
  BY KeyTypes
<1>1. l.pc = "probe" /\ l.v = v /\ l.i = firstIndex(Key(v)) /\ l \in Locals
  BY <1>3, IdleType DEF Idle, Locals, PCs
<1>4. /\ TA' = TA /\ phase' = phase /\ me[p].pc = "idle" /\ content' = Put(content, v)
      /\ me' = [me EXCEPT ![p] = l]
  BY DEF CallInsert, Goto, Call
<1> HIDE DEF l
<1>2. /\ me' \in [Procs -> Locals] /\ me'[p] = l /\ \A q \in Procs : q # p => me'[q] = me[q]
      /\ \A q \in Procs : me'[q].pc # "idle" => me'[q].v \in Keys \X Nat
      /\ TA' = TA /\ phase' = phase /\ me[p].pc = "idle" /\ content' = Put(content, v)
  BY <1>1, <1>3, <1>4, LocalStep
<1>5. content' \subseteq Elements
  BY <1>2 DEF Put, TypeOK
<1>6. TypeOK'
  BY <1>2, <1>5 DEF TypeOK
<1>7. \A q \in Procs : me'[q].pc \in {"idle", "probe", "cas"}
  BY <1>1, <1>2 DEF InsertOK
<1>8. \A h \in Cells : TA'[h] # empty => Reached(TA', Key(TA'[h]), h)
  BY <1>2 DEF InsertOK, Reached
<1>9. ASSUME NEW q \in Procs, Carries(q)' PROVE me'[q].v \in Elements /\ Reached(TA', Key(me'[q].v), me'[q].i)
  <2>1. CASE q = p
    <3>1. \A g \in Cells : ~(Dist(firstIndex(Key(v)), g) < Dist(firstIndex(Key(v)), firstIndex(Key(v))))
      BY <1>3, DistPositive
    <3> QED BY <1>1, <1>2, <2>1, <3>1 DEF Reached
  <2>2. CASE q # p
    <3>1. me'[q] = me[q] /\ Carries(q)
      BY <1>2, <1>9, <2>2 DEF Carries
    <3> QED BY <1>2, <3>1 DEF InsertOK, Reached
  <2> QED BY <2>1, <2>2
<1>10. ASSUME NEW q \in Procs, me'[q].pc = "cas"
       PROVE  LET m == me'[q] IN m.c # empty => Key(m.c) < Key(m.v) \/ (Key(m.c) = Key(m.v) /\ replaceQ(m.v, m.c))
  <2>1. q # p /\ me'[q] = me[q]
    BY <1>1, <1>2, <1>10
  <2> QED BY <1>10, <2>1 DEF InsertOK
<1>11. \A e : Holding(e)' <=> Holding(e) \/ e = v
  BY <1>1, <1>2 DEF Holding, Carries
<1> DEFINE old == {c \in content : Key(c) = Key(v)}
<1>12. \A c \in old : c \in content /\ c \in Elements /\ Key(c) = Key(v) /\ c[2] \in Nat /\ v[2] \in Nat
  BY KeyTypes DEF TypeOK
<1>13. CASE \E c \in old : ~replaceQ(v, c)
  <2>1. PICK c \in old : ~replaceQ(v, c)
    BY <1>13
  <2>2. content' = content
    BY <1>2, <1>13 DEF Put
  <2>3. v[2] <= c[2]
    BY <1>12, <2>1 DEF replaceQ
  <2>4. \A e \in content' : Holding(e)'
    BY <1>11, <2>2 DEF InsertOK
  <2>5. \A e \in Elements : Holding(e)' => \E f \in content' : Key(f) = Key(e) /\ e[2] <= f[2]
    BY <1>11, <1>12, <2>2, <2>3 DEF InsertOK
  <2>6. \A e, f \in content' : Key(e) = Key(f) => e = f
    BY <2>2 DEF InsertOK
  <2> QED BY <1>6, <1>7, <1>8, <1>9, <1>10, <2>4, <2>5, <2>6 DEF InsertOK
<1>14. CASE \A c \in old : replaceQ(v, c)
  <2>1. content' = (content \ old) \cup {v}
    BY <1>2, <1>14 DEF Put
  <2>2. \A c \in old : c[2] < v[2]
    BY <1>12, <1>14 DEF replaceQ
  <2>3. \A e \in content' : Holding(e)'
    BY <1>11, <2>1 DEF InsertOK
  <2>4. ASSUME NEW e \in Elements, Holding(e)' PROVE \E f \in content' : Key(f) = Key(e) /\ e[2] <= f[2]
    <3>1. v \in content' /\ v[2] \in Nat /\ e[2] \in Nat
      BY <2>1, KeyTypes
    <3>2. CASE e = v
      BY <3>1, <3>2
    <3>3. CASE e # v
      <4>1. PICK f \in content : Key(f) = Key(e) /\ e[2] <= f[2]
        BY <1>11, <2>4, <3>3 DEF InsertOK
      <4>2. CASE f \in old
        <5>1. Key(v) = Key(e) /\ e[2] <= v[2]
          BY <1>12, <2>2, <3>1, <4>1, <4>2
        <5> QED BY <3>1, <5>1
      <4>3. CASE f \notin old
        BY <2>1, <4>1, <4>3
      <4> QED BY <4>2, <4>3
    <3> QED BY <3>2, <3>3
  <2>5. \A e, f \in content' : Key(e) = Key(f) => e = f
    BY <2>1 DEF InsertOK
  <2> QED BY <1>6, <1>7, <1>8, <1>9, <1>10, <2>3, <2>4, <2>5 DEF InsertOK
<1> QED BY <1>13, <1>14

LEMMA ProbeKeeps ==
  ASSUME Params, TypeOK, InsertOK, NEW p \in Procs, Probe(p)
  PROVE  TypeOK' /\ InsertOK'
<1> DEFINE v == me[p].v
           i == me[p].i
           c == TA[i]
<1>1. /\ me[p].pc = "probe" /\ me[p] \in Locals /\ v \in Elements /\ i \in Cells /\ c \in Slots
      /\ Carries(p) /\ Reached(TA, Key(v), i)
      /\ Key(v) \in Keys /\ v \in Keys \X Nat /\ Holding(v)
  <2>1. me[p].pc = "probe" /\ me[p] \in Locals /\ i \in Cells
    BY DEF Probe, TypeOK, Locals
  <2>2. Carries(p) /\ c \in Slots
    BY <2>1 DEF Carries, TypeOK
  <2>3. v \in Elements /\ Reached(TA, Key(v), i)
    BY <2>2 DEF InsertOK
  <2> QED BY <2>1, <2>2, <2>3, KeyTypes DEF Holding
<1>2. TA' = TA /\ phase' = phase /\ content' = content
  BY DEF Probe
<1>3. ASSUME NEW l \in Locals, me' = [me EXCEPT ![p] = l], l.pc \in {"idle", "probe", "cas"},
             l.pc # "idle" => l.v = v /\ Reached(TA, Key(v), l.i),
             l.pc = "cas" => (l.c # empty => Key(l.c) < Key(v) \/ (Key(l.c) = Key(v) /\ replaceQ(v, l.c))),
             l.pc = "idle" => \E f \in Elements : (\E h \in Cells : TA[h] = f) /\ Key(f) = Key(v) /\ v[2] <= f[2]
      PROVE  TypeOK' /\ InsertOK'
  <2>1. /\ me' \in [Procs -> Locals] /\ me'[p] = l /\ \A q \in Procs : q # p => me'[q] = me[q]
        /\ \A q \in Procs : me'[q].pc # "idle" => me'[q].v \in Keys \X Nat
    BY <1>1, <1>3, LocalStep
  <2>2. TypeOK'
    BY <1>2, <2>1 DEF TypeOK
  <2>3. \A q \in Procs : me'[q].pc \in {"idle", "probe", "cas"}
    BY <1>3, <2>1 DEF InsertOK
  <2>4. \A h \in Cells : TA'[h] # empty => Reached(TA', Key(TA'[h]), h)
    BY <1>2 DEF InsertOK
  <2>5. ASSUME NEW q \in Procs, Carries(q)' PROVE me'[q].v \in Elements /\ Reached(TA', Key(me'[q].v), me'[q].i)
    <3>1. CASE q = p
      BY <1>1, <1>2, <1>3, <2>1, <2>5, <3>1 DEF Carries
    <3>2. CASE q # p
      BY <1>2, <2>1, <2>5, <3>2 DEF InsertOK, Carries
    <3> QED BY <3>1, <3>2
  <2>6. ASSUME NEW q \in Procs, me'[q].pc = "cas"
        PROVE  LET m == me'[q] IN m.c # empty => Key(m.c) < Key(m.v) \/ (Key(m.c) = Key(m.v) /\ replaceQ(m.v, m.c))
    <3>1. CASE q = p
      BY <1>3, <2>1, <2>6, <3>1
    <3>2. CASE q # p
      BY <2>1, <2>6, <3>2 DEF InsertOK
    <3> QED BY <3>1, <3>2
  <2>7. ASSUME NEW e, Holding(e)' PROVE Holding(e)
    BY <1>1, <1>2, <1>3, <2>1, <2>7 DEF Holding, Carries
  <2>8. ASSUME NEW e \in content PROVE Holding(e)'
    <3>1. CASE \E h \in Cells : TA[h] = e
      BY <1>2, <3>1 DEF Holding
    <3>2. CASE \E q \in Procs : q # p /\ Carries(q) /\ me[q].v = e
      BY <2>1, <3>2 DEF Holding, Carries
    <3>3. CASE e = v
      <4>1. CASE l.pc # "idle"
        BY <1>3, <2>1, <3>3, <4>1 DEF Holding, Carries
      <4>2. CASE l.pc = "idle"
        <5>1. PICK f \in Elements : (\E h \in Cells : TA[h] = f) /\ Key(f) = Key(v) /\ v[2] <= f[2]
          BY <1>3, <4>2
        <5>2. Holding(f)
          BY <5>1 DEF Holding
        <5>3. PICK g \in content : Key(g) = Key(f) /\ f[2] <= g[2]
          BY <5>2 DEF InsertOK
        <5>4. g = v
          BY <2>8, <3>3, <5>1, <5>3 DEF InsertOK
        <5>5. f = v
          BY <1>1, <5>1, <5>3, <5>4, KeyTypes
        <5> QED BY <1>2, <3>3, <5>1, <5>5 DEF Holding
      <4> QED BY <4>1, <4>2
    <3>4. Holding(e)
      BY DEF InsertOK
    <3> QED BY <3>1, <3>2, <3>3, <3>4 DEF Holding
  <2>9. \A e \in Elements : Holding(e)' => \E f \in content' : Key(f) = Key(e) /\ e[2] <= f[2]
    BY <1>2, <2>7 DEF InsertOK
  <2>10. \A e, f \in content' : Key(e) = Key(f) => e = f
    BY <1>2 DEF InsertOK
  <2> QED BY <1>2, <2>2, <2>3, <2>4, <2>5, <2>6, <2>8, <2>9, <2>10 DEF InsertOK
<1>4. CASE Against(Key(v), c) = 0 /\ ~replaceQ(v, c) /\ Return(p)
  <2>1. c \in Elements /\ Key(c) = Key(v)
    BY <1>1, <1>4, AgainstFacts
  <2>2. v[2] <= c[2]
    BY <1>1, <1>4, <2>1, KeyTypes DEF replaceQ
  <2>3. me' = [me EXCEPT ![p] = Idle]
    BY <1>4 DEF Return
  <2> HIDE DEF v, c
  <2> QED BY <1>1, <1>3, <2>1, <2>2, <2>3, IdleType DEF c
<1>5. CASE Against(Key(v), c) < 0 /\ Goto(p, [me[p] EXCEPT !.i = incrementIndex(@)], "probe")
  <2> DEFINE l == [[me[p] EXCEPT !.i = incrementIndex(i)] EXCEPT !.pc = "probe"]
  <2>1. incrementIndex(i) \in Cells
    BY <1>1, Around
  <2>2. l \in Locals /\ l.pc = "probe" /\ l.v = v /\ l.i = incrementIndex(i)
    BY <1>1, <2>1 DEF Locals, PCs
  <2>3. me' = [me EXCEPT ![p] = l]
    BY <1>5 DEF Goto
  <2>4. Above(c, Key(v))
    BY <1>1, <1>5, AgainstFacts
  <2>5. firstIndex(Key(v)) \in Cells
    BY <1>1, KeyTypes
  <2>6. Reached(TA, Key(v), incrementIndex(i))
    <3> SUFFICES ASSUME NEW q \in Cells, Dist(firstIndex(Key(v)), q) < Dist(firstIndex(Key(v)), incrementIndex(i))
                 PROVE  Above(TA[q], Key(v))
      BY DEF Reached
    <3>1. q = i \/ Dist(firstIndex(Key(v)), q) < Dist(firstIndex(Key(v)), i)
      BY <1>1, <2>5, DistPositive
    <3> QED BY <1>1, <2>4, <3>1 DEF Reached
  <2> HIDE DEF v, c, l, i
  <2> QED BY <1>1, <1>3, <2>2, <2>3, <2>6
<1>6. CASE /\ Against(Key(v), c) = 0 => replaceQ(v, c)
           /\ Against(Key(v), c) >= 0
           /\ Goto(p, [me[p] EXCEPT !.c = c], "cas")
  <2> DEFINE l == [[me[p] EXCEPT !.c = c] EXCEPT !.pc = "cas"]
  <2>1. l \in Locals /\ l.pc = "cas" /\ l.v = v /\ l.i = i /\ l.c = c
    BY <1>1 DEF Locals, PCs
  <2>2. me' = [me EXCEPT ![p] = l]
    BY <1>6 DEF Goto
  <2>3. c # empty => Key(c) < Key(v) \/ (Key(c) = Key(v) /\ replaceQ(v, c))
    BY <1>1, <1>6, AgainstFacts DEF Above
  <2> HIDE DEF v, c, l, i
  <2> QED BY <1>1, <1>3, <2>1, <2>2, <2>3
<1> QED BY <1>4, <1>5, <1>6 DEF Probe

LEMMA InsertCasKeeps ==
  ASSUME Params, TypeOK, InsertOK, NEW p \in Procs, InsertCas(p)
  PROVE  TypeOK' /\ InsertOK'
<1> DEFINE v == me[p].v
           i == me[p].i
           c == me[p].c
           same == c # empty /\ Key(c) = Key(v)
<1>1. /\ me[p].pc = "cas" /\ me[p] \in Locals /\ v \in Elements /\ i \in Cells /\ c \in Slots
      /\ Carries(p) /\ Reached(TA, Key(v), i)
      /\ Key(v) \in Keys /\ Key(v) \in Nat /\ v \in Keys \X Nat /\ Holding(v)
      /\ c # empty => c \in Elements /\ Key(c) \in Keys /\ Key(c) \in Nat /\ c \in Keys \X Nat
      /\ c # empty => Key(c) < Key(v) \/ (Key(c) = Key(v) /\ replaceQ(v, c))
      /\ firstIndex(Key(v)) \in Cells
  <2>1. me[p].pc = "cas" /\ me[p] \in Locals /\ i \in Cells /\ c \in Slots
    BY DEF InsertCas, TypeOK, Locals
  <2>2. Carries(p)
    BY <2>1 DEF Carries
  <2>3. /\ v \in Elements /\ Reached(TA, Key(v), i)
        /\ c # empty => Key(c) < Key(v) \/ (Key(c) = Key(v) /\ replaceQ(v, c))
    BY <2>1, <2>2 DEF InsertOK
  <2>4. c # empty => c \in Elements
    BY <2>1 DEF Slots
  <2> QED BY <2>1, <2>2, <2>3, <2>4, KeyTypes DEF Holding
<1>2. phase' = phase /\ content' = content
  BY DEF InsertCas
<1> DEFINE lost == [[me[p] EXCEPT !.c = empty] EXCEPT !.pc = "probe"]
           next == [[me[p] EXCEPT !.v = c, !.i = incrementIndex(i), !.c = empty] EXCEPT !.pc = "probe"]
<1>3. lost \in Locals /\ lost.pc = "probe" /\ lost.v = v /\ lost.i = i
  BY <1>1 DEF Locals, PCs, Slots
<1>4. c # empty => next \in Locals /\ next.pc = "probe" /\ next.v = c /\ next.i = incrementIndex(i)
  BY <1>1, Around DEF Locals, PCs, Slots
<1>5. \/ TA' = TA /\ me' = [me EXCEPT ![p] = lost]
      \/ /\ TA[i] = c /\ TA' = [TA EXCEPT ![i] = v]
         /\ c = empty \/ Key(c) = Key(v)
         /\ me' = [me EXCEPT ![p] = Idle]
      \/ /\ TA[i] = c /\ TA' = [TA EXCEPT ![i] = v]
         /\ c # empty /\ Key(c) # Key(v)
         /\ me' = [me EXCEPT ![p] = next]
  <2>1. same => update(c, v) = v
    <3> SUFFICES ASSUME same PROVE update(c, v) = v
      OBVIOUS
    <3>1. v[2] > c[2]
      BY <1>1 DEF replaceQ
    <3>2. update(c, v) = <<Key(v), v[2]>>
      BY <3>1 DEF update
    <3> QED BY <1>1, <3>2, KeyTypes
  <2>2. (IF same /\ phase = "update" THEN update(c, v) ELSE v) = v
    BY <2>1
  <2>3. CASE TA[i] # c
    <3>1. TA' = TA /\ me' = [me EXCEPT ![p] = lost]
      BY <2>3 DEF InsertCas, Goto
    <3> QED BY <3>1
  <2>4. CASE TA[i] = c
    <3>1. TA' = [TA EXCEPT ![i] = IF same /\ phase = "update" THEN update(c, v) ELSE v]
      BY <2>4 DEF InsertCas
    <3>2. TA' = [TA EXCEPT ![i] = v]
      BY <2>2, <3>1
    <3>3. CASE c = empty \/ same
      <4>1. me' = [me EXCEPT ![p] = Idle]
        BY <2>4, <3>3 DEF InsertCas, Return
      <4> QED BY <2>4, <3>2, <3>3, <4>1
    <3>4. CASE ~(c = empty \/ same)
      <4>1. me' = [me EXCEPT ![p] = next]
        BY <2>4, <3>4 DEF InsertCas, Goto
      <4> QED BY <2>4, <3>2, <3>4, <4>1
    <3> QED BY <3>3, <3>4
  <2> QED BY <2>3, <2>4
<1> HIDE DEF lost, next
<1>6. CASE TA' = TA /\ me' = [me EXCEPT ![p] = lost]
  <2>1. /\ me' \in [Procs -> Locals] /\ me'[p] = lost /\ \A q \in Procs : q # p => me'[q] = me[q]
        /\ \A q \in Procs : me'[q].pc # "idle" => me'[q].v \in Keys \X Nat
    BY <1>1, <1>3, <1>6, LocalStep
  <2>2. TypeOK'
    BY <1>2, <1>6, <2>1 DEF TypeOK
  <2>3. \A q \in Procs : me'[q].pc \in {"idle", "probe", "cas"}
    BY <1>3, <2>1 DEF InsertOK
  <2>4. \A h \in Cells : TA'[h] # empty => Reached(TA', Key(TA'[h]), h)
    BY <1>6 DEF InsertOK
  <2>5. ASSUME NEW q \in Procs, Carries(q)' PROVE me'[q].v \in Elements /\ Reached(TA', Key(me'[q].v), me'[q].i)
    <3>1. CASE q = p
      BY <1>1, <1>3, <1>6, <2>1, <3>1
    <3>2. CASE q # p
      BY <1>6, <2>1, <2>5, <3>2 DEF InsertOK, Carries
    <3> QED BY <3>1, <3>2
  <2>6. ASSUME NEW q \in Procs, me'[q].pc = "cas"
        PROVE  LET m == me'[q] IN m.c # empty => Key(m.c) < Key(m.v) \/ (Key(m.c) = Key(m.v) /\ replaceQ(m.v, m.c))
    BY <1>3, <2>1, <2>6 DEF InsertOK
  <2>7. ASSUME NEW e PROVE Holding(e)' <=> Holding(e)
    BY <1>1, <1>3, <1>6, <2>1 DEF Holding, Carries
  <2> QED BY <1>2, <2>2, <2>3, <2>4, <2>5, <2>6, <2>7 DEF InsertOK
<1>7. ASSUME TA[i] = c, TA' = [TA EXCEPT ![i] = v],
             NEW l \in Locals, me' = [me EXCEPT ![p] = l],
             \/ l.pc = "idle" /\ (c = empty \/ Key(c) = Key(v))
             \/ c # empty /\ Key(c) # Key(v) /\ l.pc = "probe" /\ l.v = c /\ l.i = incrementIndex(i)
      PROVE  TypeOK' /\ InsertOK'
  <2>0. l.pc # "idle" => l.v \in Keys \X Nat
    BY <1>1, <1>7
  <2>1. /\ me' \in [Procs -> Locals] /\ me'[p] = l /\ \A q \in Procs : q # p => me'[q] = me[q]
        /\ \A q \in Procs : me'[q].pc # "idle" => me'[q].v \in Keys \X Nat
    BY <1>7, <2>0, LocalStep
  <2>2. TA' \in [Cells -> Slots] /\ TA'[i] = v /\ \A h \in Cells : h # i => TA'[h] = TA[h]
    BY <1>1, <1>7 DEF TypeOK, Slots
  <2>3. TypeOK'
    BY <1>2, <2>1, <2>2 DEF TypeOK
  <2>4. \A q \in Procs : me'[q].pc \in {"idle", "probe", "cas"}
    BY <1>7, <2>1 DEF InsertOK
  <2>5. ASSUME NEW q \in Cells, NEW k \in Nat, Above(TA[q], k) PROVE Above(TA'[q], k)
    <3>1. CASE q = i
      <4>1. v # empty
        BY <1>1, KeyTypes
      <4> QED BY <1>1, <1>7, <2>2, <2>5, <3>1, <4>1 DEF Above
    <3>2. CASE q # i
      BY <2>2, <2>5, <3>2
    <3> QED BY <3>1, <3>2
  <2>6. ASSUME NEW k \in Nat, NEW h, Reached(TA, k, h) PROVE Reached(TA', k, h)
    BY <2>5, <2>6 DEF Reached
  <2>7. ASSUME NEW h \in Cells, TA'[h] # empty PROVE Reached(TA', Key(TA'[h]), h)
    <3>1. CASE h = i
      BY <1>1, <2>2, <2>6, <3>1
    <3>2. CASE h # i
      <4>1. TA'[h] = TA[h] /\ Reached(TA, Key(TA[h]), h) /\ TA[h] \in Elements
        BY <2>2, <2>7, <3>2 DEF InsertOK, TypeOK, Slots
      <4>2. Key(TA[h]) \in Nat
        BY <4>1, KeyTypes
      <4> QED BY <2>6, <4>1, <4>2
    <3> QED BY <3>1, <3>2
  <2>8. ASSUME NEW q \in Procs, Carries(q)' PROVE me'[q].v \in Elements /\ Reached(TA', Key(me'[q].v), me'[q].i)
    <3>1. CASE q = p
      <4>1. me'[q] = l /\ l.v = c /\ l.i = incrementIndex(i) /\ c \in Elements /\ Key(c) < Key(v)
        BY <1>1, <1>7, <2>1, <2>8, <3>1 DEF Carries
      <4>2. Reached(TA, Key(c), i)
        BY <1>1, <1>7, <4>1, KeyTypes DEF InsertOK
      <4>3. Reached(TA', Key(c), i) /\ Above(TA'[i], Key(c)) /\ firstIndex(Key(c)) \in Cells
        <5>1. v # empty /\ c # empty
          BY <1>1, <4>1, KeyTypes
        <5> QED BY <1>1, <2>2, <2>6, <4>1, <4>2, <5>1, KeyTypes DEF Above
      <4>4. Reached(TA', Key(c), incrementIndex(i))
        <5> SUFFICES ASSUME NEW g \in Cells, Dist(firstIndex(Key(c)), g) < Dist(firstIndex(Key(c)), incrementIndex(i))
                     PROVE  Above(TA'[g], Key(c))
          BY DEF Reached
        <5>1. g = i \/ Dist(firstIndex(Key(c)), g) < Dist(firstIndex(Key(c)), i)
          BY <1>1, <4>3, DistPositive
        <5> QED BY <4>3, <5>1 DEF Reached
      <4> QED BY <4>1, <4>4
    <3>2. CASE q # p
      <4>1. me'[q] = me[q] /\ me[q].v \in Elements /\ Reached(TA, Key(me[q].v), me[q].i)
        BY <2>1, <2>8, <3>2 DEF InsertOK, Carries
      <4> QED BY <2>6, <4>1, KeyTypes
    <3> QED BY <3>1, <3>2
  <2>9. ASSUME NEW q \in Procs, me'[q].pc = "cas"
        PROVE  LET m == me'[q] IN m.c # empty => Key(m.c) < Key(m.v) \/ (Key(m.c) = Key(m.v) /\ replaceQ(m.v, m.c))
    <3>1. q # p /\ me'[q] = me[q]
      BY <1>7, <2>1, <2>9
    <3> QED BY <2>9, <3>1 DEF InsertOK
  <2>10. c # empty => Holding(c) /\ TA[i] = c
    BY <1>1, <1>7 DEF Holding
  <2>11. ASSUME NEW e, Holding(e)' PROVE Holding(e)
    <3>1. CASE \E h \in Cells : TA'[h] = e
      <4> PICK h \in Cells : TA'[h] = e
        BY <3>1
      <4>1. CASE h = i
        BY <1>1, <2>2, <4>1
      <4>2. CASE h # i
        BY <2>2, <4>2 DEF Holding
      <4> QED BY <4>1, <4>2
    <3>2. CASE \E q \in Procs : Carries(q)' /\ me'[q].v = e
      <4> PICK q \in Procs : Carries(q)' /\ me'[q].v = e
        BY <3>2
      <4>1. CASE q = p
        BY <1>7, <2>1, <2>10, <4>1 DEF Carries
      <4>2. CASE q # p
        BY <2>1, <4>2 DEF Holding, Carries
      <4> QED BY <4>1, <4>2
    <3> QED BY <2>11, <3>1, <3>2 DEF Holding
  <2>12. ASSUME NEW e \in content PROVE Holding(e)'
    <3>0. e \in Elements /\ e # empty
      BY KeyTypes DEF TypeOK
    <3>1. CASE e = v
      BY <1>1, <2>2, <3>1 DEF Holding
    <3>2. CASE e # v /\ e = c
      <4>1. CASE l.pc = "idle"
        <5>1. Key(c) = Key(v) /\ replaceQ(v, c)
          BY <1>1, <1>7, <3>0, <3>2, <4>1
        <5>2. PICK f \in content : Key(f) = Key(v) /\ v[2] <= f[2]
          BY <1>1 DEF InsertOK
        <5>3. f = e
          BY <2>12, <3>2, <5>1, <5>2 DEF InsertOK
        <5>4. v[2] \in Nat /\ c[2] \in Nat
          BY <1>1, <3>0, <3>2, KeyTypes
        <5> QED BY <3>2, <5>1, <5>2, <5>3, <5>4 DEF replaceQ
      <4>2. CASE l.pc # "idle"
        BY <1>7, <2>1, <3>2, <4>2 DEF Holding, Carries
      <4> QED BY <4>1, <4>2
    <3>3. CASE e # v /\ e # c
      <4>1. CASE \E h \in Cells : TA[h] = e
        <5> PICK h \in Cells : TA[h] = e
          BY <4>1
        <5>1. h # i
          BY <1>7, <3>3
        <5> QED BY <2>2, <5>1 DEF Holding
      <4>2. CASE \E q \in Procs : Carries(q) /\ me[q].v = e
        <5> PICK q \in Procs : Carries(q) /\ me[q].v = e
          BY <4>2
        <5>1. q # p
          BY <3>3
        <5> QED BY <2>1, <5>1 DEF Holding, Carries
      <4> QED BY <2>12, <4>1, <4>2 DEF InsertOK, Holding
    <3> QED BY <3>1, <3>2, <3>3
  <2>13. \A e \in Elements : Holding(e)' => \E f \in content' : Key(f) = Key(e) /\ e[2] <= f[2]
    BY <1>2, <2>11 DEF InsertOK
  <2>14. \A e, f \in content' : Key(e) = Key(f) => e = f
    BY <1>2 DEF InsertOK
  <2> QED BY <1>2, <2>3, <2>4, <2>7, <2>8, <2>9, <2>12, <2>13, <2>14 DEF InsertOK
<1> HIDE DEF v, i, c
<1> QED BY <1>4, <1>5, <1>6, <1>7, IdleType

-----------------------------------------------------------------------------
(* Deletion. An element that moves up is in the table twice, until the     *)
(* thread that moved it has deleted the old copy.  Of the copies of a key  *)
(* the lowest may be the root, which stands where a search finds it; each  *)
(* other is that of one thread, its deleter, which has not passed it.  The *)
(* root goes when its key has been deleted: the last call that comes down  *)
(* to it is its deleter then.                                              *)
Busy        == {"match", "scan", "rescan", "replace", "reread"}
Deleting(l) == l.pc \in Busy
Misses(l)   == l.c = empty \/ Key(l.c) # Key(l.v)
Place(r, l) == IF l.pc = "match" /\ Misses(l) THEN r[l.j] - 1 ELSE r[l.j]
Kept(w, e)  == e # empty => e[2] = w[Key(e)]
Full(h)     == TA[h] # empty
KeyAt(h)    == Key(TA[h])

SlotsOK(r, F, w) ==
  \A h \in Cells : Full(h) => h \in F /\ Run(r, F, firstIndex(KeyAt(h)), h) /\ Kept(w, TA[h])

(* A thread looks at cells between the hash of its key and the first empty *)
(* cell only; the element it moves up may move there.                      *)
LocalOK(r, F, w, l) ==
  /\ l.pc \in Busy \cup {"down"}
  /\ l.i = firstIndex(Key(l.v)) /\ Run(r, F, l.i, l.j)
  /\ l.c # empty => l.j \in F /\ Kept(w, l.c)
  /\ l.pc \in {"scan", "rescan", "replace"} =>
       /\ ~Misses(l) /\ r[l.j] < r[l.jj] /\ Run(r, F, l.j, l.jj)
       /\ l.x # empty => l.jj \in F /\ Run(r, F, firstIndex(Key(l.x)), l.jj) /\ Kept(w, l.x)
  /\ l.pc \in {"rescan", "replace"} /\ l.x # empty => r[firstIndex(Key(l.x))] <= r[l.j]
  /\ l.pc = "rescan" => r[l.j] <= r[l.jjj] /\ r[l.jjj] < r[l.jj]
LocalsOK(r, F, w) == \A p \in Procs : me[p].pc # "idle" => LocalOK(r, F, w, me[p])

Wanted(h)   == TA[h] \in content \/ \E p \in Procs : me[p].pc = "down" /\ Key(me[p].v) = KeyAt(h)
RootsOK(r, R) ==
  \A h \in R :
    /\ h \in Cells /\ Full(h) /\ Wanted(h)
    /\ \A q \in Cells : Full(q) /\ KeyAt(q) = KeyAt(h) => r[h] <= r[q]
    /\ \A q \in Cells : r[firstIndex(KeyAt(h))] <= r[q] /\ r[q] < r[h] => Above(TA[q], KeyAt(h))
CopiesOK(r, R, g) ==
  \A h \in Cells \ R : Full(h) =>
    /\ g[h] \in Procs /\ Deleting(me[g[h]])
    /\ Key(me[g[h]].v) = KeyAt(h) /\ r[h] <= Place(r, me[g[h]])
    /\ \A q \in Cells \ R : Full(q) /\ g[q] = g[h] => q = h
ContentOK(w, R, g) ==
  \A e \in content :
    /\ Kept(w, e) /\ \E h \in R : TA[h] = e
    /\ \A p \in Procs : me[p].pc # "idle" /\ Key(me[p].v) = Key(e) =>
         Deleting(me[p]) /\ \E h \in Cells \ R : Full(h) /\ KeyAt(h) = Key(e) /\ g[h] = p

(* Of the roots that would not be found if cell j were empty, those from   *)
(* the cell on that has been scanned are no higher than the element to be  *)
(* moved up, or are that element's.                                        *)
From(r, l) == CASE l.pc = "scan" -> r[l.jj] [] l.pc = "rescan" -> r[l.jjj] + 1 [] OTHER -> r[l.j] + 1
FillOK(r, R, cells, l) ==
  l.pc \in {"scan", "rescan", "replace"} =>
    \A h \in R :
      LET k == Key(cells[h]) IN
      r[firstIndex(k)] <= r[l.j] /\ r[l.j] < r[h] /\ From(r, l) <= r[h] =>
        l.x # empty /\ k <= Key(l.x) /\ (k = Key(l.x) => r[h] <= r[l.jj])

(* A search that has come down has come to the root, or is past it.        *)
DownOK(r, R, cells, l) ==
  l.pc = "down" =>
    \A h \in R : Key(cells[h]) = Key(l.v) /\ ~Above(l.c, Key(l.v)) =>
      r[h] <= r[l.j] /\ (Misses(l) => r[h] < r[l.j])

Frame(r, F, w, R, g) ==
  /\ Line(r, F) /\ Short(r, F) /\ SlotsOK(r, F, w) /\ LocalsOK(r, F, w)
  /\ RootsOK(r, R) /\ CopiesOK(r, R, g) /\ ContentOK(w, R, g)
  /\ \A p \in Procs : FillOK(r, R, TA, me[p]) /\ DownOK(r, R, TA, me[p])
DeleteOK == \E r, F, w, R, g : Frame(r, F, w, R, g)

LEMMA CellFacts ==
  ASSUME Params, TypeOK, NEW r, NEW F, NEW w, NEW R, NEW g, Frame(r, F, w, R, g)
  PROVE  /\ M \in Nat /\ M > 0 /\ F \subseteq Cells /\ R \subseteq Cells
         /\ \A h \in Cells : r[h] \in Nat /\ r[h] < M /\ TA[h] \in Slots
         /\ \A a, h \in Cells : r[a] = r[h] => a = h
         /\ \A h \in Cells : Full(h) =>
              /\ TA[h] \in Elements /\ KeyAt(h) \in Keys /\ KeyAt(h) \in Nat /\ TA[h][2] = w[KeyAt(h)]
              /\ firstIndex(KeyAt(h)) \in Cells /\ h \in F /\ Run(r, F, firstIndex(KeyAt(h)), h)
              /\ r[firstIndex(KeyAt(h))] <= r[h]
<1>1. /\ M \in Nat /\ M > 0 /\ F \subseteq Cells /\ r \in [Cells -> Cells]
      /\ \A a, h \in Cells : r[a] = r[h] => a = h
  BY LineFacts DEF Frame
<1>2. R \subseteq Cells
  BY DEF Frame, RootsOK
<1>3. \A h \in Cells : r[h] \in Nat /\ r[h] < M /\ TA[h] \in Slots
  BY <1>1 DEF TypeOK, Cells
<1>4. ASSUME NEW h \in Cells, Full(h)
      PROVE  /\ TA[h] \in Elements /\ KeyAt(h) \in Keys /\ KeyAt(h) \in Nat /\ TA[h][2] = w[KeyAt(h)]
             /\ firstIndex(KeyAt(h)) \in Cells /\ h \in F /\ Run(r, F, firstIndex(KeyAt(h)), h)
             /\ r[firstIndex(KeyAt(h))] <= r[h]
  <2>1. TA[h] \in Elements
    BY <1>3, <1>4 DEF Slots, Full
  <2>2. KeyAt(h) \in Keys /\ KeyAt(h) \in Nat /\ firstIndex(KeyAt(h)) \in Cells
    BY <2>1, KeyTypes DEF KeyAt
  <2>3. h \in F /\ Run(r, F, firstIndex(KeyAt(h)), h) /\ TA[h][2] = w[KeyAt(h)]
    BY <1>4 DEF Frame, SlotsOK, Kept, KeyAt, Full
  <2> QED BY <2>1, <2>2, <2>3 DEF Run
<1> QED BY <1>1, <1>2, <1>3, <1>4

(* A step of one thread that leaves table and key alone.                   *)
LEMMA SameKeyStep ==
  ASSUME Params, TypeOK, NEW r, NEW F, NEW w, NEW R, NEW g, Frame(r, F, w, R, g),
         NEW p \in Procs, NEW l \in Locals, me' = [me EXCEPT ![p] = l],
         TA' = TA, content' = content, phase' = phase,
         me[p].pc # "idle", l.v \in Keys \X Nat, Key(l.v) = Key(me[p].v), me[p].pc = "down" <=> l.pc = "down",
         LocalOK(r, F, w, l), FillOK(r, R, TA, l), DownOK(r, R, TA, l),
         \A h \in Cells \ R : Full(h) /\ g[h] = p => r[h] <= Place(r, l)
  PROVE  TypeOK' /\ Frame(r, F, w, R, g)'
<1>0. l.v \in Keys \X Nat /\ l.pc # "idle" /\ (Deleting(l) <=> Deleting(me[p]))
  <2>1. l.pc \in Busy \cup {"down"} /\ me[p].pc \in Busy \cup {"down"}
    BY DEF LocalOK, Frame, LocalsOK
  <2> QED BY <2>1 DEF TypeOK, Busy, Deleting
<1>1. /\ me' \in [Procs -> Locals] /\ me'[p] = l /\ \A q \in Procs : q # p => me'[q] = me[q]
      /\ \A q \in Procs : me'[q].pc # "idle" => me'[q].v \in Keys \X Nat
  BY <1>0, LocalStep
<1>2. TypeOK'
  BY <1>1 DEF TypeOK
<1>3. \A h : (Full(h)' <=> Full(h)) /\ KeyAt(h)' = KeyAt(h)
  BY DEF Full, KeyAt
<1>4. SlotsOK(r, F, w)'
  BY <1>3 DEF Frame, SlotsOK
<1>5. LocalsOK(r, F, w)'
  BY <1>1 DEF Frame, LocalsOK
<1>6. RootsOK(r, R)'
  <2>1. ASSUME NEW h \in R PROVE Wanted(h)'
    <3>1. Wanted(h)
      BY DEF Frame, RootsOK
    <3>2. CASE TA[h] \in content
      BY <3>2 DEF Wanted
    <3>3. CASE \E q \in Procs : me[q].pc = "down" /\ Key(me[q].v) = KeyAt(h)
      <4> PICK q \in Procs : me[q].pc = "down" /\ Key(me[q].v) = KeyAt(h)
        BY <3>3
      <4>1. me'[q].pc = "down" /\ Key(me'[q].v) = Key(me[q].v)
        BY <1>1
      <4> QED BY <1>3, <4>1 DEF Wanted
    <3> QED BY <3>1, <3>2, <3>3 DEF Wanted
  <2> QED BY <1>3, <2>1 DEF Frame, RootsOK
<1>7. CopiesOK(r, R, g)'
  <2> SUFFICES ASSUME NEW h \in Cells \ R, Full(h)
               PROVE  /\ g[h] \in Procs /\ Deleting(me'[g[h]])
                      /\ Key(me'[g[h]].v) = KeyAt(h) /\ r[h] <= Place(r, me'[g[h]])
                      /\ \A q \in Cells \ R : Full(q) /\ g[q] = g[h] => q = h
    BY <1>3 DEF CopiesOK
  <2>1. /\ g[h] \in Procs /\ Deleting(me[g[h]])
        /\ Key(me[g[h]].v) = KeyAt(h) /\ r[h] <= Place(r, me[g[h]])
        /\ \A q \in Cells \ R : Full(q) /\ g[q] = g[h] => q = h
    BY DEF Frame, CopiesOK
  <2> QED BY <1>0, <1>1, <2>1
<1>8. ContentOK(w, R, g)'
  <2> SUFFICES ASSUME NEW e \in content
               PROVE  /\ Kept(w, e) /\ \E h \in R : TA[h] = e
                      /\ \A q \in Procs : me'[q].pc # "idle" /\ Key(me'[q].v) = Key(e) =>
                           Deleting(me'[q]) /\ \E h \in Cells \ R : Full(h) /\ KeyAt(h) = Key(e) /\ g[h] = q
    BY <1>3 DEF ContentOK
  <2>1. /\ Kept(w, e) /\ \E h \in R : TA[h] = e
        /\ \A q \in Procs : me[q].pc # "idle" /\ Key(me[q].v) = Key(e) =>
             Deleting(me[q]) /\ \E h \in Cells \ R : Full(h) /\ KeyAt(h) = Key(e) /\ g[h] = q
    BY DEF Frame, ContentOK
  <2> QED BY <1>0, <1>1, <2>1
<1>9. \A q \in Procs : FillOK(r, R, TA', me'[q]) /\ DownOK(r, R, TA', me'[q])
  BY <1>1 DEF Frame
<1> QED BY <1>2, <1>4, <1>5, <1>6, <1>7, <1>8, <1>9 DEF Frame

LEMMA OwnStep ==
  ASSUME Params, TypeOK, NEW r, NEW F, NEW w, NEW R, NEW g, Frame(r, F, w, R, g),
         NEW p \in Procs, NEW l \in Locals, me' = [me EXCEPT ![p] = l],
         TA' = TA, content' = content, phase' = phase,
         me[p].pc # "idle", l.v = me[p].v, me[p].pc = "down" <=> l.pc = "down",
         LocalOK(r, F, w, l), FillOK(r, R, TA, l), DownOK(r, R, TA, l),
         \A h \in Cells \ R : Full(h) /\ g[h] = p => r[h] <= Place(r, l)
  PROVE  TypeOK' /\ Frame(r, F, w, R, g)'
<1>1. me[p].v \in Keys \X Nat
  BY DEF TypeOK
<1> QED BY <1>1, SameKeyStep

LEMMA OwnFacts ==
  ASSUME Params, TypeOK, NEW r, NEW F, NEW w, NEW R, NEW g, Frame(r, F, w, R, g),
         NEW p \in Procs, me[p].pc # "idle"
  PROVE  LET l == me[p] IN
         /\ l \in Locals /\ LocalOK(r, F, w, l) /\ FillOK(r, R, TA, l) /\ DownOK(r, R, TA, l)
         /\ l.v \in Keys \X Nat /\ Key(l.v) \in Keys /\ Key(l.v) \in Nat
         /\ l.i \in Cells /\ l.j \in Cells /\ l.jj \in Cells /\ l.jjj \in Cells
         /\ l.c \in Slots /\ l.x \in Slots
         /\ l.c # empty => l.c \in Elements /\ Key(l.c) \in Keys /\ Key(l.c) \in Nat
         /\ l.x # empty => l.x \in Elements /\ Key(l.x) \in Keys /\ Key(l.x) \in Nat /\ firstIndex(Key(l.x)) \in Cells
<1>1. me[p] \in Locals /\ me[p].v \in Keys \X Nat
  BY DEF TypeOK
<1>2. LocalOK(r, F, w, me[p]) /\ FillOK(r, R, TA, me[p]) /\ DownOK(r, R, TA, me[p])
  BY DEF Frame, LocalsOK
<1>3. Key(me[p].v) \in Keys /\ Key(me[p].v) \in Nat
  BY <1>1, KeyTypes
<1>4. me[p].i \in Cells /\ me[p].j \in Cells /\ me[p].jj \in Cells /\ me[p].jjj \in Cells
      /\ me[p].c \in Slots /\ me[p].x \in Slots
  BY <1>1 DEF Locals
<1>5. \A e \in Slots : e # empty => e \in Elements /\ Key(e) \in Keys /\ Key(e) \in Nat /\ firstIndex(Key(e)) \in Cells
  BY KeyTypes DEF Slots
<1> QED BY <1>1, <1>2, <1>3, <1>4, <1>5

(* One cell up from a full one.                                            *)
LEMMA StepUp ==
  ASSUME Params, NEW r, NEW F, Line(r, F), NEW a \in Cells, NEW j \in Cells, Run(r, F, a, j), j \in F
  PROVE  incrementIndex(j) \in Cells /\ r[incrementIndex(j)] = r[j] + 1 /\ Run(r, F, a, incrementIndex(j))
<1>1. /\ r \in [Cells -> Cells] /\ M \in Nat
      /\ \A b, h \in Cells : r[b] = r[h] => b = h
      /\ \A h \in Cells : h \in F => r[h] < M - 1
      /\ \A h \in Cells : r[h] < M - 1 => r[incrementIndex(h)] = r[h] + 1
  BY LineFacts
<1>2. incrementIndex(j) \in Cells /\ r[incrementIndex(j)] = r[j] + 1
  BY <1>1, Around
<1>3. \A h \in Cells : r[h] \in Nat
  BY LineFacts
<1>4. ASSUME NEW q \in Cells, r[a] <= r[q], r[q] < r[j] + 1 PROVE q \in F
  <2>1. r[q] < r[j] \/ r[q] = r[j]
    BY <1>3, <1>4
  <2> QED BY <1>1, <1>4, <2>1 DEF Run
<1>5. r[a] <= r[j] + 1
  BY <1>3 DEF Run
<1> HIDE DEF incrementIndex
<1> QED BY <1>2, <1>4, <1>5 DEF Run

(* One cell down.                                                          *)
LEMMA StepDown ==
  ASSUME Params, NEW r, NEW F, Line(r, F), NEW a \in Cells, NEW j \in Cells, Run(r, F, a, j), a # j
  PROVE  decrementIndex(j) \in Cells /\ r[decrementIndex(j)] = r[j] - 1 /\ Run(r, F, a, decrementIndex(j))
<1>1. /\ r \in [Cells -> Cells] /\ M \in Nat
      /\ \A b, h \in Cells : r[b] = r[h] => b = h
      /\ \A h \in Cells : r[h] > 0 => r[decrementIndex(h)] = r[h] - 1
  BY LineFacts
<1>2. \A h \in Cells : r[h] \in Nat
  BY LineFacts
<1>3. r[a] < r[j]
  BY <1>1, <1>2 DEF Run
<1>4. decrementIndex(j) \in Cells /\ r[decrementIndex(j)] = r[j] - 1
  BY <1>1, <1>2, <1>3, Around
<1>5. \A q \in Cells : r[a] <= r[q] /\ r[q] < r[j] - 1 => q \in F
  BY <1>2 DEF Run
<1>6. r[a] <= r[j] - 1
  BY <1>2, <1>3
<1> HIDE DEF decrementIndex
<1> QED BY <1>4, <1>5, <1>6 DEF Run

(* What is between a root and the hash of its key is of higher priority.   *)
LEMMA Look ==
  ASSUME Params, TypeOK, NEW r, NEW F, NEW w, NEW R, NEW g, Frame(r, F, w, R, g),
         NEW h \in R, NEW n \in Cells, r[firstIndex(KeyAt(h))] <= r[n], r[n] <= r[h]
  PROVE  Full(n) /\ KeyAt(h) <= KeyAt(n) /\ (KeyAt(h) = KeyAt(n) => h = n)
<1>1. h \in Cells /\ Full(h) /\ KeyAt(h) \in Nat /\ r[h] \in Nat /\ r[n] \in Nat
  BY CellFacts DEF Frame, RootsOK
<1>2. CASE n = h
  BY <1>1, <1>2
<1>3. CASE n # h
  <2>1. r[n] < r[h]
    BY <1>1, <1>3, CellFacts
  <2>2. Above(TA[n], KeyAt(h))
    BY <2>1 DEF Frame, RootsOK
  <2>3. Full(n) /\ KeyAt(n) > KeyAt(h)
    BY <2>2 DEF Above, Full, KeyAt
  <2>4. KeyAt(n) \in Nat
    BY <2>3, CellFacts
  <2> QED BY <1>1, <2>3, <2>4
<1> QED BY <1>2, <1>3

(* lessIndex tells whether an element may move to cell j.                  *)
LEMMA StaysMeans ==
  ASSUME Params, NEW r, NEW F, Line(r, F), Short(r, F), NEW j \in Cells, NEW n \in Cells, Run(r, F, j, n),
         NEW x \in Elements, Run(r, F, firstIndex(Key(x)), n)
  PROVE  Stays(j, x) <=> r[j] < r[firstIndex(Key(x))]
<1> DEFINE h == firstIndex(Key(x))
<1>1. h \in Cells /\ x # empty
  BY KeyTypes
<1>2. 2 * (r[n] - r[j]) < M /\ 2 * (r[n] - r[h]) < M /\ r[j] <= r[n] /\ r[h] <= r[n]
  BY <1>1 DEF Short, Run
<1>3. /\ r \in [Cells -> Cells] /\ M \in Nat
      /\ \A a, b \in Cells : 2 * (r[b] - r[a]) < M /\ 2 * (r[a] - r[b]) < M =>
              (lessIndex(a, b) <=> r[a] < r[b])
  BY LineFacts
<1>4. r[j] \in Nat /\ r[h] \in Nat /\ r[n] \in Nat
  BY <1>1, <1>3 DEF Cells
<1>5. 2 * (r[h] - r[j]) < M /\ 2 * (r[j] - r[h]) < M
  <2> HIDE DEF h
  <2> QED BY <1>2, <1>3, <1>4
<1>6. lessIndex(j, h) <=> r[j] < r[h]
  <2> HIDE DEF h
  <2> QED BY <1>1, <1>3, <1>5
<1> QED BY <1>1, <1>6 DEF Stays

(* The search down.                                                        *)
LEMMA DescendOnKeeps ==
  ASSUME Params, TypeOK, NEW r, NEW F, NEW w, NEW R, NEW g, Frame(r, F, w, R, g),
         NEW p \in Procs, Descend(p), Against(Key(me[p].v), me[p].c) < 0
  PROVE  TypeOK' /\ Frame(r, F, w, R, g)'
<1> DEFINE v == me[p].v
           j == me[p].j
           n == incrementIndex(j)
           c == TA[n]
           l == [[me[p] EXCEPT !.j = n, !.c = c] EXCEPT !.pc = "down"]
<1>0. me[p].pc = "down"
  BY DEF Descend
<1>1. /\ me[p] \in Locals /\ LocalOK(r, F, w, me[p]) /\ v \in Keys \X Nat /\ Key(v) \in Keys /\ Key(v) \in Nat
      /\ me[p].i \in Cells /\ j \in Cells /\ me[p].c \in Slots
  BY <1>0, OwnFacts
<1>2. me' = [me EXCEPT ![p] = l] /\ TA' = TA /\ content' = content /\ phase' = phase
  BY DEF Descend, Goto
<1>3. j \in F
  <2>1. Above(me[p].c, Key(v))
    BY <1>1, AgainstFacts
  <2> QED BY <1>1, <2>1 DEF Above, LocalOK
<1>4. n \in Cells /\ r[n] = r[j] + 1 /\ Run(r, F, me[p].i, n)
  BY <1>1, <1>3, StepUp DEF Frame, LocalOK
<1>5. c \in Slots
  BY <1>4 DEF TypeOK
<1>6. l \in Locals /\ l.pc = "down" /\ l.v = v /\ l.i = me[p].i /\ l.j = n /\ l.c = c
  BY <1>1, <1>4, <1>5 DEF Locals, PCs
<1> HIDE DEF l, n
<1>7. LocalOK(r, F, w, l)
  <2>1. c # empty => n \in F /\ Kept(w, c)
    BY <1>4 DEF Frame, SlotsOK, Full
  <2> QED BY <1>1, <1>4, <1>6, <2>1 DEF LocalOK
<1>8. FillOK(r, R, TA, l)
  BY <1>6 DEF FillOK
<1>9. DownOK(r, R, TA, l)
  <2> SUFFICES ASSUME NEW h \in R, Key(TA[h]) = Key(v), ~Above(c, Key(v))
               PROVE  r[h] <= r[n] /\ (Misses(l) => r[h] < r[n])
    BY <1>6 DEF DownOK
  <2>1. h \in Cells /\ Full(h) /\ KeyAt(h) = Key(v) /\ r[h] \in Nat /\ r[n] \in Nat /\ r[j] \in Nat
    BY <1>1, <1>4, CellFacts DEF Frame, RootsOK, KeyAt
  <2>2. r[firstIndex(Key(v))] <= r[n]
    BY <1>1, <1>4 DEF LocalOK, Run
  <2>3. r[h] <= r[n]
    <3> SUFFICES ASSUME r[n] < r[h] PROVE FALSE
      BY <2>1
    <3> QED BY <1>4, <2>1, <2>2 DEF Frame, RootsOK
  <2>4. ASSUME Misses(l) PROVE r[h] < r[n]
    <3>1. h # n
      BY <1>6, <2>1, <2>4 DEF Misses, Full, KeyAt
    <3> QED BY <1>4, <2>1, <2>3, <3>1, CellFacts
  <2> QED BY <2>3, <2>4
<1>10. \A h \in Cells \ R : Full(h) => g[h] # p
  BY <1>0 DEF Frame, CopiesOK, Deleting, Busy
<1> QED BY <1>0, <1>2, <1>6, <1>7, <1>8, <1>9, <1>10, OwnStep

(* Back a cell.                                                            *)
LEMMA BackOnKeeps ==
  ASSUME Params, TypeOK, NEW r, NEW F, NEW w, NEW R, NEW g, Frame(r, F, w, R, g),
         NEW p \in Procs, Back(p), me[p].j # me[p].i
  PROVE  TypeOK' /\ Frame(r, F, w, R, g)'
<1> DEFINE v == me[p].v
           j == me[p].j
           n == decrementIndex(j)
           c == TA[n]
           l == [[me[p] EXCEPT !.j = n, !.c = c] EXCEPT !.pc = "match"]
<1>0. me[p].pc = "match"
  BY DEF Back
<1>1. /\ me[p] \in Locals /\ LocalOK(r, F, w, me[p]) /\ v \in Keys \X Nat /\ Key(v) \in Keys /\ Key(v) \in Nat
      /\ me[p].i \in Cells /\ j \in Cells /\ me[p].c \in Slots
  BY <1>0, OwnFacts
<1>2. me' = [me EXCEPT ![p] = l] /\ TA' = TA /\ content' = content /\ phase' = phase
  BY DEF Back, Goto
<1>3. Misses(me[p])
  BY <1>1, AgainstFacts DEF Back, Misses
<1>4. n \in Cells /\ r[n] = r[j] - 1 /\ Run(r, F, me[p].i, n)
  BY <1>1, StepDown DEF Frame, LocalOK
<1>5. c \in Slots
  BY <1>4 DEF TypeOK
<1>6. l \in Locals /\ l.pc = "match" /\ l.v = v /\ l.i = me[p].i /\ l.j = n /\ l.c = c
  BY <1>1, <1>4, <1>5 DEF Locals, PCs
<1> HIDE DEF l, n
<1>7. LocalOK(r, F, w, l)
  <2>1. c # empty => n \in F /\ Kept(w, c)
    BY <1>4 DEF Frame, SlotsOK, Full
  <2> QED BY <1>1, <1>4, <1>6, <2>1 DEF LocalOK, Busy
<1>8. FillOK(r, R, TA, l) /\ DownOK(r, R, TA, l)
  BY <1>6 DEF FillOK, DownOK
<1>9. ASSUME NEW h \in Cells \ R, Full(h), g[h] = p PROVE r[h] <= Place(r, l)
  <2>1. r[h] <= r[j] - 1 /\ KeyAt(h) = Key(v)
    BY <1>0, <1>3, <1>9 DEF Frame, CopiesOK, Place
  <2>2. r[h] \in Nat /\ r[n] \in Nat
    BY <1>4, CellFacts
  <2>3. CASE Misses(l)
    <3>1. h # n
      BY <1>6, <1>9, <2>1, <2>3 DEF Misses, Full, KeyAt
    <3>2. r[h] # r[n]
      BY <1>4, <3>1, CellFacts
    <3> QED BY <1>4, <1>6, <2>1, <2>2, <2>3, <3>2 DEF Place
  <2>4. CASE ~Misses(l)
    BY <1>4, <1>6, <2>1, <2>2, <2>4 DEF Place
  <2> QED BY <2>3, <2>4
<1> QED BY <1>0, <1>2, <1>6, <1>7, <1>8, <1>9, OwnStep

(* The key is found.                                                       *)
LEMMA FoundKeeps ==
  ASSUME Params, TypeOK, NEW r, NEW F, NEW w, NEW R, NEW g, Frame(r, F, w, R, g),
         NEW p \in Procs, Found(p)
  PROVE  TypeOK' /\ Frame(r, F, w, R, g)'
<1> DEFINE v == me[p].v
           j == me[p].j
           n == incrementIndex(j)
           x == TA[n]
           l == [[me[p] EXCEPT !.jj = n, !.x = x] EXCEPT !.pc = "scan"]
<1>0. me[p].pc = "match"
  BY DEF Found
<1>1. /\ me[p] \in Locals /\ LocalOK(r, F, w, me[p]) /\ v \in Keys \X Nat /\ Key(v) \in Keys /\ Key(v) \in Nat
      /\ me[p].i \in Cells /\ j \in Cells /\ me[p].c \in Slots
  BY <1>0, OwnFacts
<1>2. me' = [me EXCEPT ![p] = l] /\ TA' = TA /\ content' = content /\ phase' = phase
  BY DEF Found, Goto
<1>3. ~Misses(me[p]) /\ j \in F
  <2>1. ~Misses(me[p])
    BY <1>1, AgainstFacts DEF Found, Misses
  <2> QED BY <1>1, <2>1 DEF LocalOK, Misses
<1>4. n \in Cells /\ r[n] = r[j] + 1 /\ Run(r, F, j, n)
  <2>1. r[j] \in Nat
    BY <1>1, CellFacts
  <2>2. Run(r, F, j, j)
    BY <2>1, CellFacts DEF Run
  <2> QED BY <1>1, <1>3, <2>2, StepUp DEF Frame
<1>5. x \in Slots
  BY <1>4 DEF TypeOK
<1>6. /\ l \in Locals /\ l.pc = "scan" /\ l.v = v /\ l.i = me[p].i /\ l.j = j /\ l.c = me[p].c
      /\ l.jj = n /\ l.x = x
  BY <1>1, <1>4, <1>5 DEF Locals, PCs
<1> HIDE DEF l, n
<1>7. LocalOK(r, F, w, l)
  <2>1. x # empty => n \in F /\ Kept(w, x) /\ Run(r, F, firstIndex(Key(x)), n)
    BY <1>4 DEF Frame, SlotsOK, Full, KeyAt
  <2>2. r[j] < r[n] /\ ~Misses(l)
    BY <1>1, <1>3, <1>4, <1>6, CellFacts DEF Misses
  <2> QED BY <1>1, <1>4, <1>6, <2>1, <2>2 DEF LocalOK, Busy
<1>8. FillOK(r, R, TA, l) /\ DownOK(r, R, TA, l)
  <2> SUFFICES ASSUME NEW h \in R, r[firstIndex(KeyAt(h))] <= r[j], r[n] <= r[h]
               PROVE  x # empty /\ KeyAt(h) <= Key(x) /\ (KeyAt(h) = Key(x) => r[h] <= r[n])
    BY <1>6 DEF FillOK, DownOK, From, KeyAt
  <2>1. r[n] \in Nat /\ r[h] \in Nat /\ r[j] \in Nat /\ r[firstIndex(KeyAt(h))] \in Nat
    BY <1>1, <1>4, CellFacts DEF Frame, RootsOK
  <2>2. r[firstIndex(KeyAt(h))] <= r[n]
    BY <1>4, <2>1
  <2>3. Full(n) /\ KeyAt(h) <= KeyAt(n) /\ (KeyAt(h) = KeyAt(n) => h = n)
    BY <1>4, <2>2, Look
  <2> QED BY <2>1, <2>3 DEF Full, KeyAt
<1>9. ASSUME NEW h \in Cells \ R, Full(h), g[h] = p PROVE r[h] <= Place(r, l)
  <2>1. r[h] <= r[j]
    BY <1>0, <1>3, <1>9 DEF Frame, CopiesOK, Place
  <2> QED BY <1>6, <2>1 DEF Place
<1> QED BY <1>0, <1>2, <1>6, <1>7, <1>8, <1>9, OwnStep

(* The scans.                                                              *)
LEMMA ScanUpKeeps ==
  ASSUME Params, TypeOK, NEW r, NEW F, NEW w, NEW R, NEW g, Frame(r, F, w, R, g),
         NEW p \in Procs, ScanUp(p)
  PROVE  TypeOK' /\ Frame(r, F, w, R, g)'
<1> DEFINE v == me[p].v
           j == me[p].j
           jj == me[p].jj
           x == me[p].x
<1>0. me[p].pc = "scan"
  BY DEF ScanUp
<1>1. /\ me[p] \in Locals /\ LocalOK(r, F, w, me[p]) /\ FillOK(r, R, TA, me[p])
      /\ v \in Keys \X Nat /\ Key(v) \in Keys /\ Key(v) \in Nat
      /\ me[p].i \in Cells /\ j \in Cells /\ jj \in Cells /\ x \in Slots /\ me[p].c \in Slots
      /\ x # empty => x \in Elements /\ firstIndex(Key(x)) \in Cells
  BY <1>0, OwnFacts
<1>2. TA' = TA /\ content' = content /\ phase' = phase
  BY DEF ScanUp
<1>3. /\ ~Misses(me[p]) /\ r[j] < r[jj] /\ Run(r, F, j, jj) /\ r[j] \in Nat /\ r[jj] \in Nat
      /\ x # empty => jj \in F /\ Run(r, F, firstIndex(Key(x)), jj) /\ Kept(w, x)
  BY <1>0, <1>1, CellFacts DEF LocalOK
<1>4. \A h \in Cells \ R : Full(h) /\ g[h] = p => r[h] <= r[j]
  BY <1>0 DEF Frame, CopiesOK, Place
<1>5. CASE Stays(j, x)
  <2> DEFINE n == incrementIndex(jj)
             y == TA[n]
             l == [[me[p] EXCEPT !.jj = n, !.x = y] EXCEPT !.pc = "scan"]
  <2>1. me' = [me EXCEPT ![p] = l]
    BY <1>5 DEF ScanUp, Goto
  <2>2. x # empty
    BY <1>5 DEF Stays
  <2>3. n \in Cells /\ r[n] = r[jj] + 1 /\ Run(r, F, j, n)
    BY <1>1, <1>3, <2>2, StepUp DEF Frame
  <2>4. y \in Slots
    BY <2>3 DEF TypeOK
  <2>5. /\ l \in Locals /\ l.pc = "scan" /\ l.v = v /\ l.i = me[p].i /\ l.j = j /\ l.c = me[p].c
        /\ l.jj = n /\ l.x = y
    BY <1>1, <2>3, <2>4 DEF Locals, PCs
  <2> HIDE DEF l, n
  <2>6. LocalOK(r, F, w, l)
    <3>1. y # empty => n \in F /\ Kept(w, y) /\ Run(r, F, firstIndex(Key(y)), n)
      BY <2>3 DEF Frame, SlotsOK, Full, KeyAt
    <3>2. r[j] < r[n] /\ ~Misses(l)
      BY <1>3, <2>3, <2>5 DEF Misses
    <3> QED BY <1>1, <2>3, <2>5, <3>1, <3>2 DEF LocalOK, Busy
  <2>7. FillOK(r, R, TA, l) /\ DownOK(r, R, TA, l)
    <3> SUFFICES ASSUME NEW h \in R, r[firstIndex(KeyAt(h))] <= r[j], r[n] <= r[h]
                 PROVE  y # empty /\ KeyAt(h) <= Key(y) /\ (KeyAt(h) = Key(y) => r[h] <= r[n])
      BY <2>5 DEF FillOK, DownOK, From, KeyAt
    <3>1. r[n] \in Nat /\ r[h] \in Nat /\ r[firstIndex(KeyAt(h))] \in Nat
      BY <2>3, CellFacts DEF Frame, RootsOK
    <3>2. r[firstIndex(KeyAt(h))] <= r[n]
      BY <1>3, <2>3, <3>1
    <3>3. Full(n) /\ KeyAt(h) <= KeyAt(n) /\ (KeyAt(h) = KeyAt(n) => h = n)
      BY <2>3, <3>2, Look
    <3> QED BY <3>1, <3>3 DEF Full, KeyAt
  <2>8. \A h \in Cells \ R : Full(h) /\ g[h] = p => r[h] <= Place(r, l)
    BY <1>4, <2>5 DEF Place
  <2> QED BY <1>0, <1>2, <2>1, <2>5, <2>6, <2>7, <2>8, OwnStep
<1>6. CASE ~Stays(j, x)
  <2> DEFINE n == decrementIndex(jj)
             l == [[me[p] EXCEPT !.jjj = n] EXCEPT !.pc = "rescan"]
  <2>1. me' = [me EXCEPT ![p] = l]
    BY <1>6 DEF ScanUp, Goto
  <2>2. n \in Cells /\ r[n] = r[jj] - 1
    BY <1>1, <1>3, StepDown DEF Frame
  <2>3. /\ l \in Locals /\ l.pc = "rescan" /\ l.v = v /\ l.i = me[p].i /\ l.j = j /\ l.c = me[p].c
        /\ l.jj = jj /\ l.x = x /\ l.jjj = n
    BY <1>1, <2>2 DEF Locals, PCs
  <2> HIDE DEF l, n
  <2>4. x # empty => r[firstIndex(Key(x))] <= r[j]
    <3> SUFFICES ASSUME x # empty PROVE r[firstIndex(Key(x))] <= r[j]
      OBVIOUS
    <3>1. ~(r[j] < r[firstIndex(Key(x))])
      BY <1>1, <1>3, <1>6, StaysMeans DEF Frame
    <3> QED BY <1>1, <1>3, <3>1, CellFacts
  <2>5. LocalOK(r, F, w, l)
    <3>1. r[j] <= r[n] /\ r[n] < r[jj] /\ ~Misses(l)
      BY <1>3, <2>2, <2>3 DEF Misses
    <3> QED BY <1>1, <1>3, <2>3, <2>4, <3>1 DEF LocalOK, Busy
  <2>6. FillOK(r, R, TA, l) /\ DownOK(r, R, TA, l)
    <3>1. From(r, l) = From(r, me[p])
      BY <1>0, <1>3, <2>2, <2>3 DEF From
    <3> QED BY <1>0, <1>1, <2>3, <3>1 DEF FillOK, DownOK
  <2>7. \A h \in Cells \ R : Full(h) /\ g[h] = p => r[h] <= Place(r, l)
    BY <1>4, <2>3 DEF Place
  <2> QED BY <1>0, <1>2, <2>1, <2>3, <2>5, <2>6, <2>7, OwnStep
<1> QED BY <1>5, <1>6

LEMMA ScanDownKeeps ==
  ASSUME Params, TypeOK, NEW r, NEW F, NEW w, NEW R, NEW g, Frame(r, F, w, R, g),
         NEW p \in Procs, ScanDown(p)
  PROVE  TypeOK' /\ Frame(r, F, w, R, g)'
<1> DEFINE v == me[p].v
           j == me[p].j
           jj == me[p].jj
           n == me[p].jjj
           m == decrementIndex(n)
           x == me[p].x
           y == TA[n]
<1>0. me[p].pc = "rescan"
  BY DEF ScanDown
<1>1. /\ me[p] \in Locals /\ LocalOK(r, F, w, me[p]) /\ FillOK(r, R, TA, me[p])
      /\ v \in Keys \X Nat /\ Key(v) \in Keys /\ Key(v) \in Nat
      /\ me[p].i \in Cells /\ j \in Cells /\ jj \in Cells /\ n \in Cells /\ x \in Slots /\ me[p].c \in Slots
      /\ x # empty => x \in Elements /\ firstIndex(Key(x)) \in Cells
  BY <1>0, OwnFacts
<1>2. TA' = TA /\ content' = content /\ phase' = phase
  BY DEF ScanDown
<1>3. /\ ~Misses(me[p]) /\ r[j] < r[jj] /\ Run(r, F, j, jj)
      /\ r[j] \in Nat /\ r[jj] \in Nat /\ r[n] \in Nat
      /\ r[j] <= r[n] /\ r[n] < r[jj]
      /\ x # empty => jj \in F /\ Run(r, F, firstIndex(Key(x)), jj) /\ Kept(w, x)
      /\ x # empty => r[firstIndex(Key(x))] <= r[j]
  BY <1>0, <1>1, CellFacts DEF LocalOK
<1>4. \A h \in Cells \ R : Full(h) /\ g[h] = p => r[h] <= r[j]
  BY <1>0 DEF Frame, CopiesOK, Place
<1>5. \A h \in R : h \in Cells /\ r[h] \in Nat /\ r[firstIndex(KeyAt(h))] \in Nat
  BY CellFacts DEF Frame, RootsOK
<1>6. CASE n = j
  <2> DEFINE l == [me[p] EXCEPT !.pc = "replace"]
  <2>1. me' = [me EXCEPT ![p] = l]
    BY <1>6 DEF ScanDown, Goto
  <2>2. /\ l \in Locals /\ l.pc = "replace" /\ l.v = v /\ l.i = me[p].i /\ l.j = j /\ l.c = me[p].c
        /\ l.jj = jj /\ l.x = x
    BY <1>1 DEF Locals, PCs
  <2> HIDE DEF l
  <2>3. LocalOK(r, F, w, l)
    <3>1. ~Misses(l)
      BY <1>3, <2>2 DEF Misses
    <3> QED BY <1>1, <1>3, <2>2, <3>1 DEF LocalOK, Busy
  <2>4. FillOK(r, R, TA, l) /\ DownOK(r, R, TA, l)
    <3>1. From(r, l) = From(r, me[p])
      BY <1>0, <1>6, <2>2 DEF From
    <3> QED BY <1>0, <1>1, <2>2, <3>1 DEF FillOK, DownOK
  <2>5. \A h \in Cells \ R : Full(h) /\ g[h] = p => r[h] <= Place(r, l)
    BY <1>4, <2>2 DEF Place
  <2> QED BY <1>0, <1>2, <2>1, <2>2, <2>3, <2>4, <2>5, OwnStep
<1>7. CASE n # j
  <2>1. r[j] < r[n]
    BY <1>1, <1>3, <1>7, CellFacts
  <2>2. Run(r, F, j, n)
    BY <1>1, <1>3, <2>1, CellFacts DEF Run
  <2>3. m \in Cells /\ r[m] = r[n] - 1
    BY <1>1, <1>7, <2>2, StepDown DEF Frame
  <2>4. y \in Slots /\ (y # empty => y \in Elements /\ n \in F /\ Kept(w, y) /\ Run(r, F, firstIndex(Key(y)), n)
                                     /\ firstIndex(Key(y)) \in Cells /\ r[firstIndex(Key(y))] \in Nat)
    BY <1>1, CellFacts DEF Frame, SlotsOK, Full, KeyAt
  <2>5. y # empty => (Stays(j, y) <=> r[j] < r[firstIndex(Key(y))])
    BY <1>1, <2>2, <2>4, StaysMeans DEF Frame
  <2>6. CASE Stays(j, y)
    <3> DEFINE l == [[me[p] EXCEPT !.jjj = m] EXCEPT !.pc = "rescan"]
    <3>1. me' = [me EXCEPT ![p] = l]
      BY <1>7, <2>6 DEF ScanDown, Goto
    <3>2. /\ l \in Locals /\ l.pc = "rescan" /\ l.v = v /\ l.i = me[p].i /\ l.j = j /\ l.c = me[p].c
          /\ l.jj = jj /\ l.x = x /\ l.jjj = m
      BY <1>1, <2>3 DEF Locals, PCs
    <3> HIDE DEF l, m
    <3>3. LocalOK(r, F, w, l)
      <4>1. ~Misses(l) /\ r[j] <= r[m] /\ r[m] < r[jj]
        BY <1>3, <2>1, <2>3, <3>2 DEF Misses
      <4> QED BY <1>1, <1>3, <3>2, <4>1 DEF LocalOK, Busy
    <3>4. FillOK(r, R, TA, l) /\ DownOK(r, R, TA, l)
      <4> SUFFICES ASSUME NEW h \in R, r[firstIndex(KeyAt(h))] <= r[j], r[j] < r[h], r[n] <= r[h]
                   PROVE  x # empty /\ KeyAt(h) <= Key(x) /\ (KeyAt(h) = Key(x) => r[h] <= r[jj])
        <5>1. r[m] + 1 = r[n]
          BY <1>3, <2>3
        <5> QED BY <3>2, <5>1 DEF FillOK, DownOK, From, KeyAt
      <4>1. h # n
        <5> SUFFICES ASSUME h = n PROVE FALSE
          OBVIOUS
        <5>1. y # empty /\ KeyAt(h) = Key(y)
          BY DEF Frame, RootsOK, Full, KeyAt
        <5> QED BY <1>3, <2>4, <2>5, <2>6, <5>1
      <4>2. r[n] + 1 <= r[h]
        BY <1>1, <1>3, <1>5, <4>1, CellFacts
      <4> QED BY <1>0, <1>1, <4>2 DEF FillOK, From, KeyAt
    <3>5. \A h \in Cells \ R : Full(h) /\ g[h] = p => r[h] <= Place(r, l)
      BY <1>4, <3>2 DEF Place
    <3> QED BY <1>0, <1>2, <3>1, <3>2, <3>3, <3>4, <3>5, OwnStep
  <2>7. CASE ~Stays(j, y)
    <3> DEFINE l == [[me[p] EXCEPT !.jjj = m, !.x = y, !.jj = n] EXCEPT !.pc = "rescan"]
    <3>1. me' = [me EXCEPT ![p] = l]
      BY <1>1, <1>7, <2>7 DEF ScanDown, Goto, Locals
    <3>2. /\ l \in Locals /\ l.pc = "rescan" /\ l.v = v /\ l.i = me[p].i /\ l.j = j /\ l.c = me[p].c
          /\ l.jj = n /\ l.x = y /\ l.jjj = m
      BY <1>1, <2>3, <2>4 DEF Locals, PCs
    <3> HIDE DEF l, m
    <3>3. LocalOK(r, F, w, l)
      <4>1. ~Misses(l) /\ r[j] <= r[m] /\ r[m] < r[n]
        BY <1>3, <2>1, <2>3, <3>2 DEF Misses
      <4>2. y # empty => r[firstIndex(Key(y))] <= r[j]
        BY <1>3, <2>4, <2>5, <2>7
      <4> QED BY <1>1, <1>3, <2>1, <2>2, <2>4, <3>2, <4>1, <4>2 DEF LocalOK, Busy
    <3>4. FillOK(r, R, TA, l) /\ DownOK(r, R, TA, l)
      <4> SUFFICES ASSUME NEW h \in R, r[firstIndex(KeyAt(h))] <= r[j], r[j] < r[h], r[n] <= r[h]
                   PROVE  y # empty /\ KeyAt(h) <= Key(y) /\ (KeyAt(h) = Key(y) => r[h] <= r[n])
        <5>1. r[m] + 1 = r[n]
          BY <1>3, <2>3
        <5> QED BY <3>2, <5>1 DEF FillOK, DownOK, From, KeyAt
      <4>1. r[firstIndex(KeyAt(h))] <= r[n]
        BY <1>3, <1>5
      <4>2. Full(n) /\ KeyAt(h) <= KeyAt(n) /\ (KeyAt(h) = KeyAt(n) => h = n)
        BY <1>1, <4>1, Look
      <4> QED BY <1>3, <4>2 DEF Full, KeyAt
    <3>5. \A h \in Cells \ R : Full(h) /\ g[h] = p => r[h] <= Place(r, l)
      BY <1>4, <3>2 DEF Place
    <3> QED BY <1>0, <1>2, <3>1, <3>2, <3>3, <3>4, <3>5, OwnStep
  <2> QED BY <2>6, <2>7
<1> QED BY <1>6, <1>7

(* The cell has changed; it is read again.                                 *)
LEMMA ReplaceLostKeeps ==
  ASSUME Params, TypeOK, NEW r, NEW F, NEW w, NEW R, NEW g, Frame(r, F, w, R, g),
         NEW p \in Procs, Replace(p), TA[me[p].j] # me[p].c
  PROVE  TypeOK' /\ Frame(r, F, w, R, g)'
<1> DEFINE l == [me[p] EXCEPT !.pc = "reread"]
<1>0. me[p].pc = "replace"
  BY DEF Replace
<1>1. me[p] \in Locals /\ LocalOK(r, F, w, me[p])
  BY <1>0, OwnFacts
<1>2. me' = [me EXCEPT ![p] = l] /\ TA' = TA /\ content' = content /\ phase' = phase
  BY DEF Replace, Goto
<1>3. l \in Locals /\ l.pc = "reread" /\ l.v = me[p].v /\ l.i = me[p].i /\ l.j = me[p].j /\ l.c = me[p].c
  BY <1>1 DEF Locals, PCs
<1> HIDE DEF l
<1>4. LocalOK(r, F, w, l)
  BY <1>1, <1>3 DEF LocalOK, Busy
<1>5. FillOK(r, R, TA, l) /\ DownOK(r, R, TA, l)
  BY <1>3 DEF FillOK, DownOK
<1>6. \A h \in Cells \ R : Full(h) /\ g[h] = p => r[h] <= Place(r, l)
  BY <1>0, <1>3 DEF Frame, CopiesOK, Place
<1> QED BY <1>0, <1>2, <1>3, <1>4, <1>5, <1>6, OwnStep

LEMMA RereadKeeps ==
  ASSUME Params, TypeOK, NEW r, NEW F, NEW w, NEW R, NEW g, Frame(r, F, w, R, g),
         NEW p \in Procs, Reread(p)
  PROVE  TypeOK' /\ Frame(r, F, w, R, g)'
<1> DEFINE j == me[p].j
           c == TA[j]
           l == [[me[p] EXCEPT !.c = c, !.x = empty, !.jj = 0, !.jjj = 0] EXCEPT !.pc = "match"]
<1>0. me[p].pc = "reread"
  BY DEF Reread
<1>1. me[p] \in Locals /\ LocalOK(r, F, w, me[p]) /\ j \in Cells
  BY <1>0, OwnFacts
<1>2. me' = [me EXCEPT ![p] = l] /\ TA' = TA /\ content' = content /\ phase' = phase
  BY DEF Reread, Goto
<1>3. c \in Slots /\ 0 \in Cells /\ empty \in Slots
  BY <1>1, CellFacts DEF Cells, Slots
<1>4. l \in Locals /\ l.pc = "match" /\ l.v = me[p].v /\ l.i = me[p].i /\ l.j = j /\ l.c = c
  BY <1>1, <1>3 DEF Locals, PCs
<1> HIDE DEF l
<1>5. LocalOK(r, F, w, l)
  <2>1. c # empty => j \in F /\ Kept(w, c)
    BY <1>1 DEF Frame, SlotsOK, Full
  <2> QED BY <1>1, <1>4, <2>1 DEF LocalOK, Busy
<1>6. FillOK(r, R, TA, l) /\ DownOK(r, R, TA, l)
  BY <1>4 DEF FillOK, DownOK
<1>7. ASSUME NEW h \in Cells \ R, Full(h), g[h] = p PROVE r[h] <= Place(r, l)
  <2>1. r[h] <= r[j] /\ KeyAt(h) = Key(me[p].v)
    BY <1>0, <1>7 DEF Frame, CopiesOK, Place
  <2>2. r[h] \in Nat /\ r[j] \in Nat
    BY <1>1, CellFacts
  <2>3. CASE Misses(l)
    <3>1. h # j
      BY <1>4, <1>7, <2>1, <2>3 DEF Misses, Full, KeyAt
    <3>2. r[h] # r[j]
      BY <1>1, <3>1, CellFacts
    <3> QED BY <1>4, <2>1, <2>2, <2>3, <3>2 DEF Place
  <2>4. CASE ~Misses(l)
    BY <1>4, <2>1, <2>4 DEF Place
  <2> QED BY <2>3, <2>4
<1> QED BY <1>0, <1>2, <1>4, <1>5, <1>6, <1>7, OwnStep

(* The search has come down: its thread deletes the root from now on.      *)
LEMMA DescendEndKeeps ==
  ASSUME Params, TypeOK, NEW r, NEW F, NEW w, NEW R, NEW g, Frame(r, F, w, R, g),
         NEW p \in Procs, Descend(p), ~(Against(Key(me[p].v), me[p].c) < 0)
  PROVE  TypeOK' /\ DeleteOK'
<1> DEFINE l == [me[p] EXCEPT !.pc = "match"]
<1>k. PICK k : k = Key(me[p].v)
  OBVIOUS
<1>R. PICK R2 : R2 = {h \in R : KeyAt(h) # k}
  OBVIOUS
<1>g. PICK g2 : g2 = [h \in Cells |-> IF h \in R /\ KeyAt(h) = k THEN p ELSE g[h]]
  OBVIOUS
<1>0. me[p].pc = "down"
  BY DEF Descend
<1>1. /\ me[p] \in Locals /\ LocalOK(r, F, w, me[p]) /\ DownOK(r, R, TA, me[p])
      /\ k \in Keys /\ k \in Nat /\ me[p].v \in Keys \X Nat /\ me[p].c \in Slots /\ me[p].j \in Cells
  BY <1>0, <1>k, OwnFacts
<1>2. me' = [me EXCEPT ![p] = l] /\ TA' = TA /\ content' = content /\ phase' = phase
  BY DEF Descend, Goto
<1>3. l \in Locals /\ l.pc = "match" /\ l.v = me[p].v /\ l.i = me[p].i /\ l.j = me[p].j /\ l.c = me[p].c
  BY <1>1 DEF Locals, PCs
<1>4. ~Above(me[p].c, k)
  BY <1>1, <1>k, AgainstFacts
<1> HIDE DEF l
<1>5. /\ me' \in [Procs -> Locals] /\ me'[p] = l /\ \A q \in Procs : q # p => me'[q] = me[q]
      /\ \A q \in Procs : me'[q].pc # "idle" => me'[q].v \in Keys \X Nat
  BY <1>1, <1>2, <1>3, LocalStep
<1>6. TypeOK'
  BY <1>2, <1>5 DEF TypeOK
<1>7. \A h : (Full(h)' <=> Full(h)) /\ KeyAt(h)' = KeyAt(h)
  BY <1>2 DEF Full, KeyAt
<1>8. SlotsOK(r, F, w)'
  BY <1>2, <1>7 DEF Frame, SlotsOK
<1>9. LocalsOK(r, F, w)'
  <2>1. LocalOK(r, F, w, l)
    BY <1>1, <1>3 DEF LocalOK, Busy
  <2> QED BY <1>5, <2>1 DEF Frame, LocalsOK
<1>10. \A h \in R : h \in Cells /\ Full(h) /\ r[h] \in Nat
  BY CellFacts DEF Frame, RootsOK
<1>11. \A h \in Cells \ R : Full(h) => g[h] # p
  BY <1>0 DEF Frame, CopiesOK, Deleting, Busy
<1>12. RootsOK(r, R2)'
  <2>1. ASSUME NEW h \in R2 PROVE Wanted(h)'
    <3>1. Wanted(h) /\ KeyAt(h) # k
      BY <1>R DEF Frame, RootsOK
    <3>2. CASE TA[h] \in content
      BY <1>2, <3>2 DEF Wanted
    <3>3. CASE \E q \in Procs : me[q].pc = "down" /\ Key(me[q].v) = KeyAt(h)
      <4> PICK q \in Procs : me[q].pc = "down" /\ Key(me[q].v) = KeyAt(h)
        BY <3>3
      <4>1. q # p
        BY <3>1, <1>k
      <4> QED BY <1>5, <1>7, <4>1 DEF Wanted
    <3> QED BY <3>1, <3>2, <3>3 DEF Wanted
  <2> QED BY <1>2, <1>7, <1>R, <2>1 DEF Frame, RootsOK
<1>13. CopiesOK(r, R2, g2)'
  <2> SUFFICES ASSUME NEW h \in Cells \ R2, Full(h)
               PROVE  /\ g2[h] \in Procs /\ Deleting(me'[g2[h]])
                      /\ Key(me'[g2[h]].v) = KeyAt(h) /\ r[h] <= Place(r, me'[g2[h]])
                      /\ \A q \in Cells \ R2 : Full(q) /\ g2[q] = g2[h] => q = h
    BY <1>7 DEF CopiesOK
  <2>1. CASE h \in R
    <3>1. KeyAt(h) = k /\ g2[h] = p
      BY <1>R, <1>g, <2>1
    <3>2. Deleting(me'[p]) /\ Key(me'[p].v) = k
      BY <1>3, <1>5, <1>k DEF Deleting, Busy
    <3>3. r[h] <= r[me[p].j] /\ (Misses(me[p]) => r[h] < r[me[p].j])
      BY <1>0, <1>1, <1>4, <1>k, <2>1, <3>1 DEF DownOK, KeyAt
    <3>4. r[me[p].j] \in Nat /\ r[h] \in Nat /\ (Misses(l) <=> Misses(me[p]))
      BY <1>1, <1>3, <1>10, <2>1, CellFacts DEF Misses
    <3>5. r[h] <= Place(r, l)
      BY <1>3, <3>3, <3>4 DEF Place
    <3>6. ASSUME NEW q \in Cells \ R2, Full(q), g2[q] = p PROVE q = h
      <4>1. q \in R /\ KeyAt(q) = k
        BY <1>11, <1>R, <1>g, <3>6
      <4>2. r[h] <= r[q] /\ r[q] <= r[h]
        BY <1>10, <2>1, <3>1, <4>1 DEF Frame, RootsOK
      <4> QED BY <1>10, <2>1, <4>1, <4>2, CellFacts
    <3> QED BY <1>5, <3>1, <3>2, <3>5, <3>6
  <2>2. CASE h \notin R
    <3>1. /\ g[h] \in Procs /\ Deleting(me[g[h]])
          /\ Key(me[g[h]].v) = KeyAt(h) /\ r[h] <= Place(r, me[g[h]])
          /\ \A q \in Cells \ R : Full(q) /\ g[q] = g[h] => q = h
      BY <2>2 DEF Frame, CopiesOK
    <3>2. g2[h] = g[h] /\ g[h] # p
      BY <1>11, <1>g, <2>2
    <3>3. ASSUME NEW q \in Cells \ R2, Full(q), g2[q] = g[h] PROVE q = h
      BY <1>11, <1>R, <1>g, <3>1, <3>2, <3>3
    <3> QED BY <1>5, <3>1, <3>2, <3>3
  <2> QED BY <2>1, <2>2
<1>14. ContentOK(w, R2, g2)'
  <2> SUFFICES ASSUME NEW e \in content
               PROVE  /\ Kept(w, e) /\ \E h \in R2 : TA[h] = e
                      /\ \A q \in Procs : me'[q].pc # "idle" /\ Key(me'[q].v) = Key(e) =>
                           Deleting(me'[q]) /\ \E h \in Cells \ R2 : Full(h) /\ KeyAt(h) = Key(e) /\ g2[h] = q
    BY <1>2, <1>7 DEF ContentOK
  <2>1. /\ Kept(w, e) /\ \E h \in R : TA[h] = e
        /\ \A q \in Procs : me[q].pc # "idle" /\ Key(me[q].v) = Key(e) =>
             Deleting(me[q]) /\ \E h \in Cells \ R : Full(h) /\ KeyAt(h) = Key(e) /\ g[h] = q
    BY DEF Frame, ContentOK
  <2>2. Key(e) # k
    BY <1>0, <1>k, <2>1 DEF Deleting, Busy
  <2>3. \E h \in R2 : TA[h] = e
    BY <1>R, <2>1, <2>2 DEF KeyAt
  <2>4. ASSUME NEW q \in Procs, me'[q].pc # "idle", Key(me'[q].v) = Key(e)
        PROVE  Deleting(me'[q]) /\ \E h \in Cells \ R2 : Full(h) /\ KeyAt(h) = Key(e) /\ g2[h] = q
    <3>1. q # p
      BY <1>3, <1>5, <1>k, <2>2, <2>4
    <3>2. Deleting(me[q]) /\ \E h \in Cells \ R : Full(h) /\ KeyAt(h) = Key(e) /\ g[h] = q
      BY <1>5, <2>1, <2>4, <3>1
    <3>3. PICK h \in Cells \ R : Full(h) /\ KeyAt(h) = Key(e) /\ g[h] = q
      BY <3>2
    <3>4. h \in Cells \ R2 /\ g2[h] = q
      BY <1>R, <1>g, <3>3
    <3> QED BY <1>5, <3>1, <3>2, <3>3, <3>4
  <2> QED BY <2>1, <2>3, <2>4
<1>15. \A q \in Procs : FillOK(r, R2, TA', me'[q]) /\ DownOK(r, R2, TA', me'[q])
  <2>1. \A q \in Procs : FillOK(r, R2, TA, me[q]) /\ DownOK(r, R2, TA, me[q])
    BY <1>R DEF Frame, FillOK, DownOK
  <2>2. FillOK(r, R2, TA, l) /\ DownOK(r, R2, TA, l)
    BY <1>3 DEF FillOK, DownOK
  <2> QED BY <1>2, <1>5, <2>1, <2>2
<1>16. Frame(r, F, w, R2, g2)'
  BY <1>8, <1>9, <1>12, <1>13, <1>14, <1>15 DEF Frame
<1> QED BY <1>6, <1>16 DEF DeleteOK

(* Its key is no longer there.                                             *)
LEMMA BackEndKeeps ==
  ASSUME Params, TypeOK, NEW r, NEW F, NEW w, NEW R, NEW g, Frame(r, F, w, R, g),
         NEW p \in Procs, Back(p), me[p].j = me[p].i
  PROVE  TypeOK' /\ Frame(r, F, w, R, g)'
<1> DEFINE k == Key(me[p].v)
<1>0. me[p].pc = "match"
  BY DEF Back
<1>1. /\ me[p] \in Locals /\ LocalOK(r, F, w, me[p]) /\ k \in Keys /\ k \in Nat /\ me[p].c \in Slots
      /\ me[p].j \in Cells
  BY <1>0, OwnFacts
<1>2. me' = [me EXCEPT ![p] = Idle] /\ TA' = TA /\ content' = content /\ phase' = phase
  BY DEF Back, Return
<1>3. Misses(me[p])
  BY <1>1, AgainstFacts DEF Back, Misses
<1>4. ASSUME NEW h \in Cells \ R, Full(h) PROVE g[h] # p
  <2> SUFFICES ASSUME g[h] = p PROVE FALSE
    OBVIOUS
  <2>1. KeyAt(h) = k /\ r[h] <= r[me[p].j] - 1
    BY <1>0, <1>3, <1>4 DEF Frame, CopiesOK, Place
  <2>2. r[me[p].j] <= r[h] /\ r[h] \in Nat /\ r[me[p].j] \in Nat
    BY <1>1, <1>4, <2>1, CellFacts DEF LocalOK
  <2> QED BY <2>1, <2>2
<1> HIDE DEF k
<1>5. /\ me' \in [Procs -> Locals] /\ me'[p] = Idle /\ \A q \in Procs : q # p => me'[q] = me[q]
      /\ \A q \in Procs : me'[q].pc # "idle" => me'[q].v \in Keys \X Nat
      /\ me'[p].pc = "idle"
  BY <1>2, IdleType, LocalStep
<1>6. TypeOK'
  BY <1>2, <1>5 DEF TypeOK
<1>7. \A h : (Full(h)' <=> Full(h)) /\ KeyAt(h)' = KeyAt(h)
  BY <1>2 DEF Full, KeyAt
<1>8. SlotsOK(r, F, w)'
  BY <1>2, <1>7 DEF Frame, SlotsOK
<1>9. LocalsOK(r, F, w)'
  BY <1>5 DEF Frame, LocalsOK
<1>10. RootsOK(r, R)'
  <2>1. ASSUME NEW h \in R PROVE Wanted(h)'
    <3>1. Wanted(h)
      BY DEF Frame, RootsOK
    <3>2. \A q \in Procs : me[q].pc = "down" => me'[q] = me[q]
      BY <1>0, <1>5
    <3> QED BY <1>2, <1>7, <3>1, <3>2 DEF Wanted
  <2> QED BY <1>2, <1>7, <2>1 DEF Frame, RootsOK
<1>11. CopiesOK(r, R, g)'
  <2> SUFFICES ASSUME NEW h \in Cells \ R, Full(h)
               PROVE  /\ g[h] \in Procs /\ Deleting(me'[g[h]])
                      /\ Key(me'[g[h]].v) = KeyAt(h) /\ r[h] <= Place(r, me'[g[h]])
                      /\ \A q \in Cells \ R : Full(q) /\ g[q] = g[h] => q = h
    BY <1>7 DEF CopiesOK
  <2> QED BY <1>4, <1>5 DEF Frame, CopiesOK
<1>12. ContentOK(w, R, g)'
  <2> SUFFICES ASSUME NEW e \in content
               PROVE  /\ Kept(w, e) /\ \E h \in R : TA[h] = e
                      /\ \A q \in Procs : me'[q].pc # "idle" /\ Key(me'[q].v) = Key(e) =>
                           Deleting(me'[q]) /\ \E h \in Cells \ R : Full(h) /\ KeyAt(h) = Key(e) /\ g[h] = q
    BY <1>2, <1>7 DEF ContentOK
  <2>1. /\ Kept(w, e) /\ \E h \in R : TA[h] = e
        /\ \A q \in Procs : me[q].pc # "idle" /\ Key(me[q].v) = Key(e) =>
             Deleting(me[q]) /\ \E h \in Cells \ R : Full(h) /\ KeyAt(h) = Key(e) /\ g[h] = q
    BY DEF Frame, ContentOK
  <2> QED BY <1>5, <2>1
<1>13. \A q \in Procs : FillOK(r, R, TA', me'[q]) /\ DownOK(r, R, TA', me'[q])
  <2>1. FillOK(r, R, TA, me'[p]) /\ DownOK(r, R, TA, me'[p])
    BY <1>5 DEF FillOK, DownOK
  <2> QED BY <1>2, <1>5, <2>1 DEF Frame
<1> QED BY <1>6, <1>8, <1>9, <1>10, <1>11, <1>12, <1>13 DEF Frame

(* A call.                                                                 *)
LEMMA CallDeleteKeeps ==
  ASSUME Params, TypeOK, NEW r, NEW F, NEW w, NEW R, NEW g, Frame(r, F, w, R, g),
         NEW p \in Procs, NEW k \in Keys, CallDelete(p, k)
  PROVE  TypeOK' /\ Frame(r, F, w, R, g)'
<1> DEFINE i == firstIndex(k)
           c == TA[i]
           v == <<k, 0>>
           l == [[Idle EXCEPT !.v = v, !.i = i, !.j = i, !.c = c] EXCEPT !.pc = IF c = empty THEN "idle" ELSE "down"]
<1>0. me[p].pc = "idle"
  BY DEF CallDelete, Call
<1>1. i \in Cells /\ k \in Nat
  BY KeyTypes
<1>2. c \in Slots /\ r[i] \in Nat
  BY <1>1, CellFacts
<1>3. v \in Keys \X Nat /\ Key(v) = k
  BY DEF Key
<1>4. me' = [me EXCEPT ![p] = l] /\ TA' = TA /\ content' = {e \in content : Key(e) # k} /\ phase' = phase
  BY DEF CallDelete, Goto
<1>5. l \in Locals /\ l.v = v /\ l.i = i /\ l.j = i /\ l.c = c /\ l.pc = IF c = empty THEN "idle" ELSE "down"
  BY <1>1, <1>2, <1>3, IdleType DEF Idle, Locals, PCs
<1> HIDE DEF l, i, v
<1>6. /\ me' \in [Procs -> Locals] /\ me'[p] = l /\ \A q \in Procs : q # p => me'[q] = me[q]
      /\ \A q \in Procs : me'[q].pc # "idle" => me'[q].v \in Keys \X Nat
  BY <1>3, <1>4, <1>5, LocalStep
<1>7. TypeOK'
  BY <1>4, <1>6 DEF TypeOK
<1>8. \A h : (Full(h)' <=> Full(h)) /\ KeyAt(h)' = KeyAt(h)
  BY <1>4 DEF Full, KeyAt
<1>9. SlotsOK(r, F, w)'
  BY <1>4, <1>8 DEF Frame, SlotsOK
<1>10. LocalsOK(r, F, w)'
  <2>1. l.pc # "idle" => LocalOK(r, F, w, l)
    <3>1. Run(r, F, i, i)
      BY <1>1, CellFacts DEF Run
    <3>2. c # empty => i \in F /\ Kept(w, c)
      BY <1>1 DEF Frame, SlotsOK, Full
    <3> QED BY <1>3, <1>5, <3>1, <3>2 DEF LocalOK, i
  <2> QED BY <1>6, <2>1 DEF Frame, LocalsOK
<1>11. ASSUME NEW h \in R, KeyAt(h) = k PROVE Full(i) /\ k <= KeyAt(i) /\ (k = KeyAt(i) => h = i)
  <2>1. r[i] <= r[h]
    BY <1>11, CellFacts DEF Frame, RootsOK, i
  <2> QED BY <1>1, <1>2, <1>11, <2>1, Look DEF i
<1>12. RootsOK(r, R)'
  <2>1. ASSUME NEW h \in R PROVE Wanted(h)'
    <3>1. Wanted(h)
      BY DEF Frame, RootsOK
    <3>2. CASE KeyAt(h) = k
      <4>1. l.pc = "down"
        BY <1>5, <1>11, <3>2 DEF Full
      <4> QED BY <1>3, <1>5, <1>6, <1>8, <3>2, <4>1 DEF Wanted
    <3>3. CASE KeyAt(h) # k
      <4>1. CASE TA[h] \in content
        BY <1>4, <3>3, <4>1 DEF Wanted, KeyAt
      <4>2. CASE \E q \in Procs : me[q].pc = "down" /\ Key(me[q].v) = KeyAt(h)
        BY <1>0, <1>6, <1>8, <4>2 DEF Wanted
      <4> QED BY <3>1, <4>1, <4>2 DEF Wanted
    <3> QED BY <3>2, <3>3
  <2> QED BY <1>4, <1>8, <2>1 DEF Frame, RootsOK
<1>13. CopiesOK(r, R, g)'
  <2> SUFFICES ASSUME NEW h \in Cells \ R, Full(h)
               PROVE  /\ g[h] \in Procs /\ Deleting(me'[g[h]])
                      /\ Key(me'[g[h]].v) = KeyAt(h) /\ r[h] <= Place(r, me'[g[h]])
                      /\ \A q \in Cells \ R : Full(q) /\ g[q] = g[h] => q = h
    BY <1>8 DEF CopiesOK
  <2>1. g[h] \in Procs /\ g[h] # p
    BY <1>0 DEF Frame, CopiesOK, Deleting, Busy
  <2> QED BY <1>6, <2>1 DEF Frame, CopiesOK
<1>14. ContentOK(w, R, g)'
  <2> SUFFICES ASSUME NEW e \in content, Key(e) # k
               PROVE  /\ Kept(w, e) /\ \E h \in R : TA[h] = e
                      /\ \A q \in Procs : me'[q].pc # "idle" /\ Key(me'[q].v) = Key(e) =>
                           Deleting(me'[q]) /\ \E h \in Cells \ R : Full(h) /\ KeyAt(h) = Key(e) /\ g[h] = q
    BY <1>4, <1>8 DEF ContentOK
  <2>1. /\ Kept(w, e) /\ \E h \in R : TA[h] = e
        /\ \A q \in Procs : me[q].pc # "idle" /\ Key(me[q].v) = Key(e) =>
             Deleting(me[q]) /\ \E h \in Cells \ R : Full(h) /\ KeyAt(h) = Key(e) /\ g[h] = q
    BY DEF Frame, ContentOK
  <2>2. Key(me'[p].v) = k
    BY <1>3, <1>5, <1>6
  <2> QED BY <1>6, <2>1, <2>2
<1>15. \A q \in Procs : FillOK(r, R, TA', me'[q]) /\ DownOK(r, R, TA', me'[q])
  <2>1. FillOK(r, R, TA, l)
    BY <1>5 DEF FillOK
  <2>2. DownOK(r, R, TA, l)
    <3> SUFFICES ASSUME NEW h \in R, KeyAt(h) = k, ~Above(c, k)
                 PROVE  r[h] <= r[i] /\ (Misses(l) => r[h] < r[i])
      BY <1>3, <1>5 DEF DownOK, KeyAt
    <3>1. Full(i) /\ k <= KeyAt(i) /\ (k = KeyAt(i) => h = i)
      BY <1>11
    <3>2. KeyAt(i) \in Nat
      BY <1>1, <3>1, CellFacts
    <3>3. KeyAt(i) = k /\ c # empty
      BY <1>1, <3>1, <3>2 DEF Above, Full, KeyAt
    <3> QED BY <1>2, <1>3, <1>5, <3>1, <3>3 DEF Misses, KeyAt
  <2> QED BY <1>4, <1>6, <2>1, <2>2 DEF Frame
<1> QED BY <1>7, <1>9, <1>10, <1>12, <1>13, <1>14, <1>15 DEF Frame

(* A cell is filled.                                                       *)
LEMMA ReplaceFacts ==
  ASSUME Params, TypeOK, NEW r, NEW F, NEW w, NEW R, NEW g, Frame(r, F, w, R, g),
         NEW p \in Procs, me[p].pc = "replace", TA[me[p].j] = me[p].c
  PROVE  LET l == me[p] IN
         /\ l \in Locals /\ LocalOK(r, F, w, l)
         /\ l.j \in Cells /\ l.jj \in Cells /\ Key(l.v) \in Nat /\ l.c \in Slots /\ l.x \in Slots
         /\ Full(l.j) /\ KeyAt(l.j) = Key(l.v) /\ l.j \in F
         /\ r[l.j] \in Nat /\ r[l.jj] \in Nat /\ r[l.j] < r[l.jj] /\ Run(r, F, l.j, l.jj)
         /\ l.x # empty =>
              /\ l.jj \in F /\ Run(r, F, firstIndex(Key(l.x)), l.jj) /\ Kept(w, l.x)
              /\ l.x \in Elements /\ Key(l.x) \in Keys /\ Key(l.x) \in Nat /\ firstIndex(Key(l.x)) \in Cells
              /\ r[firstIndex(Key(l.x))] <= r[l.j]
         /\ \A h \in R : r[firstIndex(KeyAt(h))] <= r[l.j] /\ r[l.j] < r[h] =>
              l.x # empty /\ KeyAt(h) <= Key(l.x) /\ (KeyAt(h) = Key(l.x) => r[h] <= r[l.jj])
<1> DEFINE l == me[p]
<1>1. /\ l \in Locals /\ LocalOK(r, F, w, l) /\ FillOK(r, R, TA, l)
      /\ l.j \in Cells /\ l.jj \in Cells /\ Key(l.v) \in Nat /\ l.c \in Slots /\ l.x \in Slots
      /\ l.x # empty => l.x \in Elements /\ Key(l.x) \in Keys /\ Key(l.x) \in Nat /\ firstIndex(Key(l.x)) \in Cells
  BY OwnFacts
<1>2. /\ ~Misses(l) /\ r[l.j] < r[l.jj] /\ Run(r, F, l.j, l.jj)
      /\ l.x # empty => l.jj \in F /\ Run(r, F, firstIndex(Key(l.x)), l.jj) /\ Kept(w, l.x)
      /\ l.x # empty => r[firstIndex(Key(l.x))] <= r[l.j]
      /\ l.c # empty => l.j \in F
  BY <1>1 DEF LocalOK
<1>3. Full(l.j) /\ KeyAt(l.j) = Key(l.v) /\ l.c # empty
  BY <1>2 DEF Misses, Full, KeyAt
<1>4. r[l.j] \in Nat /\ r[l.jj] \in Nat
  BY <1>1, CellFacts
<1>5. ASSUME NEW h \in R, r[firstIndex(KeyAt(h))] <= r[l.j], r[l.j] < r[h]
      PROVE  l.x # empty /\ KeyAt(h) <= Key(l.x) /\ (KeyAt(h) = Key(l.x) => r[h] <= r[l.jj])
  <2>1. r[l.j] + 1 <= r[h]
    BY <1>4, <1>5, CellFacts
  <2>2. From(r, l) = r[l.j] + 1
    BY DEF From
  <2> HIDE DEF l
  <2> QED BY <1>1, <1>5, <2>1, <2>2 DEF FillOK, KeyAt, l
<1> QED BY <1>1, <1>2, <1>3, <1>4, <1>5

(* The thread's own copy goes; if that was another thread's, this one gets *)
(* the thread's.                                                           *)
LEMMA Handed ==
  ASSUME Params, TypeOK, NEW r, NEW F, NEW w, NEW R, NEW g, Frame(r, F, w, R, g),
         NEW p \in Procs, me[p].pc = "replace", TA[me[p].j] = me[p].c,
         NEW j \in Cells, j = me[p].j,
         NEW f, \A h \in Cells : f[h] = IF g[h] = p THEN g[j] ELSE g[h]
  PROVE  /\ \A h \in Cells \ R : Full(h) /\ h # j =>
              /\ f[h] \in Procs /\ f[h] # p /\ Deleting(me[f[h]])
              /\ Key(me[f[h]].v) = KeyAt(h) /\ r[h] <= Place(r, me[f[h]])
              /\ \A q \in Cells \ R : Full(q) /\ q # j /\ f[q] = f[h] => q = h
         /\ \A e \in content :
              /\ Kept(w, e) /\ \E h \in R : TA[h] = e /\ h # j
              /\ \A q \in Procs : q # p /\ me[q].pc # "idle" /\ Key(me[q].v) = Key(e) =>
                   Deleting(me[q]) /\ \E h \in Cells \ R : h # j /\ Full(h) /\ KeyAt(h) = Key(e) /\ f[h] = q
<1>1. Full(j) /\ KeyAt(j) = Key(me[p].v) /\ r[j] \in Nat
  BY ReplaceFacts
<1>2. \A h \in Cells \ R : Full(h) =>
        /\ g[h] \in Procs /\ Deleting(me[g[h]])
        /\ Key(me[g[h]].v) = KeyAt(h) /\ r[h] <= Place(r, me[g[h]])
        /\ \A q \in Cells \ R : Full(q) /\ g[q] = g[h] => q = h
  BY DEF Frame, CopiesOK
<1>3. ASSUME NEW h \in Cells \ R, Full(h), h # j, g[h] = p
      PROVE  j \notin R /\ KeyAt(j) = KeyAt(h) /\ r[h] < r[j] /\ g[j] # p /\ f[h] = g[j]
  <2>1. KeyAt(h) = KeyAt(j) /\ r[h] <= r[j]
    BY <1>1, <1>2, <1>3 DEF Place
  <2>2. r[h] < r[j]
    BY <1>1, <1>3, <2>1, CellFacts
  <2>3. j \notin R
    BY <1>1, <1>3, <2>1, <2>2, CellFacts DEF Frame, RootsOK
  <2> QED BY <1>1, <1>2, <1>3, <2>1, <2>2, <2>3
<1>4. ASSUME NEW h \in Cells \ R, Full(h), h # j
      PROVE  /\ f[h] \in Procs /\ f[h] # p /\ Deleting(me[f[h]])
             /\ Key(me[f[h]].v) = KeyAt(h) /\ r[h] <= Place(r, me[f[h]])
             /\ \A q \in Cells \ R : Full(q) /\ q # j /\ f[q] = f[h] => q = h
  <2>1. CASE g[h] = p
    <3>1. j \notin R /\ KeyAt(j) = KeyAt(h) /\ r[h] < r[j] /\ g[j] # p /\ f[h] = g[j]
      BY <1>3, <1>4, <2>1
    <3>2. /\ g[j] \in Procs /\ Deleting(me[g[j]])
          /\ Key(me[g[j]].v) = KeyAt(j) /\ r[j] <= Place(r, me[g[j]])
          /\ \A q \in Cells \ R : Full(q) /\ g[q] = g[j] => q = j
      BY <1>1, <1>2, <3>1
    <3>3. Place(r, me[g[j]]) \in Int /\ r[h] \in Nat
      <4>1. r[me[g[j]].j] \in Nat
        BY <3>2, OwnFacts, CellFacts DEF Deleting, Busy
      <4> QED BY <4>1, CellFacts DEF Place
    <3>4. r[h] <= Place(r, me[g[j]])
      BY <1>1, <3>1, <3>2, <3>3
    <3>5. ASSUME NEW q \in Cells \ R, Full(q), q # j, f[q] = g[j] PROVE q = h
      <4>1. CASE g[q] = p
        BY <1>2, <1>4, <2>1, <3>5, <4>1
      <4>2. CASE g[q] # p
        BY <3>2, <3>5, <4>2
      <4> QED BY <4>1, <4>2
    <3> QED BY <3>1, <3>2, <3>4, <3>5
  <2>2. CASE g[h] # p
    <3>1. f[h] = g[h]
      BY <2>2
    <3>2. ASSUME NEW q \in Cells \ R, Full(q), q # j, f[q] = g[h] PROVE q = h
      <4>1. CASE g[q] = p
        <5>1. j \notin R /\ f[q] = g[j]
          BY <1>3, <3>2, <4>1
        <5> QED BY <1>1, <1>2, <1>4, <3>2, <5>1
      <4>2. CASE g[q] # p
        BY <1>2, <1>4, <3>2, <4>2
      <4> QED BY <4>1, <4>2
    <3> QED BY <1>2, <1>4, <2>2, <3>1, <3>2
  <2> QED BY <2>1, <2>2
<1>5. ASSUME NEW e \in content
      PROVE  /\ Kept(w, e) /\ \E h \in R : TA[h] = e /\ h # j
             /\ \A q \in Procs : q # p /\ me[q].pc # "idle" /\ Key(me[q].v) = Key(e) =>
                  Deleting(me[q]) /\ \E h \in Cells \ R : h # j /\ Full(h) /\ KeyAt(h) = Key(e) /\ f[h] = q
  <2>1. /\ Kept(w, e) /\ \E h \in R : TA[h] = e
        /\ \A q \in Procs : me[q].pc # "idle" /\ Key(me[q].v) = Key(e) =>
             Deleting(me[q]) /\ \E h \in Cells \ R : Full(h) /\ KeyAt(h) = Key(e) /\ g[h] = q
    BY DEF Frame, ContentOK
  <2>2. ASSUME Key(e) = KeyAt(j)
        PROVE  \E n \in Cells \ R : Full(n) /\ KeyAt(n) = KeyAt(j) /\ g[n] = p
    BY <1>1, <2>1, <2>2
  <2>3. PICK h \in R : TA[h] = e
    BY <2>1
  <2>4. h # j
    <3> SUFFICES ASSUME h = j PROVE FALSE
      OBVIOUS
    <3>1. PICK n \in Cells \ R : Full(n) /\ KeyAt(n) = KeyAt(j) /\ g[n] = p
      BY <2>2, <2>3 DEF KeyAt
    <3> QED BY <1>3, <2>3, <3>1
  <2>5. ASSUME NEW q \in Procs, q # p, me[q].pc # "idle", Key(me[q].v) = Key(e)
        PROVE  Deleting(me[q]) /\ \E n \in Cells \ R : n # j /\ Full(n) /\ KeyAt(n) = Key(e) /\ f[n] = q
    <3>1. PICK m \in Cells \ R : Full(m) /\ KeyAt(m) = Key(e) /\ g[m] = q
      BY <2>1, <2>5
    <3>2. CASE m # j
      BY <2>1, <2>5, <3>1, <3>2
    <3>3. CASE m = j
      <4>1. PICK n \in Cells \ R : Full(n) /\ KeyAt(n) = KeyAt(j) /\ g[n] = p
        BY <2>2, <3>1, <3>3
      <4>2. n # j /\ f[n] = q
        BY <2>5, <3>1, <3>3, <4>1
      <4> QED BY <2>1, <2>5, <3>1, <3>3, <4>1, <4>2
    <3> QED BY <3>2, <3>3
  <2> QED BY <2>1, <2>3, <2>4, <2>5
<1> QED BY <1>4, <1>5

(* It was filled with what it held: the thread goes on to the copy above.  *)
LEMMA ReplaceSameKeeps ==
  ASSUME Params, TypeOK, NEW r, NEW F, NEW w, NEW R, NEW g, Frame(r, F, w, R, g),
         NEW p \in Procs, Replace(p), TA[me[p].j] = me[p].c,
         me[p].x # empty, Key(me[p].x) = Key(me[p].v)
  PROVE  TypeOK' /\ Frame(r, F, w, R, g)'
<1> DEFINE j == me[p].j
           x == me[p].x
           m == [me[p] EXCEPT !.v = x, !.j = me[p].jj, !.i = firstIndex(Key(x))]
           l == [m EXCEPT !.pc = "reread"]
<1>0. me[p].pc = "replace"
  BY DEF Replace
<1>1. /\ me[p] \in Locals /\ LocalOK(r, F, w, me[p]) /\ j \in Cells /\ me[p].jj \in Cells
      /\ Full(j) /\ KeyAt(j) = Key(me[p].v) /\ r[j] \in Nat /\ r[me[p].jj] \in Nat /\ r[j] < r[me[p].jj]
      /\ me[p].jj \in F /\ Run(r, F, firstIndex(Key(x)), me[p].jj) /\ Kept(w, x)
      /\ x \in Elements /\ Key(x) \in Keys /\ firstIndex(Key(x)) \in Cells
  BY <1>0, ReplaceFacts
<1>2. TA[j] = x
  <2>1. TA[j] \in Elements /\ TA[j][2] = w[Key(x)] /\ Key(TA[j]) = Key(x)
    BY <1>1, CellFacts DEF KeyAt
  <2>2. x[2] = w[Key(x)]
    BY <1>1 DEF Kept
  <2> QED BY <1>1, <2>1, <2>2, KeyTypes
<1>3. TA' = TA /\ me' = [me EXCEPT ![p] = l] /\ content' = content /\ phase' = phase
  <2>1. TA' = [TA EXCEPT ![j] = x]
    BY DEF Replace
  <2>2. me' = [me EXCEPT ![p] = l] /\ content' = content /\ phase' = phase
    BY DEF Replace, Goto
  <2> HIDE DEF j, x
  <2> QED BY <1>1, <1>2, <2>1, <2>2 DEF TypeOK
<1>4. l \in Locals /\ l.pc = "reread" /\ l.v = x /\ l.i = firstIndex(Key(x)) /\ l.j = me[p].jj /\ l.c = me[p].c
  <2>1. x \in Keys \X Nat
    BY <1>1, KeyTypes
  <2> HIDE DEF x
  <2> QED BY <1>1, <2>1 DEF Locals, PCs
<1> HIDE DEF l, m
<1>5. LocalOK(r, F, w, l)
  BY <1>1, <1>4 DEF LocalOK, Busy
<1>6. FillOK(r, R, TA, l) /\ DownOK(r, R, TA, l)
  BY <1>4 DEF FillOK, DownOK
<1>7. ASSUME NEW h \in Cells \ R, Full(h), g[h] = p PROVE r[h] <= Place(r, l)
  <2>1. r[h] <= r[j]
    BY <1>0, <1>7 DEF Frame, CopiesOK, Place
  <2>2. r[h] \in Nat
    BY CellFacts
  <2> QED BY <1>1, <1>4, <2>1, <2>2 DEF Place
<1>8. l.v \in Keys \X Nat /\ Key(l.v) = Key(me[p].v)
  BY <1>1, <1>4, KeyTypes
<1> QED BY <1>0, <1>3, <1>4, <1>5, <1>6, <1>7, <1>8, SameKeyStep

(* Nothing moves up: the call returns.                                     *)
LEMMA ReplaceEmptyKeeps ==
  ASSUME Params, TypeOK, NEW r, NEW F, NEW w, NEW R, NEW g, Frame(r, F, w, R, g),
         NEW p \in Procs, Replace(p), TA[me[p].j] = me[p].c, me[p].x = empty
  PROVE  TypeOK' /\ DeleteOK'
<1>0. me[p].pc = "replace"
  BY DEF Replace
<1>j. PICK j : j = me[p].j
  OBVIOUS
<1>S. PICK S : S = R \ {j}
  OBVIOUS
<1>f. PICK f : f = [h \in Cells |-> IF g[h] = p THEN g[j] ELSE g[h]]
  OBVIOUS
<1>1. j \in Cells /\ r[j] \in Nat /\ \A h \in R : ~(r[firstIndex(KeyAt(h))] <= r[j] /\ r[j] < r[h])
  BY <1>0, <1>j, ReplaceFacts
<1>2. TA' = [TA EXCEPT ![j] = empty] /\ me' = [me EXCEPT ![p] = Idle] /\ content' = content /\ phase' = phase
  BY <1>j DEF Replace, Return
<1>3. /\ TA' \in [Cells -> Slots] /\ TA'[j] = empty /\ \A h \in Cells : h # j => TA'[h] = TA[h]
      /\ \A h \in Cells : Full(h)' => Full(h) /\ h # j /\ KeyAt(h)' = KeyAt(h)
      /\ \A h \in Cells : Full(h) /\ h # j => Full(h)'
  BY <1>1, <1>2 DEF TypeOK, Slots, Full, KeyAt
<1>4. /\ me' \in [Procs -> Locals] /\ me'[p].pc = "idle" /\ \A q \in Procs : q # p => me'[q] = me[q]
      /\ \A q \in Procs : me'[q].pc # "idle" => me'[q].v \in Keys \X Nat
  BY <1>2, IdleType, LocalStep
<1>5. TypeOK'
  BY <1>2, <1>3, <1>4 DEF TypeOK
<1>6. /\ \A h \in Cells \ R : Full(h) /\ h # j =>
           /\ f[h] \in Procs /\ f[h] # p /\ Deleting(me[f[h]])
           /\ Key(me[f[h]].v) = KeyAt(h) /\ r[h] <= Place(r, me[f[h]])
           /\ \A q \in Cells \ R : Full(q) /\ q # j /\ f[q] = f[h] => q = h
      /\ \A e \in content :
           /\ Kept(w, e) /\ \E h \in R : TA[h] = e /\ h # j
           /\ \A q \in Procs : q # p /\ me[q].pc # "idle" /\ Key(me[q].v) = Key(e) =>
                Deleting(me[q]) /\ \E h \in Cells \ R : h # j /\ Full(h) /\ KeyAt(h) = Key(e) /\ f[h] = q
  <2>1. \A h \in Cells : f[h] = IF g[h] = p THEN g[j] ELSE g[h]
    BY <1>f
  <2> QED BY <1>0, <1>j, <1>1, <2>1, Handed
<1>7. SlotsOK(r, F, w)'
  BY <1>3 DEF Frame, SlotsOK
<1>8. LocalsOK(r, F, w)'
  BY <1>4 DEF Frame, LocalsOK
<1>9. \A h \in S : h \in R /\ h # j /\ h \in Cells /\ Full(h) /\ TA'[h] = TA[h] /\ KeyAt(h)' = KeyAt(h)
  BY <1>3, <1>S DEF Frame, RootsOK, KeyAt
<1>10. RootsOK(r, S)'
  <2> SUFFICES ASSUME NEW h \in S
               PROVE  /\ h \in Cells /\ Full(h)' /\ Wanted(h)'
                      /\ \A q \in Cells : Full(q)' /\ KeyAt(q)' = KeyAt(h)' => r[h] <= r[q]
                      /\ \A q \in Cells : r[firstIndex(KeyAt(h))] <= r[q] /\ r[q] < r[h] => Above(TA'[q], KeyAt(h))
    BY <1>9 DEF RootsOK
  <2>1. Full(h)' /\ h \in Cells
    BY <1>3, <1>9
  <2>2. Wanted(h)'
    <3>1. Wanted(h)
      BY <1>9 DEF Frame, RootsOK
    <3>2. \A q \in Procs : me[q].pc = "down" => me'[q] = me[q]
      BY <1>0, <1>4
    <3>3. TA[h] \in content => TA'[h] \in content'
      BY <1>2, <1>9
    <3>4. (\E q \in Procs : me[q].pc = "down" /\ Key(me[q].v) = KeyAt(h)) =>
            \E q \in Procs : me'[q].pc = "down" /\ Key(me'[q].v) = KeyAt(h)'
      BY <1>9, <3>2
    <3> QED BY <3>1, <3>3, <3>4 DEF Wanted
  <2>3. \A q \in Cells : Full(q)' /\ KeyAt(q)' = KeyAt(h)' => r[h] <= r[q]
    BY <1>3, <1>9 DEF Frame, RootsOK
  <2>4. ASSUME NEW q \in Cells, r[firstIndex(KeyAt(h))] <= r[q], r[q] < r[h] PROVE Above(TA'[q], KeyAt(h))
    BY <1>1, <1>3, <1>9, <2>4 DEF Frame, RootsOK
  <2> QED BY <2>1, <2>2, <2>3, <2>4
<1>11. CopiesOK(r, S, f)'
  <2> SUFFICES ASSUME NEW h \in Cells \ S, Full(h)'
               PROVE  /\ f[h] \in Procs /\ Deleting(me'[f[h]])
                      /\ Key(me'[f[h]].v) = KeyAt(h)' /\ r[h] <= Place(r, me'[f[h]])
                      /\ \A q \in Cells \ S : Full(q)' /\ f[q] = f[h] => q = h
    BY DEF CopiesOK
  <2>1. \A q \in Cells \ S : Full(q)' => q \in Cells \ R /\ q # j /\ Full(q)
    BY <1>3, <1>S
  <2> QED BY <1>3, <1>4, <1>6, <2>1
<1>12. ContentOK(w, S, f)'
  <2> SUFFICES ASSUME NEW e \in content
               PROVE  /\ Kept(w, e) /\ \E h \in S : TA'[h] = e
                      /\ \A q \in Procs : me'[q].pc # "idle" /\ Key(me'[q].v) = Key(e) =>
                           Deleting(me'[q]) /\ \E h \in Cells \ S : Full(h)' /\ KeyAt(h)' = Key(e) /\ f[h] = q
    BY <1>2 DEF ContentOK
  <2>1. Kept(w, e) /\ \E h \in S : TA'[h] = e
    <3>1. PICK h \in R : TA[h] = e /\ h # j
      BY <1>6
    <3> QED BY <1>6, <1>9, <1>S, <3>1
  <2>2. ASSUME NEW q \in Procs, me'[q].pc # "idle", Key(me'[q].v) = Key(e)
        PROVE  Deleting(me'[q]) /\ \E h \in Cells \ S : Full(h)' /\ KeyAt(h)' = Key(e) /\ f[h] = q
    <3>1. q # p /\ me'[q] = me[q]
      BY <1>4, <2>2
    <3>2. Deleting(me[q]) /\ \E h \in Cells \ R : h # j /\ Full(h) /\ KeyAt(h) = Key(e) /\ f[h] = q
      BY <1>6, <2>2, <3>1
    <3>3. PICK h \in Cells \ R : h # j /\ Full(h) /\ KeyAt(h) = Key(e) /\ f[h] = q
      BY <3>2
    <3>4. h \in Cells \ S /\ Full(h)' /\ KeyAt(h)' = KeyAt(h)
      BY <1>3, <1>S, <3>3
    <3> QED BY <3>1, <3>2, <3>3, <3>4
  <2> QED BY <2>1, <2>2
<1>13. \A q \in Procs : FillOK(r, S, TA', me'[q]) /\ DownOK(r, S, TA', me'[q])
  <2>1. FillOK(r, S, TA', me'[p]) /\ DownOK(r, S, TA', me'[p])
    BY <1>4 DEF FillOK, DownOK
  <2>2. ASSUME NEW q \in Procs PROVE FillOK(r, S, TA', me[q]) /\ DownOK(r, S, TA', me[q])
    <3>1. FillOK(r, R, TA, me[q]) /\ DownOK(r, R, TA, me[q])
      BY DEF Frame
    <3> QED BY <1>9, <3>1 DEF FillOK, DownOK
  <2> QED BY <1>4, <2>1, <2>2
<1>14. Frame(r, F, w, S, f)'
  BY <1>7, <1>8, <1>10, <1>11, <1>12, <1>13 DEF Frame
<1> QED BY <1>5, <1>14 DEF DeleteOK

(* An element moves up to j. It is there twice: if its root was above j,   *)
(* j is the root now and the thread deletes the old one; else the thread   *)
(* deletes the copy at j.                                                  *)
LEMMA ReplaceMovesKeeps ==
  ASSUME Params, TypeOK, NEW r, NEW F, NEW w, NEW R, NEW g, Frame(r, F, w, R, g),
         NEW p \in Procs, Replace(p), TA[me[p].j] = me[p].c,
         me[p].x # empty, Key(me[p].x) # Key(me[p].v)
  PROVE  TypeOK' /\ DeleteOK'
<1>0. me[p].pc = "replace"
  BY DEF Replace
<1>j. PICK j : j = me[p].j
  OBVIOUS
<1>n. PICK n : n = me[p].jj
  OBVIOUS
<1>x. PICK x : x = me[p].x
  OBVIOUS
<1>z. PICK z : z = Key(x)
  OBVIOUS
<1> DEFINE m == [me[p] EXCEPT !.v = x, !.j = n, !.i = firstIndex(z)]
           l == [m EXCEPT !.pc = "reread"]
<1>1. /\ me[p] \in Locals /\ LocalOK(r, F, w, me[p]) /\ j \in Cells /\ n \in Cells
      /\ Full(j) /\ KeyAt(j) = Key(me[p].v) /\ r[j] \in Nat /\ r[n] \in Nat /\ r[j] < r[n] /\ j \in F
      /\ n \in F /\ Run(r, F, firstIndex(z), n) /\ Kept(w, x)
      /\ x \in Elements /\ z \in Keys /\ z \in Nat /\ firstIndex(z) \in Cells /\ r[firstIndex(z)] <= r[j]
      /\ x # empty /\ x \in Slots /\ x \in Keys \X Nat /\ z # KeyAt(j)
      /\ \A h \in R : r[firstIndex(KeyAt(h))] <= r[j] /\ r[j] < r[h] =>
           KeyAt(h) <= z /\ (KeyAt(h) = z => r[h] <= r[n])
  <2>1. x \in Elements => x \in Slots /\ x \in Keys \X Nat
    BY KeyTypes DEF Slots
  <2> QED BY <1>0, <1>j, <1>n, <1>x, <1>z, <2>1, ReplaceFacts
<1>2. TA' = [TA EXCEPT ![j] = x] /\ me' = [me EXCEPT ![p] = l] /\ content' = content /\ phase' = phase
  BY <1>j, <1>n, <1>x, <1>z DEF Replace, Goto
<1>3. /\ TA' \in [Cells -> Slots] /\ TA'[j] = x /\ \A h \in Cells : h # j => TA'[h] = TA[h]
      /\ Full(j)' /\ KeyAt(j)' = z
      /\ \A h \in Cells : h # j => (Full(h)' <=> Full(h)) /\ KeyAt(h)' = KeyAt(h)
  BY <1>1, <1>2, <1>z DEF TypeOK, Full, KeyAt
<1>4. l \in Locals /\ l.pc = "reread" /\ l.v = x /\ l.i = firstIndex(z) /\ l.j = n /\ l.c = me[p].c
  BY <1>1 DEF Locals, PCs
<1> HIDE DEF l, m
<1>5. /\ me' \in [Procs -> Locals] /\ me'[p] = l /\ \A q \in Procs : q # p => me'[q] = me[q]
      /\ \A q \in Procs : me'[q].pc # "idle" => me'[q].v \in Keys \X Nat
  BY <1>1, <1>2, <1>4, LocalStep
<1>6. TypeOK'
  BY <1>2, <1>3, <1>5 DEF TypeOK
<1>7. \A h \in R : h \in Cells /\ Full(h) /\ r[h] \in Nat
  BY CellFacts DEF Frame, RootsOK
<1>8. \E L, S :
        /\ L \in Cells /\ S \subseteq Cells /\ L \notin S /\ r[j] <= r[L] /\ r[L] <= r[n] /\ Full(L)' /\ KeyAt(L)' = z
        /\ \A h \in S : h = j \/ (h \in R /\ h # j /\ h # L)
        /\ j \in S => L \in R /\ L # j /\ KeyAt(L) = z /\ r[j] < r[L] /\ TA[L] = x
        /\ \A h \in R : h # j /\ h # L => h \in S
        /\ \A h \in R : h # L /\ KeyAt(h) = z => r[h] < r[j]
        /\ L = j \/ (L \in R /\ j \in S)
  <2>1. CASE \E L \in R : KeyAt(L) = z /\ r[j] < r[L]
    <3> PICK L \in R : KeyAt(L) = z /\ r[j] < r[L]
      BY <2>1
    <3>1. r[L] <= r[n] /\ L \in Cells /\ Full(L) /\ L # j
      BY <1>1, <1>7
    <3>2. TA[L] = x
      <4>1. TA[L] \in Elements /\ TA[L][2] = w[z] /\ Key(TA[L]) = z
        BY <3>1, CellFacts DEF KeyAt
      <4>2. x[2] = w[z]
        BY <1>1, <1>z DEF Kept
      <4> QED BY <1>1, <1>z, <4>1, <4>2, KeyTypes
    <3>3. ASSUME NEW h \in R, h # L, KeyAt(h) = z PROVE r[h] < r[j]
      <4>1. r[h] <= r[L] /\ r[L] <= r[h]
        BY <1>7, <3>1, <3>3 DEF Frame, RootsOK
      <4> QED BY <1>7, <3>1, <3>3, <4>1, CellFacts
    <3> DEFINE S == (R \ {j, L}) \cup {j}
    <3>4. S \subseteq Cells /\ L \notin S
      BY <1>1, <1>7, <3>1
    <3>5. Full(L)' /\ KeyAt(L)' = z
      BY <1>3, <3>1
    <3>6. /\ \A h \in S : h = j \/ (h \in R /\ h # j /\ h # L)
          /\ \A h \in R : h # j /\ h # L => h \in S
          /\ j \in S
      OBVIOUS
    <3>7. r[j] <= r[L]
      BY <1>1, <1>7
    <3> HIDE DEF S
    <3> QED BY <3>1, <3>2, <3>3, <3>4, <3>5, <3>6, <3>7
  <2>2. CASE ~ \E L \in R : KeyAt(L) = z /\ r[j] < r[L]
    <3>1. ASSUME NEW h \in R, KeyAt(h) = z PROVE r[h] < r[j]
      <4>1. h # j
        BY <1>1, <3>1
      <4>2. r[h] # r[j]
        BY <1>1, <1>7, <4>1, CellFacts
      <4> QED BY <1>1, <1>7, <2>2, <3>1, <4>2
    <3> DEFINE S == R \ {j}
    <3>2. S \subseteq Cells /\ j \notin S /\ r[j] <= r[j] /\ r[j] <= r[n]
      BY <1>1, <1>7
    <3> QED BY <1>1, <1>3, <3>1, <3>2
  <2> QED BY <2>1, <2>2
<1>9. PICK L, S :
        /\ L \in Cells /\ S \subseteq Cells /\ L \notin S /\ r[j] <= r[L] /\ r[L] <= r[n] /\ Full(L)' /\ KeyAt(L)' = z
        /\ \A h \in S : h = j \/ (h \in R /\ h # j /\ h # L)
        /\ j \in S => L \in R /\ L # j /\ KeyAt(L) = z /\ r[j] < r[L] /\ TA[L] = x
        /\ \A h \in R : h # j /\ h # L => h \in S
        /\ \A h \in R : h # L /\ KeyAt(h) = z => r[h] < r[j]
        /\ L = j \/ (L \in R /\ j \in S)
  BY <1>8
<1>10. \A h \in Cells : h \notin S => h = L \/ (h \notin R /\ h # j)
  BY <1>9
<1>f. PICK f : f = [h \in Cells |-> IF g[h] = p THEN g[j] ELSE g[h]]
  OBVIOUS
<1>g. PICK g2 : g2 = [h \in Cells |-> IF h = L THEN p ELSE f[h]]
  OBVIOUS
<1>11. /\ \A h \in Cells \ R : Full(h) /\ h # j =>
            /\ f[h] \in Procs /\ f[h] # p /\ Deleting(me[f[h]])
            /\ Key(me[f[h]].v) = KeyAt(h) /\ r[h] <= Place(r, me[f[h]])
            /\ \A q \in Cells \ R : Full(q) /\ q # j /\ f[q] = f[h] => q = h
       /\ \A e \in content :
            /\ Kept(w, e) /\ \E h \in R : TA[h] = e /\ h # j
            /\ \A q \in Procs : q # p /\ me[q].pc # "idle" /\ Key(me[q].v) = Key(e) =>
                 Deleting(me[q]) /\ \E h \in Cells \ R : h # j /\ Full(h) /\ KeyAt(h) = Key(e) /\ f[h] = q
  <2>1. \A h \in Cells : f[h] = IF g[h] = p THEN g[j] ELSE g[h]
    BY <1>f
  <2> QED BY <1>0, <1>j, <1>1, <2>1, Handed
<1>12. SlotsOK(r, F, w)'
  <2>1. Run(r, F, firstIndex(z), j)
    BY <1>1, CellFacts DEF Run
  <2>2. ASSUME NEW h \in Cells, Full(h)' PROVE h \in F /\ Run(r, F, firstIndex(KeyAt(h)'), h) /\ Kept(w, TA'[h])
    <3>1. CASE h = j
      BY <1>1, <1>3, <2>1, <3>1
    <3>2. CASE h # j
      BY <1>3, <2>2, <3>2 DEF Frame, SlotsOK
    <3> QED BY <3>1, <3>2
  <2> QED BY <2>2 DEF SlotsOK
<1>13. LocalsOK(r, F, w)'
  <2>1. LocalOK(r, F, w, l)
    BY <1>1, <1>4, <1>n, <1>x, <1>z DEF LocalOK, Busy
  <2> QED BY <1>5, <2>1 DEF Frame, LocalsOK
<1>14. RootsOK(r, S)'
  <2> SUFFICES ASSUME NEW h \in S
               PROVE  /\ h \in Cells /\ Full(h)' /\ Wanted(h)'
                      /\ \A q \in Cells : Full(q)' /\ KeyAt(q)' = KeyAt(h)' => r[h] <= r[q]
                      /\ \A q \in Cells : r[firstIndex(KeyAt(h)')] <= r[q] /\ r[q] < r[h] => Above(TA'[q], KeyAt(h)')
    BY DEF RootsOK
  <2>0. \A q \in Procs : me[q].pc = "down" => me'[q] = me[q]
    BY <1>0, <1>5
  <2>1. CASE h = j
    <3>1. L \in R /\ L # j /\ KeyAt(L) = z /\ r[j] < r[L] /\ TA[L] = x /\ Full(L)
      BY <1>7, <1>9, <2>1
    <3>2. Wanted(L) /\ Full(h)' /\ KeyAt(h)' = z /\ TA'[h] = TA[L]
      BY <1>3, <2>1, <3>1 DEF Frame, RootsOK
    <3>3. Wanted(h)'
      BY <1>2, <2>0, <3>1, <3>2 DEF Wanted
    <3>4. ASSUME NEW q \in Cells, Full(q)', KeyAt(q)' = z PROVE r[h] <= r[q]
      <4>1. CASE q = j
        BY <1>1, <2>1, <4>1
      <4>2. CASE q # j
        <5>1. Full(q) /\ KeyAt(q) = z
          BY <1>3, <3>4, <4>2
        <5>2. r[L] <= r[q] /\ r[q] \in Nat
          BY <3>1, <5>1, CellFacts DEF Frame, RootsOK
        <5> QED BY <1>1, <1>7, <2>1, <3>1, <5>2
      <4> QED BY <4>1, <4>2
    <3>5. ASSUME NEW q \in Cells, r[firstIndex(z)] <= r[q], r[q] < r[h] PROVE Above(TA'[q], z)
      <4>1. q # j /\ r[q] < r[L]
        BY <1>1, <1>7, <2>1, <3>1, <3>5, CellFacts
      <4>2. Above(TA[q], z)
        BY <3>1, <3>5, <4>1 DEF Frame, RootsOK
      <4> QED BY <1>3, <4>1, <4>2
    <3> QED BY <1>1, <2>1, <3>2, <3>3, <3>4, <3>5
  <2>2. CASE h # j
    <3>1. h \in R /\ h # L /\ h \in Cells /\ Full(h) /\ r[h] \in Nat
      BY <1>7, <1>9, <2>2
    <3>2. Full(h)' /\ KeyAt(h)' = KeyAt(h) /\ TA'[h] = TA[h] /\ KeyAt(h) \in Nat
      BY <1>3, <2>2, <3>1, CellFacts
    <3>3. Wanted(h)'
      <4>1. Wanted(h)
        BY <3>1 DEF Frame, RootsOK
      <4> QED BY <1>2, <2>0, <3>2, <4>1 DEF Wanted
    <3>4. ASSUME NEW q \in Cells, Full(q)', KeyAt(q)' = KeyAt(h) PROVE r[h] <= r[q]
      <4>1. CASE q = j
        BY <1>1, <1>3, <1>9, <3>1, <3>4, <4>1
      <4>2. CASE q # j
        BY <1>3, <3>1, <3>4, <4>2 DEF Frame, RootsOK
      <4> QED BY <4>1, <4>2
    <3>5. ASSUME NEW q \in Cells, r[firstIndex(KeyAt(h))] <= r[q], r[q] < r[h] PROVE Above(TA'[q], KeyAt(h))
      <4>1. CASE q = j
        <5>1. KeyAt(h) <= z
          BY <1>1, <3>1, <3>5, <4>1
        <5>2. KeyAt(h) # z
          BY <1>1, <1>9, <3>1, <3>5, <4>1
        <5> QED BY <1>1, <1>3, <1>z, <3>2, <4>1, <5>1, <5>2 DEF Above
      <4>2. CASE q # j
        BY <1>3, <3>1, <3>5, <4>2 DEF Frame, RootsOK
      <4> QED BY <4>1, <4>2
    <3> QED BY <3>1, <3>2, <3>3, <3>4, <3>5
  <2> QED BY <2>1, <2>2
<1>15. CopiesOK(r, S, g2)'
  <2> SUFFICES ASSUME NEW h \in Cells \ S, Full(h)'
               PROVE  /\ g2[h] \in Procs /\ Deleting(me'[g2[h]])
                      /\ Key(me'[g2[h]].v) = KeyAt(h)' /\ r[h] <= Place(r, me'[g2[h]])
                      /\ \A q \in Cells \ S : Full(q)' /\ g2[q] = g2[h] => q = h
    BY DEF CopiesOK
  <2>1. \A q \in Cells \ S : q # L /\ Full(q)' =>
          /\ q \in Cells \ R /\ q # j /\ Full(q) /\ KeyAt(q)' = KeyAt(q)
          /\ g2[q] = f[q] /\ f[q] \in Procs /\ f[q] # p
    BY <1>3, <1>10, <1>11, <1>g
  <2>2. g2[L] = p
    BY <1>9, <1>g
  <2>3. CASE h = L
    <3>1. Deleting(l) /\ Place(r, l) = r[n]
      BY <1>4 DEF Deleting, Busy, Place
    <3>2. \A q \in Cells \ S : Full(q)' /\ g2[q] = p => q = L
      BY <2>1
    <3>3. Key(l.v) = z
      BY <1>4, <1>z
    <3> QED BY <1>5, <1>9, <2>2, <2>3, <3>1, <3>2, <3>3
  <2>4. CASE h # L
    <3>1. /\ h \in Cells \ R /\ h # j /\ Full(h) /\ KeyAt(h)' = KeyAt(h)
          /\ g2[h] = f[h] /\ f[h] \in Procs /\ f[h] # p
      BY <2>1, <2>4
    <3>2. \A q \in Cells \ S : Full(q)' /\ g2[q] = f[h] => q = h
      BY <1>11, <2>1, <2>2, <3>1
    <3> QED BY <1>5, <1>11, <3>1, <3>2
  <2> QED BY <2>3, <2>4
<1>16. ContentOK(w, S, g2)'
  <2> SUFFICES ASSUME NEW e \in content
               PROVE  /\ Kept(w, e) /\ \E h \in S : TA'[h] = e
                      /\ \A q \in Procs : me'[q].pc # "idle" /\ Key(me'[q].v) = Key(e) =>
                           Deleting(me'[q]) /\ \E h \in Cells \ S : Full(h)' /\ KeyAt(h)' = Key(e) /\ g2[h] = q
    BY <1>2 DEF ContentOK
  <2>1. Kept(w, e) /\ \E h \in S : TA'[h] = e
    <3>1. PICK h \in R : TA[h] = e /\ h # j
      BY <1>11
    <3>2. CASE h = L
      BY <1>3, <1>9, <1>11, <3>1, <3>2
    <3>3. CASE h # L
      BY <1>3, <1>7, <1>9, <1>11, <3>1, <3>3
    <3> QED BY <3>2, <3>3
  <2>2. ASSUME NEW q \in Procs, me'[q].pc # "idle", Key(me'[q].v) = Key(e)
        PROVE  Deleting(me'[q]) /\ \E h \in Cells \ S : Full(h)' /\ KeyAt(h)' = Key(e) /\ g2[h] = q
    <3>1. CASE q = p
      <4>1. Deleting(l) /\ Key(l.v) = z
        BY <1>4, <1>z DEF Deleting, Busy
      <4>2. g2[L] = p
        BY <1>9, <1>g
      <4> QED BY <1>5, <1>9, <2>2, <3>1, <4>1, <4>2
    <3>2. CASE q # p
      <4>1. Deleting(me[q]) /\ \E h \in Cells \ R : h # j /\ Full(h) /\ KeyAt(h) = Key(e) /\ f[h] = q
        BY <1>5, <1>11, <2>2, <3>2
      <4>2. PICK h \in Cells \ R : h # j /\ Full(h) /\ KeyAt(h) = Key(e) /\ f[h] = q
        BY <4>1
      <4>3. h \in Cells \ S /\ Full(h)' /\ KeyAt(h)' = KeyAt(h) /\ g2[h] = q
        BY <1>3, <1>9, <1>g, <4>2
      <4> QED BY <1>5, <3>2, <4>1, <4>2, <4>3
    <3> QED BY <3>1, <3>2
  <2> QED BY <2>1, <2>2
<1>17. \A q \in Procs : FillOK(r, S, TA', me'[q]) /\ DownOK(r, S, TA', me'[q])
  <2>1. FillOK(r, S, TA', l) /\ DownOK(r, S, TA', l)
    BY <1>4 DEF FillOK, DownOK
  <2>2. ASSUME NEW q \in Procs, q # p PROVE FillOK(r, S, TA', me[q]) /\ DownOK(r, S, TA', me[q])
    <3>1. FillOK(r, R, TA, me[q]) /\ DownOK(r, R, TA, me[q])
      BY DEF Frame
    <3>2. ASSUME NEW h \in S PROVE \E b \in R : Key(TA[b]) = Key(TA'[h]) /\ r[h] <= r[b] /\ r[b] \in Nat /\ r[h] \in Nat
      <4>1. CASE h = j
        BY <1>1, <1>3, <1>7, <1>9, <1>z, <4>1
      <4>2. CASE h # j
        BY <1>3, <1>7, <1>9, <4>2
      <4> QED BY <4>1, <4>2
    <3>3. FillOK(r, S, TA', me[q])
      <4> SUFFICES ASSUME me[q].pc \in {"scan", "rescan", "replace"}, NEW h \in S,
                          r[firstIndex(Key(TA'[h]))] <= r[me[q].j], r[me[q].j] < r[h], From(r, me[q]) <= r[h]
                   PROVE  /\ me[q].x # empty /\ Key(TA'[h]) <= Key(me[q].x)
                          /\ Key(TA'[h]) = Key(me[q].x) => r[h] <= r[me[q].jj]
        BY DEF FillOK
      <4>1. PICK b \in R : Key(TA[b]) = Key(TA'[h]) /\ r[h] <= r[b] /\ r[b] \in Nat /\ r[h] \in Nat
        BY <3>2
      <4>2. r[me[q].j] \in Nat /\ r[me[q].jj] \in Nat /\ r[me[q].jjj] \in Nat
        BY OwnFacts, CellFacts
      <4>3. From(r, me[q]) \in Nat
        BY <4>2 DEF From
      <4>4. r[me[q].j] < r[b] /\ From(r, me[q]) <= r[b]
        BY <4>1, <4>2, <4>3
      <4>5. me[q].x # empty /\ Key(TA[b]) <= Key(me[q].x) /\ (Key(TA[b]) = Key(me[q].x) => r[b] <= r[me[q].jj])
        BY <3>1, <4>1, <4>4 DEF FillOK
      <4> QED BY <4>1, <4>2, <4>5
    <3>4. DownOK(r, S, TA', me[q])
      <4> SUFFICES ASSUME me[q].pc = "down", NEW h \in S, Key(TA'[h]) = Key(me[q].v), ~Above(me[q].c, Key(me[q].v))
                   PROVE  r[h] <= r[me[q].j] /\ (Misses(me[q]) => r[h] < r[me[q].j])
        BY DEF DownOK
      <4>1. PICK b \in R : Key(TA[b]) = Key(TA'[h]) /\ r[h] <= r[b] /\ r[b] \in Nat /\ r[h] \in Nat
        BY <3>2
      <4>2. r[me[q].j] \in Nat
        BY OwnFacts, CellFacts
      <4>3. r[b] <= r[me[q].j] /\ (Misses(me[q]) => r[b] < r[me[q].j])
        BY <3>1, <4>1 DEF DownOK
      <4> QED BY <4>1, <4>2, <4>3
    <3> QED BY <3>3, <3>4
  <2> QED BY <1>5, <2>1, <2>2
<1>18. Frame(r, F, w, S, g2)'
  BY <1>12, <1>13, <1>14, <1>15, <1>16, <1>17 DEF Frame
<1> QED BY <1>6, <1>18 DEF DeleteOK

-----------------------------------------------------------------------------
(* Going up n cells is going the way of length n.                          *)
LEMMA RingFacts ==
  ASSUME Params, NEW h \in Cells
  PROVE  /\ \A n \in 0 .. M - 1 : (h + n) % M \in Cells /\ Dist(h, (h + n) % M) = n
         /\ \A q \in Cells : Dist(h, q) \in 0 .. M - 1 /\ (h + Dist(h, q)) % M = q
<1>1. M \in Nat /\ M > 0
  BY DEF Params
<1>2. ASSUME NEW n \in 0 .. M - 1 PROVE (h + n) % M = IF h + n < M THEN h + n ELSE h + n - M
  <2>1. CASE h + n < M
    BY <1>1, <2>1 DEF Cells
  <2>2. CASE h + n >= M
    <3>1. h + n = (h + n - M) + M /\ h + n - M \in 0 .. M - 1
      BY <1>1, <2>2 DEF Cells
    <3>2. ((h + n - M) + M) % M = h + n - M
      BY <1>1, <3>1
    <3>3. (h + n) % M = h + n - M
      BY <3>1, <3>2
    <3> QED BY <1>1, <2>2, <3>3 DEF Cells
  <2> QED BY <1>1, <2>1, <2>2 DEF Cells
<1>3. ASSUME NEW n \in 0 .. M - 1 PROVE (h + n) % M \in Cells /\ Dist(h, (h + n) % M) = n
  <2> DEFINE q == (h + n) % M
  <2>1. q = IF h + n < M THEN h + n ELSE h + n - M
    BY <1>2
  <2> HIDE DEF q
  <2>2. q \in Cells /\ Dist(h, q) = n
    BY <1>1, <2>1 DEF Cells, Dist
  <2> QED BY <2>2 DEF q
<1>4. ASSUME NEW q \in Cells PROVE Dist(h, q) \in 0 .. M - 1 /\ (h + Dist(h, q)) % M = q
  <2>1. Dist(h, q) \in 0 .. M - 1
    BY <1>1 DEF Cells, Dist
  <2>2. (h + Dist(h, q)) % M = IF h + Dist(h, q) < M THEN h + Dist(h, q) ELSE h + Dist(h, q) - M
    BY <1>2, <2>1
  <2> DEFINE x == (h + Dist(h, q)) % M
  <2>3. x = IF h + Dist(h, q) < M THEN h + Dist(h, q) ELSE h + Dist(h, q) - M
    BY <2>2
  <2> HIDE DEF x
  <2>4. x = q
    BY <1>1, <2>3 DEF Cells, Dist
  <2> QED BY <2>1, <2>4 DEF x
<1> QED BY <1>3, <1>4

(* Between phases: every cell's key has been kept from the cells before by *)
(* keys of higher priority, and the cells hold what the calls leave.       *)
Settled ==
  /\ Quiet
  /\ \A h \in Cells : TA[h] # empty => Reached(TA, Key(TA[h]), h)
  /\ \A e : e \in content <=> e # empty /\ \E h \in Cells : TA[h] = e
  /\ \A e, f \in content : Key(e) = Key(f) => e = f

LEMMA OneCell ==
  ASSUME Params, TypeOK, \A h \in Cells : TA[h] # empty => Reached(TA, Key(TA[h]), h),
         NEW a \in Cells, NEW b \in Cells, TA[a] # empty, TA[b] # empty, Key(TA[a]) = Key(TA[b])
  PROVE  a = b
<1> DEFINE k == Key(TA[a])
           i == firstIndex(k)
<1>1. k \in Keys /\ k \in Nat /\ i \in Cells
  BY KeyTypes DEF TypeOK, Slots
<1>2. ~(Dist(i, a) < Dist(i, b)) /\ ~(Dist(i, b) < Dist(i, a))
  <2>1. ~Above(TA[a], k) /\ ~Above(TA[b], k)
    BY <1>1 DEF Above
  <2>2. Reached(TA, k, b) /\ Reached(TA, k, a)
    OBVIOUS
  <2> HIDE DEF k
  <2> QED BY <2>1, <2>2 DEF Reached
<1>3. M \in Nat
  BY DEF Params
<1> HIDE DEF i
<1> QED BY <1>1, <1>2, <1>3 DEF Dist, Cells

LEMMA InsertSettles == ASSUME Params, TypeOK, InsertOK, Quiet PROVE Settled
<1>1. \A e : Holding(e) <=> \E h \in Cells : TA[h] = e
  BY DEF Holding, Carries, Quiet
<1>2. ASSUME NEW e, e \in content PROVE e # empty /\ \E h \in Cells : TA[h] = e
  BY <1>1, <1>2, KeyTypes DEF InsertOK, TypeOK
<1>3. ASSUME NEW h \in Cells, TA[h] # empty PROVE TA[h] \in content
  <2>1. TA[h] \in Elements /\ Holding(TA[h])
    BY <1>1, <1>3 DEF TypeOK, Slots
  <2>2. PICK f \in content : Key(f) = Key(TA[h])
    BY <2>1 DEF InsertOK
  <2>3. f # empty /\ \E g \in Cells : TA[g] = f
    BY <1>2
  <2>4. PICK g \in Cells : TA[g] = f
    BY <2>3
  <2>5. g = h
    BY <1>3, <2>2, <2>3, <2>4, OneCell DEF InsertOK
  <2> QED BY <2>4, <2>5
<1> QED BY <1>2, <1>3 DEF Settled, InsertOK

LEMMA DeleteSettles == ASSUME Params, TypeOK, DeleteOK, Quiet PROVE Settled
<1> PICK r, F, w, R, g : Frame(r, F, w, R, g)
  BY DEF DeleteOK
<1>1. ASSUME NEW h \in Cells, Full(h) PROVE h \in R
  BY <1>1 DEF Frame, CopiesOK, Deleting, Busy, Quiet
<1>2. ASSUME NEW h \in Cells, Full(h) PROVE TA[h] \in content
  <2>1. Wanted(h)
    BY <1>1, <1>2 DEF Frame, RootsOK
  <2> QED BY <2>1 DEF Wanted, Quiet
<1>3. ASSUME NEW h \in Cells, Full(h) PROVE Reached(TA, KeyAt(h), h)
  <2>1. /\ firstIndex(KeyAt(h)) \in Cells /\ r[firstIndex(KeyAt(h))] <= r[h]
        /\ \A q \in Cells : r[firstIndex(KeyAt(h))] <= r[q] /\ r[q] < r[h] => Above(TA[q], KeyAt(h))
    BY <1>1, <1>3, CellFacts DEF Frame, RootsOK
  <2>2. \A q \in Cells : Dist(firstIndex(KeyAt(h)), q) < Dist(firstIndex(KeyAt(h)), h)
          <=> r[firstIndex(KeyAt(h))] <= r[q] /\ r[q] < r[h]
    BY <2>1, SameWay DEF Frame
  <2> QED BY <2>1, <2>2 DEF Reached
<1>4. ASSUME NEW e \in content PROVE e # empty /\ e \in Elements /\ e[2] = w[Key(e)] /\ \E h \in Cells : TA[h] = e
  <2>1. e # empty /\ e \in Elements
    BY KeyTypes DEF TypeOK
  <2>2. Kept(w, e) /\ \E h \in R : TA[h] = e
    BY DEF Frame, ContentOK
  <2> QED BY <2>1, <2>2, CellFacts DEF Kept
<1>5. ASSUME NEW e \in content, NEW f \in content, Key(e) = Key(f) PROVE e = f
  BY <1>4, <1>5, KeyTypes
<1> QED BY <1>2, <1>3, <1>4, <1>5 DEF Settled, Full, KeyAt

LEMMA SettledInserts == ASSUME Params, TypeOK, Settled PROVE InsertOK
<1>1. \A p \in Procs : me[p].pc = "idle" /\ ~Carries(p)
  BY DEF Settled, Quiet, Carries
<1>2. \A e : Holding(e) <=> \E h \in Cells : TA[h] = e
  BY <1>1 DEF Holding
<1>3. \A e \in content : Holding(e)
  BY <1>2 DEF Settled
<1>4. ASSUME NEW e \in Elements, Holding(e) PROVE \E f \in content : Key(f) = Key(e) /\ e[2] <= f[2]
  <2>1. e \in content /\ e[2] \in Nat
    BY <1>2, <1>4, KeyTypes DEF Settled
  <2> QED BY <2>1
<1> QED BY <1>1, <1>3, <1>4 DEF Settled, InsertOK

(* Each key is in one cell, so that a cell is empty.                       *)
LEMMA KeysInCells ==
  ASSUME Params, TypeOK, Settled, NEW Q \in SUBSET Cells, \A h \in Q : Full(h),
         NEW K \in SUBSET Keys, \A h \in Q : KeyAt(h) \in K
  PROVE  IsFiniteSet(Q) /\ Cardinality(Q) <= Cardinality(K) /\ Cardinality(Q) \in Nat /\ Cardinality(K) \in Nat
<1> DEFINE f == [h \in Q |-> KeyAt(h)]
<1>1. IsFiniteSet(K)
  BY FS_Subset DEF Params
<1>2. \A a, b \in Q : KeyAt(a) = KeyAt(b) => a = b
  BY OneCell DEF Settled, Full, KeyAt
<1>3. f \in Injection(Q, K)
  <2>1. f \in [Q -> K]
    OBVIOUS
  <2> QED BY <1>2, <2>1 DEF Injection, IsInjective
<1>4. IsFiniteSet(Q) /\ Cardinality(Q) <= Cardinality(K)
  <2> HIDE DEF f
  <2> QED BY <1>1, <1>3, FS_Injection
<1> QED BY <1>1, <1>4, FS_CardinalityType

LEMMA EmptyCell == ASSUME Params, TypeOK, Settled PROVE \E b \in Cells : ~Full(b)
<1> SUFFICES ASSUME \A b \in Cells : Full(b) PROVE FALSE
  OBVIOUS
<1> DEFINE K == {k \in Keys : \E d \in 0 .. M - 1 : firstIndex(k) = (0 + d) % M}
<1>1. M \in Nat /\ M > 0 /\ 0 \in 0 .. M - 1 /\ M \in 1 .. M /\ 2 * M >= M
  BY DEF Params
<1>2. Cardinality(K) < M
  BY <1>1 DEF Params, ShortClusters
<1>3. \A h \in Cells : KeyAt(h) \in Keys
  BY KeyTypes DEF TypeOK, Slots, Full, KeyAt
<1>4. Keys \subseteq K
  <2> SUFFICES ASSUME NEW k \in Keys PROVE \E d \in 0 .. M - 1 : firstIndex(k) = (0 + d) % M
    OBVIOUS
  <2>1. firstIndex(k) \in Cells /\ 0 \in Cells
    BY <1>1, KeyTypes DEF Cells
  <2> QED BY <2>1, RingFacts
<1> HIDE DEF K
<1>5. K \subseteq Keys
  BY DEF K
<1>6. Cardinality(Cells) <= Cardinality(K) /\ Cardinality(K) \in Nat
  BY <1>3, <1>4, <1>5, KeysInCells
<1>7. Cardinality(Cells) = M
  <2>1. Cardinality(0 .. M - 1) = IF 0 > M - 1 THEN 0 ELSE (M - 1) - 0 + 1
    BY <1>1, FS_Interval
  <2> QED BY <1>1, <2>1 DEF Cells
<1> QED BY <1>1, <1>2, <1>6, <1>7

(* A run of full cells lies in a cluster, from the cell after an empty one *)
(* or after b; the keys in it hash in it.                                  *)
LEMMA RunsShort ==
  ASSUME Params, TypeOK, Settled, NEW r, NEW F, F = {h \in Cells : Full(h)}, Line(r, F),
         \A h \in F : KeyAt(h) \in Keys /\ firstIndex(KeyAt(h)) \in Cells /\ Run(r, F, firstIndex(KeyAt(h)), h)
  PROVE  Short(r, F)
<1> SUFFICES ASSUME NEW a \in Cells, NEW h \in Cells, Run(r, F, a, h), 2 * (r[h] - r[a]) >= M PROVE FALSE
  <2>1. M \in Nat /\ \A q \in Cells : r[q] \in Nat
    BY LineFacts
  <2> QED BY <2>1 DEF Short
<1>1. PICK b \in Cells : b \notin F /\ r = [g \in Cells |-> Rank(b, g)]
  BY DEF Line
<1>2. M \in Nat /\ M > 0
  BY DEF Params
<1>3. \A g \in Cells : r[g] = Rank(b, g)
  BY <1>1
<1>4. \A g \in Cells : r[g] \in Nat /\ r[g] < M
  BY <1>2, <1>3 DEF Rank, Cells
<1> DEFINE At(n) == IF n + b + 1 < M THEN n + b + 1 ELSE n + b + 1 - M
           T == {m \in Nat : m <= r[h] /\ \A q \in Cells : m <= r[q] /\ r[q] < r[h] => q \in F}
<1>5. \A n \in Cells : At(n) \in Cells /\ r[At(n)] = n
  BY <1>2, <1>3 DEF Rank, Cells
<1>6. r[a] \in T
  BY <1>4 DEF Run
<1>7. PICK m \in T : \A o \in T : m <= o
  <2> HIDE DEF T
  <2>1. T \in SUBSET Nat
    BY DEF T
  <2> QED BY <1>6, <2>1, Least
<1> DEFINE n == r[h] - m
           s == At(m)
           S == m .. r[h] - 1
           Q == {q \in Cells : m <= r[q] /\ r[q] < r[h]}
           K == {k \in Keys : \E d \in 0 .. n - 1 : firstIndex(k) = (s + d) % M}
<1>8. m \in Nat /\ m <= r[h] /\ m <= r[a] /\ \A q \in Cells : m <= r[q] /\ r[q] < r[h] => q \in F
  BY <1>6, <1>7
<1>9. n \in 1 .. M /\ 2 * n >= M /\ m \in Cells
  BY <1>2, <1>4, <1>8 DEF Run, Cells
<1>10. s \in Cells /\ r[s] = m
  BY <1>5, <1>9
<1> HIDE DEF At, T, s
<1>11. Cardinality(K) < n
  BY <1>9, <1>10 DEF Params, ShortClusters, Cells
<1>12. ASSUME NEW q \in Q PROVE KeyAt(q) \in K
  <2> DEFINE i == firstIndex(KeyAt(q))
  <2>1. q \in F /\ q \in Cells /\ m <= r[q] /\ r[q] < r[h]
    BY <1>8
  <2>2. KeyAt(q) \in Keys /\ i \in Cells /\ Run(r, F, i, q)
    BY <2>1
  <2> HIDE DEF i
  <2>3. r[i] >= m
    <3> SUFFICES ASSUME r[i] < m PROVE FALSE
      BY <1>4, <1>8, <2>2
    <3>1. m - 1 \in Nat /\ m - 1 <= r[h]
      BY <1>4, <1>8, <2>2
    <3>2. ASSUME NEW u \in Cells, m - 1 <= r[u], r[u] < r[h] PROVE u \in F
      <4>1. CASE r[u] < r[q]
        <5>1. r[i] <= r[u]
          BY <1>4, <1>8, <2>2, <3>2
        <5> QED BY <2>2, <4>1, <5>1 DEF Run
      <4>2. CASE r[u] >= r[q]
        <5>1. m <= r[u]
          BY <1>4, <1>8, <2>1, <4>2
        <5> QED BY <1>8, <3>2, <5>1
      <4> QED BY <1>4, <2>1, <4>1, <4>2
    <3>3. m - 1 \in T
      BY <3>1, <3>2 DEF T
    <3> QED BY <1>7, <1>8, <3>3
  <2>4. r[i] <= r[q]
    BY <2>2 DEF Run
  <2>5. Dist(s, i) = r[i] - m
    BY <1>2, <1>3, <1>10, <2>2, <2>3 DEF Rank, Cells, Dist
  <2>6. Dist(s, i) \in 0 .. n - 1
    BY <1>4, <1>8, <2>1, <2>2, <2>3, <2>4, <2>5
  <2>7. (s + Dist(s, i)) % M = i
    BY <1>10, <2>2, RingFacts
  <2> QED BY <2>2, <2>6, <2>7 DEF i
<1> DEFINE f == [o \in S |-> At(o)]
<1>13. ASSUME NEW o \in S PROVE At(o) \in Q /\ r[At(o)] = o
  <2>1. o \in Cells /\ m <= o /\ o < r[h]
    BY <1>2, <1>4, <1>8 DEF Cells
  <2> QED BY <1>5, <2>1
<1>14. Q \in SUBSET Cells /\ (\A q \in Q : Full(q)) /\ K \in SUBSET Keys
  BY <1>8
<1> HIDE DEF S, Q, K
<1>15. IsFiniteSet(Q) /\ Cardinality(Q) <= Cardinality(K) /\ Cardinality(Q) \in Nat /\ Cardinality(K) \in Nat
  BY <1>12, <1>14, KeysInCells
<1>16. f \in Injection(S, Q)
  <2>1. f \in [S -> Q]
    BY <1>13
  <2>2. \A x, y \in S : f[x] = f[y] => x = y
    BY <1>13
  <2> QED BY <2>1, <2>2 DEF Injection, IsInjective
<1>17. Cardinality(S) <= Cardinality(Q)
  <2> HIDE DEF f
  <2> QED BY <1>15, <1>16, FS_Injection
<1>18. Cardinality(S) = n
  <2>1. m \in Int /\ r[h] - 1 \in Int /\ m <= r[h]
    BY <1>4, <1>8
  <2>2. Cardinality(m .. r[h] - 1) = IF m > r[h] - 1 THEN 0 ELSE (r[h] - 1) - m + 1
    BY <2>1, FS_Interval
  <2> QED BY <1>4, <1>8, <1>9, <2>1, <2>2 DEF S
<1> QED BY <1>4, <1>8, <1>11, <1>15, <1>17, <1>18

LEMMA SettledDeletes == ASSUME Params, TypeOK, Settled PROVE DeleteOK
<1>F. PICK F : F = {h \in Cells : Full(h)}
  OBVIOUS
<1>1. F \subseteq Cells /\ \E b \in Cells : b \notin F
  BY <1>F, EmptyCell
<1>b. PICK b \in Cells : b \notin F
  BY <1>1
<1>r. PICK r : r = [h \in Cells |-> Rank(b, h)]
  OBVIOUS
<1>w. PICK w : w = [k \in Keys |-> (CHOOSE e \in content : Key(e) = k)[2]]
  OBVIOUS
<1>2. \A p \in Procs : me[p].pc = "idle"
  BY DEF Settled, Quiet
<1>3. Line(r, F)
  BY <1>1, <1>b, <1>r DEF Line
<1>4. \A h \in F : h \in Cells /\ Full(h) /\ TA[h] \in content /\ TA[h] \in Elements
                     /\ KeyAt(h) \in Keys /\ firstIndex(KeyAt(h)) \in Cells /\ Reached(TA, KeyAt(h), h)
  BY <1>F, KeyTypes DEF Settled, TypeOK, Slots, Full, KeyAt
<1>5. \A e \in content : e \in Elements /\ Key(e) \in Keys /\ e # empty /\ e[2] = w[Key(e)]
  <2> SUFFICES ASSUME NEW e \in content PROVE e \in Elements /\ Key(e) \in Keys /\ e # empty /\ e[2] = w[Key(e)]
    OBVIOUS
  <2>1. e \in Elements /\ Key(e) \in Keys /\ e # empty
    BY KeyTypes DEF TypeOK
  <2>2. (CHOOSE f \in content : Key(f) = Key(e)) = e
    BY DEF Settled
  <2> QED BY <1>w, <2>1, <2>2
<1>6. \A h \in F : Run(r, F, firstIndex(KeyAt(h)), h)
  <2> SUFFICES ASSUME NEW h \in F PROVE Run(r, F, firstIndex(KeyAt(h)), h)
    OBVIOUS
  <2>1. \A q \in Cells : Dist(firstIndex(KeyAt(h)), q) < Dist(firstIndex(KeyAt(h)), h) => q \in F
    BY <1>4, <1>F DEF Reached, Above, Full
  <2> QED BY <1>3, <1>4, <2>1, WayOnLine
<1>15. Short(r, F)
  BY <1>3, <1>4, <1>6, <1>F, RunsShort
<1>7. SlotsOK(r, F, w)
  BY <1>4, <1>5, <1>6, <1>F DEF SlotsOK, Kept
<1>8. LocalsOK(r, F, w)
  BY <1>2 DEF LocalsOK
<1>9. \A h \in F, q \in Cells : Full(q) /\ KeyAt(q) = KeyAt(h) => q = h
  BY <1>4, OneCell DEF Settled, Full, KeyAt
<1>10. RootsOK(r, F)
  <2> SUFFICES ASSUME NEW h \in F
               PROVE  /\ h \in Cells /\ Full(h) /\ Wanted(h)
                      /\ \A q \in Cells : Full(q) /\ KeyAt(q) = KeyAt(h) => r[h] <= r[q]
                      /\ \A q \in Cells : r[firstIndex(KeyAt(h))] <= r[q] /\ r[q] < r[h] => Above(TA[q], KeyAt(h))
    BY DEF RootsOK
  <2>1. \A q \in Cells : Full(q) /\ KeyAt(q) = KeyAt(h) => r[h] <= r[q]
    BY <1>3, <1>4, <1>9, LineFacts
  <2>2. \A q \in Cells : Dist(firstIndex(KeyAt(h)), q) < Dist(firstIndex(KeyAt(h)), h)
          <=> r[firstIndex(KeyAt(h))] <= r[q] /\ r[q] < r[h]
    BY <1>3, <1>4, <1>6, SameWay DEF Run
  <2> QED BY <1>4, <2>1, <2>2 DEF Wanted, Reached
<1>11. CopiesOK(r, F, r)
  BY <1>F DEF CopiesOK
<1>12. ContentOK(w, F, r)
  <2> SUFFICES ASSUME NEW e \in content PROVE Kept(w, e) /\ \E h \in F : TA[h] = e
    BY <1>2 DEF ContentOK
  <2>1. \E h \in Cells : TA[h] = e
    BY DEF Settled
  <2> QED BY <1>5, <1>F, <2>1 DEF Kept, Full
<1>13. \A p \in Procs : FillOK(r, F, TA, me[p]) /\ DownOK(r, F, TA, me[p])
  BY <1>2 DEF FillOK, DownOK
<1>14. Frame(r, F, w, F, r)
  BY <1>3, <1>7, <1>8, <1>10, <1>11, <1>12, <1>13, <1>15 DEF Frame
<1> QED BY <1>14 DEF DeleteOK

-----------------------------------------------------------------------------
(* The inductive invariant. *)
Inv == TypeOK /\ (phase # "delete" => InsertOK) /\ (phase = "delete" => DeleteOK)

LEMMA InitInv == ASSUME Params, Init PROVE Inv
<1>1. TypeOK
  BY IdleType DEF Init, TypeOK, Slots, Cells
<1>2. \A p \in Procs : me[p].pc = "idle" /\ ~Carries(p)
  BY IdleType DEF Init, Carries
<1>3. \A h \in Cells : TA[h] = empty
  BY DEF Init, Cells
<1>4. \A e \in Elements : ~Holding(e)
  BY <1>2, <1>3, KeyTypes DEF Holding
<1>5. InsertOK
  BY <1>2, <1>3, <1>4 DEF Init, InsertOK
<1> QED BY <1>1, <1>5 DEF Init, Inv

LEMMA QuietSettles == ASSUME Params, Inv, Quiet PROVE Settled
BY InsertSettles, DeleteSettles DEF Inv

LEMMA SettledKeeps ==
  ASSUME Params, TypeOK, Settled, UNCHANGED <<TA, content, me>>, phase' \in {"insert", "update", "delete"}
  PROVE  Inv'
<1>1. TypeOK'
  BY DEF TypeOK
<1>2. InsertOK /\ DeleteOK
  BY SettledInserts, SettledDeletes
<1>3. InsertOK'
  BY <1>2 DEF InsertOK, Holding, Carries
<1>4. DeleteOK'
  <2>1. PICK r, F, w, R, g : Frame(r, F, w, R, g)
    BY <1>2 DEF DeleteOK
  <2>2. \A h : (Full(h)' <=> Full(h)) /\ KeyAt(h)' = KeyAt(h) /\ (Wanted(h)' <=> Wanted(h))
    BY DEF Full, KeyAt, Wanted
  <2>3. SlotsOK(r, F, w)' /\ LocalsOK(r, F, w)'
    BY <2>1, <2>2 DEF Frame, SlotsOK, LocalsOK
  <2>4. RootsOK(r, R)'
    BY <2>1, <2>2 DEF Frame, RootsOK
  <2>5. CopiesOK(r, R, g)'
    BY <2>1, <2>2 DEF Frame, CopiesOK
  <2>6. ContentOK(w, R, g)'
    BY <2>1, <2>2 DEF Frame, ContentOK
  <2>7. \A p \in Procs : FillOK(r, R, TA', me'[p]) /\ DownOK(r, R, TA', me'[p])
    BY <2>1 DEF Frame
  <2>8. Frame(r, F, w, R, g)'
    BY <2>1, <2>3, <2>4, <2>5, <2>6, <2>7 DEF Frame
  <2> QED BY <2>8 DEF DeleteOK
<1> QED BY <1>1, <1>3, <1>4 DEF Inv

LEMMA InsertStep ==
  ASSUME Params, TypeOK, InsertOK, phase # "delete", NEW p \in Procs, Step(p)
  PROVE  TypeOK' /\ InsertOK' /\ phase' = phase
<1>1. me[p].pc \in {"idle", "probe", "cas"}
  BY DEF InsertOK
<1>2. CASE \E k \in Keys, n \in Values : CallInsert(p, <<k, n>>)
  <2> PICK k \in Keys, n \in Values : CallInsert(p, <<k, n>>)
    BY <1>2
  <2>1. <<k, n>> \in Elements
    BY DEF Elements
  <2> QED BY <2>1, CallInsertKeeps DEF CallInsert
<1>3. CASE Probe(p)
  BY <1>3, ProbeKeeps DEF Probe
<1>4. CASE InsertCas(p)
  BY <1>4, InsertCasKeeps DEF InsertCas
<1>5. ~(\E k \in Keys : CallDelete(p, k))
  BY DEF CallDelete
<1>6. ~(Descend(p) \/ Back(p) \/ Found(p) \/ ScanUp(p) \/ ScanDown(p) \/ Replace(p) \/ Reread(p))
  BY <1>1 DEF Descend, Back, Found, ScanUp, ScanDown, Replace, Reread
<1> QED BY <1>2, <1>3, <1>4, <1>5, <1>6 DEF Step

LEMMA DeleteStep ==
  ASSUME Params, TypeOK, DeleteOK, phase = "delete", NEW p \in Procs, Step(p)
  PROVE  TypeOK' /\ DeleteOK' /\ phase' = phase
<1>0. PICK r, F, w, R, g : Frame(r, F, w, R, g)
  BY DEF DeleteOK
<1>1. me[p].pc \in Busy \cup {"down", "idle"}
  BY <1>0 DEF Frame, LocalsOK, LocalOK
<1>2. ~(\E k \in Keys, n \in Values : CallInsert(p, <<k, n>>)) /\ ~Probe(p) /\ ~InsertCas(p)
  BY <1>1 DEF CallInsert, Probe, InsertCas, Busy
<1>3. CASE \E k \in Keys : CallDelete(p, k)
  <2> PICK k \in Keys : CallDelete(p, k)
    BY <1>3
  <2> QED BY <1>0, CallDeleteKeeps DEF CallDelete, DeleteOK
<1>4. CASE Descend(p)
  <2>1. phase' = phase
    BY <1>4 DEF Descend
  <2>2. CASE Against(Key(me[p].v), me[p].c) < 0
    BY <1>0, <1>4, <2>1, <2>2, DescendOnKeeps DEF DeleteOK
  <2>3. CASE ~(Against(Key(me[p].v), me[p].c) < 0)
    BY <1>0, <1>4, <2>1, <2>3, DescendEndKeeps
  <2> QED BY <2>2, <2>3
<1>5. CASE Back(p)
  <2>1. phase' = phase
    BY <1>5 DEF Back
  <2>2. CASE me[p].j = me[p].i
    BY <1>0, <1>5, <2>1, <2>2, BackEndKeeps DEF DeleteOK
  <2>3. CASE me[p].j # me[p].i
    BY <1>0, <1>5, <2>1, <2>3, BackOnKeeps DEF DeleteOK
  <2> QED BY <2>2, <2>3
<1>6. CASE Found(p)
  <2>1. phase' = phase
    BY <1>6 DEF Found
  <2> QED BY <1>0, <1>6, <2>1, FoundKeeps DEF DeleteOK
<1>7. CASE ScanUp(p)
  <2>1. phase' = phase
    BY <1>7 DEF ScanUp
  <2> QED BY <1>0, <1>7, <2>1, ScanUpKeeps DEF DeleteOK
<1>8. CASE ScanDown(p)
  <2>1. phase' = phase
    BY <1>8 DEF ScanDown
  <2> QED BY <1>0, <1>8, <2>1, ScanDownKeeps DEF DeleteOK
<1>9. CASE Replace(p)
  <2>1. phase' = phase
    BY <1>9 DEF Replace
  <2>2. CASE TA[me[p].j] # me[p].c
    BY <1>0, <1>9, <2>1, <2>2, ReplaceLostKeeps DEF DeleteOK
  <2>3. CASE TA[me[p].j] = me[p].c /\ me[p].x = empty
    BY <1>0, <1>9, <2>1, <2>3, ReplaceEmptyKeeps
  <2>4. CASE TA[me[p].j] = me[p].c /\ me[p].x # empty /\ Key(me[p].x) = Key(me[p].v)
    BY <1>0, <1>9, <2>1, <2>4, ReplaceSameKeeps DEF DeleteOK
  <2>5. CASE TA[me[p].j] = me[p].c /\ me[p].x # empty /\ Key(me[p].x) # Key(me[p].v)
    BY <1>0, <1>9, <2>1, <2>5, ReplaceMovesKeeps
  <2> QED BY <2>2, <2>3, <2>4, <2>5
<1>10. CASE Reread(p)
  <2>1. phase' = phase
    BY <1>10 DEF Reread
  <2> QED BY <1>0, <1>10, <2>1, RereadKeeps DEF DeleteOK
<1> QED BY <1>2, <1>3, <1>4, <1>5, <1>6, <1>7, <1>8, <1>9, <1>10 DEF Step

LEMMA StepInv == ASSUME Params, Inv, [Next]_vars PROVE Inv'
<1>1. CASE ChangePhase
  <2>1. /\ Quiet /\ UNCHANGED <<TA, content, me>> /\ phase' \in {"insert", "update", "delete"}
    BY <1>1 DEF ChangePhase
  <2> QED BY <2>1, QuietSettles, SettledKeeps DEF Inv
<1>2. CASE \E p \in Procs : Step(p)
  <2> PICK p \in Procs : Step(p)
    BY <1>2
  <2>1. CASE phase = "delete"
    BY <2>1, DeleteStep DEF Inv
  <2>2. CASE phase # "delete"
    BY <2>2, InsertStep DEF Inv
  <2> QED BY <2>1, <2>2
<1>3. CASE UNCHANGED vars
  <2>1. TypeOK'
    BY <1>3 DEF vars, Inv, TypeOK
  <2>2. CASE phase = "delete"
    <3>1. PICK r, F, w, R, g : Frame(r, F, w, R, g)
      BY <2>2 DEF Inv, DeleteOK
    <3>2. TA' = TA /\ content' = content /\ me' = me /\ phase' = phase
      BY <1>3 DEF vars
    <3>3. \A h : (Full(h)' <=> Full(h)) /\ KeyAt(h)' = KeyAt(h) /\ (Wanted(h)' <=> Wanted(h))
      BY <3>2 DEF Full, KeyAt, Wanted
    <3>4. Frame(r, F, w, R, g)'
      BY <3>1, <3>2, <3>3 DEF Frame, SlotsOK, LocalsOK, RootsOK, CopiesOK, ContentOK
    <3> QED BY <2>1, <2>2, <3>2, <3>4 DEF Inv, DeleteOK
  <2>3. CASE phase # "delete"
    BY <1>3, <2>1, <2>3 DEF vars, Inv, InsertOK, Holding, Carries
  <2> QED BY <2>2, <2>3
<1> QED BY <1>1, <1>2, <1>3 DEF Next

-----------------------------------------------------------------------------
(* The layout as a recursive function of the subsets of a set.             *)
Lowest(s)        == CHOOSE e \in s : \A f \in s : Key(e) <= Key(f)
Free(cells, h)   == {n \in 0 .. M - 1 : cells[(h + n) % M] = empty}
Placed(e, cells) == [cells EXCEPT ![(firstIndex(Key(e)) + Min(Free(cells, firstIndex(Key(e))))) % M] = e]
LaidBy(g, s)     == IF s = {} THEN [h \in 0 .. M - 1 |-> empty] ELSE Placed(Lowest(s), g[s \ {Lowest(s)}])
LayoutsOf(S)     == CHOOSE g : g = [s \in SUBSET S |-> LaidBy(g, s)]

LEMMA LayoutIsFold == ASSUME NEW S PROVE Layout(S) = LayoutsOf(S)[S]
BY DEF Layout, MapThenFoldSet, LayoutsOf, LaidBy, Placed, Free, Lowest

LEMMA LowestIn ==
  ASSUME Params, NEW s \in SUBSET Elements, s # {}
  PROVE  Lowest(s) \in s /\ \A f \in s : Key(Lowest(s)) <= Key(f)
<1> DEFINE T == {Key(e) : e \in s}
<1>1. T \in SUBSET Nat /\ T # {}
  BY KeyTypes
<1>2. PICK k \in T : \A n \in T : k <= n
  <2> HIDE DEF T
  <2> QED BY <1>1, Least
<1>3. PICK e \in s : Key(e) = k
  BY <1>2
<1>4. \A f \in s : Key(e) <= Key(f)
  BY <1>2, <1>3
<1>5. \E d \in s : \A f \in s : Key(d) <= Key(f)
  BY <1>4
<1> QED BY <1>5, Zenon DEF Lowest

LEMMA OneLess ==
  ASSUME Params, NEW S \in SUBSET Elements, IsFiniteSet(S), NEW s \in SUBSET S, s # {}
  PROVE  s \ {Lowest(s)} \in SUBSET S /\ Cardinality(s) \in Nat
         /\ Cardinality(s \ {Lowest(s)}) = Cardinality(s) - 1
<1>1. Lowest(s) \in s
  BY LowestIn
<1>2. IsFiniteSet(s)
  BY FS_Subset
<1> QED BY <1>1, <1>2, FS_RemoveElement, FS_CardinalityType

LEMMA LayoutsExist ==
  ASSUME Params, NEW S \in SUBSET Elements, IsFiniteSet(S)
  PROVE  LayoutsOf(S) = [s \in SUBSET S |-> LaidBy(LayoutsOf(S), s)]
<1> DEFINE D(k) == {s \in SUBSET S : Cardinality(s) <= k}
           Laid(g, k) == g = [s \in D(k) |-> LaidBy(g, s)]
           T == {k \in Nat : \E g : Laid(g, k)}
<1>1. 0 \in T
  <2> DEFINE g == [s \in D(0) |-> [h \in 0 .. M - 1 |-> empty]]
  <2>1. ASSUME NEW s \in D(0) PROVE s = {}
    <3>1. IsFiniteSet(s) /\ Cardinality(s) \in Nat /\ Cardinality(s) <= 0
      BY FS_Subset, FS_CardinalityType
    <3> QED BY <3>1, FS_EmptySet
  <2>2. g = [s \in D(0) |-> LaidBy(g, s)]
    BY <2>1 DEF LaidBy
  <2> QED BY <2>2
<1>2. ASSUME NEW k \in Nat, k \in T PROVE k + 1 \in T
  <2>1. PICK g : Laid(g, k)
    BY <1>2
  <2> DEFINE f == [s \in D(k + 1) |-> LaidBy(g, s)]
  <2>2. ASSUME NEW s \in D(k + 1) PROVE LaidBy(f, s) = LaidBy(g, s)
    <3>1. CASE s = {}
      BY <3>1 DEF LaidBy
    <3>2. CASE s # {}
      <4> DEFINE t == s \ {Lowest(s)}
      <4>1. t \in SUBSET S /\ Cardinality(t) = Cardinality(s) - 1 /\ Cardinality(s) \in Nat
        BY <3>2, OneLess
      <4>2. t \in D(k) /\ t \in D(k + 1)
        BY <4>1
      <4>3. f[t] = LaidBy(g, t) /\ g[t] = LaidBy(g, t)
        <5> HIDE DEF D, t
        <5> QED BY <2>1, <4>2
      <4> QED BY <3>2, <4>3 DEF LaidBy
    <3> QED BY <3>1, <3>2
  <2>3. Laid(f, k + 1)
    BY <2>2
  <2> HIDE DEF f
  <2> HIDE DEF Laid
  <2> QED BY <2>3
<1>3. Nat \subseteq T
  <2> HIDE DEF T
  <2> QED BY <1>1, <1>2, SetInduction
<1>4. Cardinality(S) \in T
  BY <1>3, FS_CardinalityType
<1>5. D(Cardinality(S)) = SUBSET S
  BY FS_Subset
<1>6. \E g : g = [s \in SUBSET S |-> LaidBy(g, s)]
  BY <1>4, <1>5
<1> QED BY <1>6 DEF LayoutsOf

LEMMA SettledFacts ==
  ASSUME Params, TypeOK, Settled
  PROVE  /\ content \subseteq Elements /\ IsFiniteSet(Cells)
         /\ \A h \in Cells : TA[h] # empty =>
              /\ TA[h] \in content /\ Key(TA[h]) \in Keys /\ Key(TA[h]) \in Nat
              /\ firstIndex(Key(TA[h])) \in Cells /\ Reached(TA, Key(TA[h]), h)
         /\ \A e \in content : e # empty /\ Key(e) \in Keys /\ Key(e) \in Nat /\ \E h \in Cells : TA[h] = e
         /\ \A a, b \in Cells : TA[a] # empty /\ TA[a] = TA[b] => a = b
         /\ \A e, f \in content : Key(e) = Key(f) => e = f
<1>1. content \subseteq Elements
  BY DEF TypeOK
<1>2. IsFiniteSet(Cells)
  BY FS_Interval DEF Params, Cells
<1>3. \A h \in Cells : TA[h] # empty =>
        /\ TA[h] \in content /\ Key(TA[h]) \in Keys /\ Key(TA[h]) \in Nat
        /\ firstIndex(Key(TA[h])) \in Cells /\ Reached(TA, Key(TA[h]), h)
  BY <1>1, KeyTypes DEF Settled
<1>4. \A e \in content : e # empty /\ Key(e) \in Keys /\ Key(e) \in Nat /\ \E h \in Cells : TA[h] = e
  BY <1>1, KeyTypes DEF Settled
<1>5. \A a, b \in Cells : TA[a] # empty /\ TA[a] = TA[b] => a = b
  BY OneCell DEF Settled
<1> QED BY <1>1, <1>2, <1>3, <1>4, <1>5 DEF Settled

(* The contents are finite, as each element has a cell.                    *)
LEMMA ContentFinite ==
  ASSUME Params, TypeOK, Settled
  PROVE  IsFiniteSet(content) /\ count = Cardinality(content)
<1> DEFINE F == {h \in 0 .. M - 1 : TA[h] # empty}
           f == [h \in F |-> TA[h]]
<1>1. \A h \in F : h \in Cells /\ TA[h] # empty /\ TA[h] \in content
  BY SettledFacts DEF Cells
<1>2. \A a, b \in F : TA[a] = TA[b] => a = b
  BY <1>1, SettledFacts
<1>3. \A e \in content : \E h \in F : TA[h] = e
  BY SettledFacts DEF Cells
<1>4. IsFiniteSet(F)
  <2>1. F \subseteq Cells
    BY DEF Cells
  <2> HIDE DEF F
  <2> QED BY <2>1, SettledFacts, FS_Subset
<1> HIDE DEF F
<1>5. f \in Bijection(F, content)
  BY <1>1, <1>2, <1>3 DEF Bijection, Injection, Surjection, IsInjective
<1>6. ExistsBijection(F, content)
  <2> HIDE DEF f
  <2> QED BY <1>5 DEF ExistsBijection
<1>7. IsFiniteSet(content) /\ Cardinality(content) = Cardinality(F)
  BY <1>4, <1>6, FS_Bijection
<1> QED BY <1>7 DEF count, F

(* An element stands in the first cell from its hash that no element of    *)
(* higher priority has taken.                                              *)
LEMMA PlacedWhereItIs ==
  ASSUME Params, TypeOK, Settled, NEW s \in SUBSET content, NEW x \in s,
         \A e \in s : Key(x) <= Key(e),
         \A e \in content : Key(e) > Key(x) => e \in s
  PROVE  Placed(x, [h \in Cells |-> IF TA[h] \in s \ {x} THEN TA[h] ELSE empty])
           = [h \in Cells |-> IF TA[h] \in s THEN TA[h] ELSE empty]
<1> DEFINE cells == [h \in Cells |-> IF TA[h] \in s \ {x} THEN TA[h] ELSE empty]
           i == firstIndex(Key(x))
<1>1. PICK p \in Cells : TA[p] = x
  BY SettledFacts
<1>2. x # empty /\ Key(x) \in Nat /\ i \in Cells /\ Reached(TA, Key(x), p)
  BY <1>1, SettledFacts
<1>3. Free(cells, i) \in SUBSET Nat
  BY DEF Free, Params
<1>4. Dist(i, p) \in Free(cells, i)
  <2>1. Dist(i, p) \in 0 .. M - 1 /\ (i + Dist(i, p)) % M = p
    BY <1>1, <1>2, RingFacts
  <2>2. cells[p] = empty
    BY <1>1
  <2> HIDE DEF cells, i
  <2> QED BY <2>1, <2>2 DEF Free
<1>5. ASSUME NEW n \in Free(cells, i) PROVE Dist(i, p) <= n
  <2> DEFINE q == (i + n) % M
  <2>1. n \in 0 .. M - 1 /\ cells[q] = empty
    BY <1>5 DEF Free
  <2>2. q \in Cells /\ Dist(i, q) = n
    BY <1>2, <2>1, RingFacts
  <2>3. Dist(i, p) \in Int /\ n \in Int
    BY <1>2, <2>1, RingFacts
  <2> SUFFICES ASSUME n < Dist(i, p) PROVE FALSE
    BY <2>3
  <2> HIDE DEF q
  <2>4. Above(TA[q], Key(x))
    BY <1>2, <2>2 DEF Reached
  <2>5. TA[q] # empty /\ TA[q] \in content /\ Key(TA[q]) > Key(x)
    BY <2>2, <2>4, SettledFacts DEF Above
  <2>6. TA[q] \in s \ {x}
    BY <1>2, <2>5
  <2> QED BY <2>1, <2>2, <2>5, <2>6
<1>6. Min(Free(cells, i)) = Dist(i, p)
  <2> HIDE DEF cells, i
  <2> QED BY <1>3, <1>4, <1>5, SmallestIs
<1>7. (i + Dist(i, p)) % M = p
  BY <1>1, <1>2, RingFacts
<1>8. Placed(x, cells) = [cells EXCEPT ![p] = x]
  <2> HIDE DEF cells
  <2> QED BY <1>6, <1>7 DEF Placed
<1>9. \A h \in Cells : TA[h] = x => h = p
  BY <1>1, <1>2, SettledFacts
<1> QED BY <1>1, <1>8, <1>9

LEMMA TableIsLayout == ASSUME Params, TypeOK, Settled PROVE TA = Layout(content)
<1> DEFINE g == LayoutsOf(content)
           Top(s) == \A e \in s, f \in content : Key(f) > Key(e) => f \in s
           Only(s) == [h \in Cells |-> IF TA[h] \in s THEN TA[h] ELSE empty]
           T == {k \in Nat : \A s \in SUBSET content : Cardinality(s) = k /\ Top(s) => g[s] = Only(s)}
<1>1. IsFiniteSet(content) /\ content \in SUBSET Elements
  BY SettledFacts, ContentFinite
<1>2. \A s \in SUBSET content : g[s] = LaidBy(g, s)
  <2>1. g = [s \in SUBSET content |-> LaidBy(g, s)]
    BY <1>1, LayoutsExist
  <2> HIDE DEF g
  <2> QED BY <2>1
<1> HIDE DEF g
<1>3. 0 \in T
  <2> SUFFICES ASSUME NEW s \in SUBSET content, Cardinality(s) = 0 PROVE g[s] = Only(s)
    OBVIOUS
  <2>1. s = {}
    BY <1>1, FS_Subset, FS_EmptySet
  <2>2. g[s] = [h \in 0 .. M - 1 |-> empty]
    BY <1>2, <2>1 DEF LaidBy
  <2>3. \A h \in Cells : TA[h] \notin s
    BY <2>1
  <2> QED BY <2>2, <2>3 DEF Cells
<1>4. ASSUME NEW k \in Nat, k \in T PROVE k + 1 \in T
  <2> SUFFICES ASSUME NEW s \in SUBSET content, Cardinality(s) = k + 1, Top(s) PROVE g[s] = Only(s)
    OBVIOUS
  <2> DEFINE x == Lowest(s)
             t == s \ {x}
  <2>1. s # {}
    BY FS_EmptySet
  <2>2. x \in s /\ \A e \in s : Key(x) <= Key(e)
    BY <1>1, <2>1, LowestIn
  <2>3. t \in SUBSET content /\ Cardinality(t) = Cardinality(s) - 1
    BY <1>1, <2>1, OneLess
  <2>4. g[s] = Placed(x, g[t])
    BY <1>2, <2>1 DEF LaidBy
  <2> HIDE DEF x
  <2>5. Top(t)
    <3> SUFFICES ASSUME NEW e \in t, NEW f \in content, Key(f) > Key(e) PROVE f \in t
      OBVIOUS
    <3>1. Key(x) <= Key(e) /\ Key(e) \in Nat /\ Key(x) \in Nat /\ Key(f) \in Nat
      BY <2>2, SettledFacts
    <3> QED BY <3>1
  <2>6. g[t] = Only(t)
    <3> HIDE DEF Top, Only, t
    <3>1. Cardinality(t) = k
      BY <2>3
    <3> QED BY <1>4, <2>3, <2>5, <3>1
  <2>7. Placed(x, Only(t)) = Only(s)
    <3>1. \A e \in content : Key(e) > Key(x) => e \in s
      BY <2>2
    <3> QED BY <2>2, <3>1, PlacedWhereItIs
  <2> QED BY <2>4, <2>6, <2>7
<1>5. Nat \subseteq T
  <2> HIDE DEF T
  <2> QED BY <1>3, <1>4, SetInduction
<1>6. g[content] = Only(content)
  <2>1. Cardinality(content) \in T
    BY <1>1, <1>5, FS_CardinalityType
  <2>2. Top(content)
    OBVIOUS
  <2> HIDE DEF Top, Only
  <2> QED BY <2>1, <2>2
<1>7. Only(content) = TA
  <2>1. TA \in [Cells -> Slots] /\ \A h \in Cells : TA[h] # empty => TA[h] \in content
    BY SettledFacts DEF TypeOK
  <2>2. \A h \in Cells : (IF TA[h] \in content THEN TA[h] ELSE empty) = TA[h]
    BY <2>1
  <2> QED BY <2>1, <2>2
<1> QED BY <1>6, <1>7, LayoutIsFold DEF g

(* A search stops at the element of its key, if there is one, else at a    *)
(* cell that does not hold it.                                             *)
LEMMA FindFinds ==
  ASSUME Params, TypeOK, Settled, NEW k \in Keys
  PROVE  find(k) = IF \E e \in content : Key(e) = k THEN CHOOSE e \in content : Key(e) = k ELSE empty
<1> DEFINE i == firstIndex(k)
           at(d) == TA[(i + d) % M]
           T == {d \in 0 .. M - 1 : Against(k, at(d)) >= 0}
<1>1. i \in Cells /\ k \in Nat
  BY KeyTypes
<1>2. \A h \in Cells : /\ TA[h] \in Slots
                       /\ Against(k, TA[h]) = 0 <=> TA[h] # empty /\ Key(TA[h]) = k
                       /\ Against(k, TA[h]) >= 0 <=> ~Above(TA[h], k)
  BY AgainstFacts DEF TypeOK
<1>3. T \in SUBSET Nat
  BY DEF Params
<1>4. Stop(k) = (i + Min(T)) % M
  BY DEF Stop
<1> HIDE DEF i
<1>5. \A d \in 0 .. M - 1 : (i + d) % M \in Cells /\ Dist(i, (i + d) % M) = d
  BY <1>1, RingFacts
<1>6. CASE \E e \in content : Key(e) = k
  <2> PICK e \in content : Key(e) = k
    BY <1>6
  <2>1. PICK h \in Cells : TA[h] = e
    BY SettledFacts
  <2>2. e # empty /\ Reached(TA, k, h)
    BY <2>1, SettledFacts
  <2>3. Dist(i, h) \in 0 .. M - 1 /\ (i + Dist(i, h)) % M = h
    BY <1>1, <2>1, RingFacts
  <2>4. Against(k, TA[h]) = 0 /\ Against(k, TA[h]) >= 0
    BY <1>1, <1>2, <2>1, <2>2 DEF Above
  <2>5. Dist(i, h) \in T
    BY <2>3, <2>4
  <2>6. ASSUME NEW d \in T PROVE Dist(i, h) <= d
    <3>1. (i + d) % M \in Cells /\ Dist(i, (i + d) % M) = d /\ ~Above(at(d), k) /\ d \in Int
      BY <1>2, <1>5
    <3>2. ~(d < Dist(i, h))
      BY <2>2, <3>1 DEF Reached, i
    <3> HIDE DEF T
    <3> QED BY <2>3, <3>1, <3>2
  <2> HIDE DEF T
  <2>7. Min(T) = Dist(i, h)
    BY <1>3, <2>5, <2>6, SmallestIs
  <2>8. Stop(k) = h
    BY <1>4, <2>3, <2>7
  <2>9. findIndex(k) = h /\ h # -1
    BY <2>4, <2>8 DEF findIndex, Cells
  <2>10. find(k) = e
    BY <2>1, <2>9 DEF find
  <2>11. (CHOOSE f \in content : Key(f) = k) = e
    BY SettledFacts
  <2> QED BY <1>6, <2>10, <2>11
<1>7. CASE ~ \E e \in content : Key(e) = k
  <2>1. T # {}
    <3>1. PICK b \in Cells : TA[b] = empty
      <4>1. \E b \in Cells : ~Full(b)
        BY EmptyCell
      <4> QED BY <4>1 DEF Full
    <3>2. Dist(i, b) \in 0 .. M - 1 /\ (i + Dist(i, b)) % M = b
      BY <1>1, RingFacts
    <3>3. Against(k, TA[b]) >= 0
      BY <1>2, <3>1 DEF Above
    <3>4. Dist(i, b) \in T
      BY <3>2, <3>3
    <3> HIDE DEF T
    <3> QED BY <3>4
  <2>2. Min(T) \in T
    <3> HIDE DEF T
    <3> QED BY <1>3, <2>1, SmallestIn
  <2>3. Stop(k) \in Cells
    BY <1>4, <1>5, <2>2
  <2>4. Against(k, TA[Stop(k)]) # 0
    BY <1>2, <1>7, <2>3, SettledFacts
  <2>5. find(k) = empty
    BY <2>4 DEF find, findIndex
  <2> QED BY <1>7, <2>5
<1> QED BY <1>6, <1>7

(* The entries as a recursive function.                                    *)
KeptBy(f, n) ==
  IF n = 0 THEN << >>
  ELSE IF TA[n - 1] = empty THEN f[n - 1] ELSE Append(f[n - 1], TA[n - 1])
KeptOf    == CHOOSE f : f = [n \in 0 .. M |-> KeptBy(f, n)]
Before(h) == Cardinality({g \in 0 .. h - 1 : TA[g] # empty})

LEMMA KeptExist == ASSUME M \in Nat PROVE KeptOf = [n \in 0 .. M |-> KeptBy(KeptOf, n)]
<1> DEFINE D(k) == {n \in 0 .. M : n <= k}
           Lists(f, k) == f = [n \in D(k) |-> KeptBy(f, n)]
           T == {k \in Nat : \E f : Lists(f, k)}
<1>1. 0 \in T
  <2> DEFINE f == [n \in D(0) |-> << >>]
  <2>1. \A n \in D(0) : n = 0
    OBVIOUS
  <2>2. f = [n \in D(0) |-> KeptBy(f, n)]
    BY <2>1 DEF KeptBy
  <2> QED BY <2>2
<1>2. ASSUME NEW k \in Nat, k \in T PROVE k + 1 \in T
  <2>1. PICK f : Lists(f, k)
    BY <1>2
  <2> DEFINE g == [n \in D(k + 1) |-> KeptBy(f, n)]
  <2>2. ASSUME NEW n \in D(k + 1) PROVE KeptBy(g, n) = KeptBy(f, n)
    <3>1. CASE n = 0
      BY <3>1 DEF KeptBy
    <3>2. CASE n # 0
      <4>1. n - 1 \in D(k) /\ n - 1 \in D(k + 1)
        BY <3>2
      <4>2. g[n - 1] = KeptBy(f, n - 1) /\ f[n - 1] = KeptBy(f, n - 1)
        <5> HIDE DEF D
        <5> QED BY <2>1, <4>1
      <4> QED BY <3>2, <4>2 DEF KeptBy
    <3> QED BY <3>1, <3>2
  <2>3. Lists(g, k + 1)
    BY <2>2
  <2> HIDE DEF g
  <2> HIDE DEF Lists
  <2> QED BY <2>3
<1>3. Nat \subseteq T
  <2> HIDE DEF T
  <2> QED BY <1>1, <1>2, SetInduction
<1>4. M \in T
  BY <1>3
<1>5. D(M) = 0 .. M
  OBVIOUS
<1>6. \E f : f = [n \in 0 .. M |-> KeptBy(f, n)]
  BY <1>4, <1>5
<1> QED BY <1>6 DEF KeptOf

LEMMA BeforeFacts ==
  ASSUME NEW n \in Nat
  PROVE  /\ Before(n) \in Nat /\ Before(0) = 0
         /\ Before(n + 1) = IF TA[n] = empty THEN Before(n) ELSE Before(n) + 1
<1> DEFINE F(k) == {g \in 0 .. k - 1 : TA[g] # empty}
<1>1. IsFiniteSet(F(n)) /\ Cardinality(F(n)) \in Nat
  <2>1. IsFiniteSet(0 .. n - 1) /\ F(n) \subseteq 0 .. n - 1
    BY FS_Interval
  <2> HIDE DEF F
  <2> QED BY <2>1, FS_Subset, FS_CardinalityType
<1>2. F(0) = {}
  OBVIOUS
<1>3. n \notin F(n) /\ F(n + 1) = IF TA[n] = empty THEN F(n) ELSE F(n) \cup {n}
  <2>1. 0 .. (n + 1) - 1 = (0 .. n - 1) \cup {n}
    OBVIOUS
  <2> QED BY <2>1
<1>4. Before(n) = Cardinality(F(n)) /\ Before(0) = Cardinality(F(0)) /\ Before(n + 1) = Cardinality(F(n + 1))
  BY DEF Before
<1> HIDE DEF F
<1>5. Before(n) \in Nat /\ Before(0) = 0
  BY <1>1, <1>2, <1>4, FS_EmptySet
<1>6. CASE TA[n] = empty
  BY <1>3, <1>4, <1>5, <1>6
<1>7. CASE TA[n] # empty
  <2>1. Cardinality(F(n) \cup {n}) = Cardinality(F(n)) + 1
    BY <1>1, <1>3, FS_AddElement
  <2> QED BY <1>3, <1>4, <1>5, <1>7, <2>1
<1> QED BY <1>6, <1>7

LEMMA EntriesAre ==
  ASSUME Params, TypeOK, Settled
  PROVE  /\ ToSet(entries) = content
         /\ \A h \in 0 .. M - 1 : TA[h] # empty => entries[get_index[h] + 1] = TA[h]
<1> DEFINE f == KeptOf
           Good(n) == /\ f[n] \in Seq(content) /\ Len(f[n]) = Before(n)
                      /\ \A h \in 0 .. n - 1 : TA[h] # empty =>
                           Before(h) + 1 \in 1 .. Len(f[n]) /\ f[n][Before(h) + 1] = TA[h]
           T == {n \in Nat : n <= M => Good(n)}
<1>0. M \in Nat
  BY DEF Params
<1>1. \A n \in 0 .. M : f[n] = KeptBy(f, n)
  <2>1. f = [n \in 0 .. M |-> KeptBy(f, n)]
    BY <1>0, KeptExist
  <2> HIDE DEF f
  <2> QED BY <2>1
<1>2. entries = f[M]
  BY DEF entries, KeptOf, KeptBy
<1> HIDE DEF f
<1>3. 0 \in T
  <2>1. f[0] = << >>
    BY <1>0, <1>1 DEF KeptBy
  <2>2. Before(0) = 0
    BY BeforeFacts
  <2>3. << >> \in Seq(content) /\ Len(<< >>) = 0 /\ 0 .. 0 - 1 = {}
    OBVIOUS
  <2>4. Good(0)
    BY <2>1, <2>2, <2>3
  <2> QED BY <2>4
<1>4. ASSUME NEW n \in Nat, n \in T PROVE n + 1 \in T
  <2> SUFFICES ASSUME n + 1 <= M PROVE Good(n + 1)
    OBVIOUS
  <2>1. n <= M /\ n + 1 \in 0 .. M /\ (n + 1) - 1 = n /\ n + 1 # 0 /\ n \in Cells
    BY <1>0 DEF Cells
  <2>2. Good(n)
    BY <1>4, <2>1
  <2>3. f[n + 1] = IF TA[n] = empty THEN f[n] ELSE Append(f[n], TA[n])
    BY <1>1, <2>1 DEF KeptBy
  <2>4. Before(n + 1) = (IF TA[n] = empty THEN Before(n) ELSE Before(n) + 1) /\ Before(n) \in Nat
    BY BeforeFacts
  <2>5. \A h \in 0 .. (n + 1) - 1 : h \in 0 .. n - 1 \/ h = n
    OBVIOUS
  <2>6. CASE TA[n] = empty
    <3>1. f[n + 1] = f[n] /\ Before(n + 1) = Before(n)
      BY <2>3, <2>4, <2>6
    <3>2. \A h \in 0 .. (n + 1) - 1 : TA[h] # empty => h \in 0 .. n - 1
      BY <2>5, <2>6
    <3> QED BY <2>2, <3>1, <3>2
  <2>7. CASE TA[n] # empty
    <3>1. TA[n] \in content
      BY <2>1, <2>7, SettledFacts
    <3> DEFINE s == f[n]
               t == Append(s, TA[n])
    <3>2. s \in Seq(content) /\ Len(s) = Before(n) /\ f[n + 1] = t
      BY <2>2, <2>3, <2>7
    <3> HIDE DEF s
    <3>3. /\ t \in Seq(content) /\ Len(t) = Len(s) + 1 /\ t[Len(s) + 1] = TA[n]
          /\ \A m \in 1 .. Len(s) : t[m] = s[m]
      BY <3>1, <3>2
    <3>4. Len(t) = Before(n + 1)
      BY <2>4, <2>7, <3>2, <3>3
    <3> HIDE DEF t
    <3>5. ASSUME NEW h \in 0 .. (n + 1) - 1, TA[h] # empty
          PROVE  Before(h) + 1 \in 1 .. Len(t) /\ t[Before(h) + 1] = TA[h]
      <4>1. CASE h = n
        BY <2>4, <3>2, <3>3, <4>1
      <4>2. CASE h # n
        <5>1. Before(h) + 1 \in 1 .. Len(s) /\ s[Before(h) + 1] = TA[h]
          BY <2>2, <2>5, <3>5, <4>2 DEF s
        <5> QED BY <2>4, <3>2, <3>3, <5>1
      <4> QED BY <4>1, <4>2
    <3> QED BY <3>2, <3>3, <3>4, <3>5
  <2> QED BY <2>6, <2>7
<1>5. Nat \subseteq T
  <2> HIDE DEF T
  <2> QED BY <1>3, <1>4, SetInduction
<1>6. Good(M)
  <2>1. M \in T
    BY <1>0, <1>5
  <2> HIDE DEF Good
  <2> QED BY <1>0, <2>1
<1>7. ToSet(entries) \subseteq content
  BY <1>2, <1>6 DEF ToSet
<1>8. ASSUME NEW e \in content PROVE e \in ToSet(entries)
  <2>1. PICK h \in Cells : TA[h] = e
    BY SettledFacts
  <2>2. e # empty
    BY SettledFacts
  <2>3. Before(h) + 1 \in DOMAIN entries /\ entries[Before(h) + 1] = e
    BY <1>2, <1>6, <2>1, <2>2 DEF Cells
  <2> QED BY <2>3 DEF ToSet
<1>9. \A h \in 0 .. M - 1 : get_index[h] = Before(h)
  BY DEF get_index, Before
<1> QED BY <1>2, <1>6, <1>7, <1>8, <1>9

-----------------------------------------------------------------------------
(* Between phases the table is settled: all that is said of it follows.    *)
LEMMA InvHistory == ASSUME Params, Inv PROVE HistoryIndependent
<1> SUFFICES ASSUME Quiet
             PROVE  /\ TA = Layout(content)
                    /\ \A k \in Keys :
                         find(k) = IF \E e \in content : Key(e) = k
                                   THEN CHOOSE e \in content : Key(e) = k ELSE empty
                    /\ count = Cardinality(content)
                    /\ ToSet(entries) = content
                    /\ \A h \in 0 .. M - 1 : TA[h] # empty => entries[get_index[h] + 1] = TA[h]
  BY DEF HistoryIndependent
<1>1. Settled /\ TypeOK
  BY QuietSettles DEF Inv
<1> QED BY <1>1, TableIsLayout, FindFinds, ContentFinite, EntriesAre

(* Whatever the threads of a phase did to one another, between phases the  *)
(* cells hold exactly the elements the calls left, where an insertion by   *)
(* priority puts them, and every key is found and counted once             *)
(* (hash_table.h), as long as clusters stay short.                         *)
THEOREM Laid == ASSUME Params PROVE Spec => []HistoryIndependent
<1>1. Init => Inv
  BY InitInv
<1>2. Inv /\ [Next]_vars => Inv'
  BY StepInv
<1>3. Inv => HistoryIndependent
  BY InvHistory
<1> QED BY <1>1, <1>2, <1>3, PTL DEF Spec
=============================================================================
