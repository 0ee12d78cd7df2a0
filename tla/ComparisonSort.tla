----------------------------- MODULE ComparisonSort -----------------------------
(***************************************************************************)
(* The sorts that compare (merge.h, merge_sort.h, quicksort.h,             *)
(* bucket_sort.h, transpose.h, sample_sort.h) and the searches in what     *)
(* they have sorted (binary_search.h, heap_tree.h).  Elements are records  *)
(* with a key, ordered by it.                                              *)
(***************************************************************************)
EXTENDS IntegerSort
LOCAL INSTANCE Integers
LOCAL INSTANCE Sequences
LOCAL INSTANCE FiniteSets
LOCAL INSTANCE SequencesExt

CONSTANTS
  SearchBase,   \* _binary_search_base: 16
  MergeBase,    \* _merge_base: 2000
  MergeSortBase,\* MERGE_SORT_BASE: 48
  QuickBase,    \* base_case: 16 or 24, not below 5
  CutSize,      \* of p_quicksort_: 2 ^ 14 or more
  BucketBits,   \* of bucket_sort_r: 4
  BucketBase,   \* its base case: 2 ^ 4 * 32
  PerSample,    \* of get_buckets: 400
  TransBase,    \* TRANS_THRESHHOLD: 500
  TransFactor,  \* 16
  SampleBase,   \* QUICKSORT_THRESHOLD: 16384
  BlockQuotient, BucketQuotient,  \* 3 or 4
  SampleBlocks, \* 4
  OverSample,   \* OVER_SAMPLE: 8
  Hash(_)       \* hash64

f(x, y) == x.key < y.key
At(s, i) == s[i + 1]

(* How many flags from the front are set, and what is below x or above it. *)
Prefix(flags) ==
  CHOOSE k \in 0 .. Len(flags) : (\A i \in 1 .. k : flags[i]) /\ (k < Len(flags) => ~flags[k + 1])
Below(s, x) == [k \in DOMAIN s |-> f(s[k], x)]
Above(s, x) == [k \in DOMAIN s |-> f(x, s[k])]

(* binary_search down to a short range, linear_search in it.               *)
RECURSIVE Narrowed(_, _, _, _)
Narrowed(s, x, start, end) ==
  LET mid == (end + start) \div 2
  IN IF end - start <= SearchBase THEN start + Prefix(Below(Cut(s, start, end), x))
     ELSE IF f(At(s, mid), x) THEN Narrowed(s, x, mid + 1, end) ELSE Narrowed(s, x, start, mid)
binary_search(s, x) == Narrowed(s, x, 0, Len(s))

(* to_tree and to_balanced_tree: sorted keys as a heap of search nodes.    *)
RECURSIVE to_tree(_, _, _, _)
to_tree(s, root, l, r) ==
  LET m == l + (r - l) \div 2
  IN {<<root, At(s, m)>>} \cup
     (IF r - l = 1 THEN {} ELSE to_tree(s, 2 * root + 1, l, m) \cup to_tree(s, 2 * root + 2, m + 1, r))
Tree(s) == Stored(to_tree(s, 0, 0, Len(s)), Len(s))

(* heap_tree's rank: down the tree, to the left of an equal key except at  *)
(* the last level.                                                         *)
RECURSIVE rank(_, _, _, _)
rank(tree, x, j, levels) ==
  IF levels = 0 THEN 1 + 2 * j + (IF f(x, At(tree, j)) THEN 0 ELSE 1) - Len(tree)
  ELSE rank(tree, x, 1 + 2 * j + (IF f(At(tree, j), x) THEN 1 ELSE 0), levels - 1)

-----------------------------------------------------------------------------
(* seq_merge: of equal elements, those of A first.                         *)
RECURSIVE seq_merge(_, _)
seq_merge(A, B) ==
  IF A = << >> \/ B = << >> THEN A \o B
  ELSE IF f(Head(B), Head(A)) THEN <<Head(B)>> \o seq_merge(A, Tail(B))
  ELSE <<Head(A)>> \o seq_merge(Tail(A), B)

(* merge_into: A's middle and where it belongs in B divide both, after     *)
(* the middle if nothing of B is before it.                                *)
Middle(A, mB) == Len(A) \div 2 + (IF mB = 0 THEN 1 ELSE 0)
RECURSIVE merge_into(_, _)
merge_into(A, B) ==
  LET mB == binary_search(B, At(A, Len(A) \div 2))
      mA == Middle(A, mB)
  IN IF Len(A) + Len(B) < MergeBase THEN seq_merge(A, B)
     ELSE IF A = << >> \/ B = << >> THEN A \o B
     ELSE merge_into(Cut(A, 0, mA), Cut(B, 0, mB)) \o merge_into(Cut(A, mA, Len(A)), Cut(B, mB, Len(B)))

(* insertion_sort: each element goes down past those above it.             *)
insertion_sort(s) ==
  LET insert(sorted, x) ==
        LET k == Prefix(Above(Reverse(sorted), x)) IN InsertAt(sorted, Len(sorted) - k + 1, x)
  IN FoldLeft(insert, << >>, s)

(* merge_sort_: the halves end in the other buffer and are merged from it. *)
RECURSIVE merge_sort_(_, _)
merge_sort_(s, inplace) ==
  LET n == Len(s)
      half(from, to) == merge_sort_(Cut(s, from, to), ~inplace)
      sorted ==
        IF n < MergeSortBase THEN insertion_sort(s)
        ELSE IF inplace THEN merge_into(half(0, n \div 2).out, half(n \div 2, n).out)
        ELSE merge_into(half(0, n \div 2).in, half(n \div 2, n).in)
  IN IF inplace THEN Buffers(sorted, Nothing(n)) ELSE Buffers(Nothing(n), sorted)
merge_sort(s) == IF Len(s) <= MergeSortBase THEN insertion_sort(s) ELSE merge_sort_(s, TRUE).in

-----------------------------------------------------------------------------
Exchange(s, i, j) == [s EXCEPT ![i + 1] = s[j + 1], ![j + 1] = s[i + 1]]

(* sort5: five elements that the hash picks, sorted, at the front.         *)
Shuffled(s, k) ==
  FoldLeft(LAMBDA t, i : Exchange(t, i - 1, i - 1 + (Hash(i - 1) % (Len(s) - i + 1))), s, [i \in 1 .. k |-> i])
sort5(s) == insertion_sort(Cut(Shuffled(s, 5), 0, 5)) \o Cut(Shuffled(s, 5), 5, Len(s))

(* The loop of split3: L is the end of what is less than the first pivot,  *)
(* R the last that may be not above the second, M what is looked at.       *)
RECURSIVE Partitioned(_, _, _, _)
Partitioned(s, L, M, R) ==
  LET p1 == At(s, 0)
      p2 == At(s, 1)
      down(t, r) == CHOOSE q \in 0 .. r : ~f(p2, At(t, q)) /\ \A k \in q + 1 .. r : f(p2, At(t, k))
      fromR == Exchange(s, M, R)
  IN IF M > R THEN [s |-> s, L |-> L, M |-> M, R |-> R]
     ELSE IF f(At(s, M), p1) THEN Partitioned(Exchange(s, M, L), L + 1, M + 1, R)
     ELSE IF ~f(p2, At(s, M)) THEN Partitioned(s, L, M + 1, R)
     ELSE IF f(At(fromR, M), p1)
          THEN LET t == Exchange(fromR, L, M) IN Partitioned(t, L + 1, M + 1, down(t, R - 1))
     ELSE Partitioned(fromR, L, M + 1, down(fromR, R - 1))

split3(s) ==
  LET t  == Exchange(Exchange(sort5(s), 0, 1), 1, 3)
      p1 == At(t, 0)
      p2 == At(t, 1)
      L  == 2 + Prefix(Below(Cut(t, 2, Len(t)), p1))
      R  == Len(t) - 1 - Prefix(Above(Reverse(t), p2))
      p  == Partitioned(t, L, L, R)
      l  == p.L - 2
  IN [s |-> Exchange(Exchange(Exchange(p.s, 1, l + 1), 0, l), l + 1, p.R),
      L |-> l, M |-> p.M, equal |-> ~f(p1, p2)]

(* quicksort and quicksort_serial: the middle is left as it is if the      *)
(* pivots are equal.                                                       *)
RECURSIVE quicksort(_)
quicksort(s) ==
  LET p == split3(s)
      mid == Cut(p.s, p.L + 1, p.M)
  IN IF Len(s) < QuickBase THEN insertion_sort(s)
     ELSE quicksort(Cut(p.s, 0, p.L)) \o <<At(p.s, p.L)>>
          \o (IF p.equal THEN mid ELSE quicksort(mid)) \o quicksort(Cut(p.s, p.M, Len(s)))

(* p_split3, p_quicksort_: the thirds go to the other buffer, and are      *)
(* sorted back.                                                            *)
p_split3(s) ==
  LET t  == sort5(s)
      p1 == IF f(At(t, 0), At(t, 1)) THEN At(t, 1) ELSE At(t, 3)
      p2 == IF f(At(t, 3), At(t, 4)) THEN At(t, 3) ELSE p1
      r  == split_three(t, [k \in DOMAIN t |-> IF f(t[k], p1) THEN 0 ELSE IF f(p2, t[k]) THEN 2 ELSE 1])
  IN [s |-> r.out, L |-> r.zeros, M |-> r.zeros + r.ones, equal |-> ~f(p1, p2)]

RECURSIVE p_quicksort_(_, _)
p_quicksort_(s, inplace) ==
  LET p   == p_split3(s)
      n   == Len(s)
      part(from, to) ==
        LET bufs == p_quicksort_(Cut(p.s, from, to), ~inplace) IN IF inplace THEN bufs.out ELSE bufs.in
      sorted == IF n < CutSize THEN quicksort(s)
                ELSE part(0, p.L) \o (IF p.equal THEN Cut(p.s, p.L, p.M) ELSE part(p.L, p.M)) \o part(p.M, n)
  IN IF inplace THEN Buffers(sorted, Nothing(n)) ELSE Buffers(Nothing(n), sorted)
p_quicksort_inplace(s) == p_quicksort_(s, TRUE).in

-----------------------------------------------------------------------------
(* get_buckets: the bucket of each element, found in a tree of pivots that *)
(* are places of a sample; no buckets if the sample has equal ends.        *)
RECURSIVE Descend(_, _, _, _)
Descend(tree, x, j, rounds) ==
  IF rounds = 0 THEN j - Len(tree)
  ELSE Descend(tree, x, 1 + 2 * j + (IF f(x, At(tree, j)) THEN 0 ELSE 1), rounds - 1)

pivots_of(s) ==
  LET m      == 2 ^ BucketBits
      over   == 1 + Len(s) \div (m * PerSample)
      sample == quicksort([i \in 1 .. m * over |-> At(s, Hash(i - 1) % Len(s))])
  IN [i \in 1 .. m - 1 |-> At(sample, over * i)]

(* base_sort and bucket_sort_r; radix_step_ moves the elements to the      *)
(* other buffer as seq_count_sort_ does.                                   *)
base_sort(s, stable, inplace) ==
  IF stable THEN merge_sort_(s, inplace)
  ELSE IF inplace THEN Buffers(quicksort(s), Nothing(Len(s))) ELSE Buffers(Nothing(Len(s)), quicksort(s))

RECURSIVE bucket_sort_r(_, _, _)
bucket_sort_r(s, stable, inplace) ==
  LET pivots == pivots_of(s)
      m      == 2 ^ BucketBits
      step   == seq_count_sort(s, [k \in DOMAIN s |-> Descend(Tree(pivots), s[k], 0, BucketBits)], m)
      bucket(b) == bucket_sort_r(Cut(step.out, step.offsets[b - 1], step.offsets[b]), stable, ~inplace)
      sorted == FlattenSeq([b \in 1 .. m |-> IF inplace THEN bucket(b).out ELSE bucket(b).in])
  IN IF Len(s) < BucketBase \/ ~f(pivots[1], pivots[m - 1]) THEN base_sort(s, stable, inplace)
     ELSE IF inplace THEN Buffers(sorted, Nothing(Len(s))) ELSE Buffers(Nothing(Len(s)), sorted)
bucket_sort(s, stable) == bucket_sort_r(s, stable, TRUE).in

-----------------------------------------------------------------------------
(* transR of transpose and of blockTrans: the order of the places of a     *)
(* matrix, halved along its longer side until it is small.                 *)
RECURSIVE transR(_, _, _, _, _)
transR(rStart, rCount, cStart, cCount, base) ==
  LET c == cCount \div 2
      r == rCount \div 2
  IN IF cCount * rCount < base
     THEN SetToSeq((rStart .. rStart + rCount - 1) \X (cStart .. cStart + cCount - 1))
     ELSE IF cCount > rCount
     THEN transR(rStart, rCount, cStart, c, base) \o transR(rStart, rCount, cStart + c, cCount - c, base)
     ELSE transR(rStart, r, cStart, cCount, base) \o transR(rStart + r, rCount - r, cStart, cCount, base)
trans(rows, cols, base, stores) ==
  LET at == transR(0, rows, 0, cols, base) IN UNION {stores[at[k]] : k \in DOMAIN at}

transpose(s, rows, cols) ==
  LET stores == [<<i, j>> \in (0 .. rows - 1) \X (0 .. cols - 1) |-> {<<j * rows + i, At(s, i * cols + j)>>}]
  IN Stored(trans(rows, cols, TransBase, stores), rows * cols)

(* transpose_buckets: from blocks of sorted buckets to buckets; by blocks, *)
(* or for large inputs by a recursion over the matrix of counts.           *)
transpose_buckets(s, counts, rows, cols, large) ==
  LET m      == rows * cols
      dest   == Offsets(IF large THEN transpose(counts, rows, cols)
                        ELSE [k \in 1 .. m |-> At(counts, (k - 1) \div rows
                                                          + cols * ((k - 1) % rows))]).out
      source == Offsets(counts).out
      run(i, j) == Cut(s, At(source, i * cols + j),
                       At(source, i * cols + j) + At(counts, i * cols + j))
      leaf == [<<i, j>> \in (0 .. rows - 1) \X (0 .. cols - 1) |-> StoresOf(run(i, j), At(dest, j * rows + i))]
  IN [out |-> Stored(IF large THEN trans(rows, cols, TransBase * TransFactor, leaf)
                     ELSE UNION {leaf[at] : at \in DOMAIN leaf},
                     Len(s)),
      offsets |-> [b \in 0 .. cols |-> IF b = cols THEN Len(s) ELSE At(dest, b * rows)]]

(* get_bucket_counts: a bucket for what is below each pivot, and one for   *)
(* what equals two equal ones.                                             *)
RECURSIVE bucket_counts(_, _)
bucket_counts(A, B) ==
  LET less  == Prefix(Below(A, B[1]))
      rest  == Cut(A, less, Len(A))
      equal == Prefix([k \in DOMAIN rest |-> ~f(B[2], rest[k])])
      none(n) == [k \in 1 .. n |-> 0]
      after(t, C) == IF t = << >> THEN none(Len(C) + 1)
                     ELSE IF C = << >> THEN <<Len(t)>> ELSE bucket_counts(t, C)
  IN IF Len(B) >= 2 /\ ~f(B[1], B[2])
     THEN IF rest = << >> THEN <<less>> \o none(Len(B))
          ELSE <<less, equal>> \o after(Cut(rest, equal, Len(rest)), Cut(B, 2, Len(B)))
     ELSE <<less>> \o after(rest, Tail(B))

(* What sample_sort_ and sample_sort_inplace_ make of sorted blocks and    *)
(* pivots.  Without the in place sort, the buckets of what equals two      *)
(* pivots are not sorted.                                                  *)
SquareRoot(n)     == CHOOSE r \in 0 .. n : r * r <= n /\ (r + 1) * (r + 1) > n
NumSampleBlocks(n)  == 2 ^ log2_up(SquareRoot(n) \div BlockQuotient + 1)
SampleBlockSize(n)  == (n - 1) \div NumSampleBlocks(n) + 1
NumSampleBuckets(n) == SquareRoot(n) \div BucketQuotient + 1

Sampled(blocks, pivots, stable, all, large) ==
  LET s == FlattenSeq(blocks)
      m == Len(pivots) + 1
      t == transpose_buckets(s, FlattenSeq([i \in DOMAIN blocks |-> bucket_counts(blocks[i], pivots)]),
                             NumSampleBlocks(Len(s)), m, large)
      bucket(b) == Cut(t.out, t.offsets[b - 1], t.offsets[b])
      sorts(b)  == all \/ b \in {1, m} \/ f(pivots[b - 1], pivots[b])
  IN FlattenSeq([b \in 1 .. m |-> IF sorts(b) THEN bucket_sort(bucket(b), stable) ELSE bucket(b)])

sample_sort_(s, stable, large) ==
  LET n      == Len(s)
      m      == NumSampleBuckets(n)
      sample == quicksort([i \in 1 .. m * OverSample |-> At(s, Hash(i - 1) % n)])
      pivots == [i \in 1 .. m - 1 |-> At(sample, OverSample * (i - 1))]
      blocks == Blocks(s, SampleBlockSize(n))
  IN IF n < SampleBase THEN bucket_sort(s, stable)
     ELSE Sampled([i \in DOMAIN blocks |-> bucket_sort(blocks[i], stable)], pivots, stable, FALSE, large)

(* In place: the sample is the first blocks, after random exchanges.       *)
sample_sort_inplace_(s, large) ==
  LET n      == Len(s)
      m      == NumSampleBuckets(n)
      k      == SampleBlocks * SampleBlockSize(n)
      t      == Shuffled(s, k)
      sample == quicksort(Cut(t, 0, k))
      pivots == [i \in 1 .. m - 1 |-> At(sample, (k \div (m - 1)) * (i - 1))]
      blocks == Blocks(sample \o Cut(t, k, n), SampleBlockSize(n))
  IN IF n < SampleBase THEN bucket_sort(s, FALSE)
     ELSE Sampled([i \in DOMAIN blocks |-> IF i <= SampleBlocks THEN blocks[i] ELSE bucket_sort(blocks[i], FALSE)],
                  pivots, FALSE, TRUE, large)
=============================================================================
