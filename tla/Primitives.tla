------------------------------- MODULE Primitives -------------------------------
(***************************************************************************)
(* The functions of primitives.h that are more than a call of a sort or of *)
(* a building block: searches by growing blocks, reductions over indices,  *)
(* flattening, tokens and selection.  Elements are records with a key.     *)
(***************************************************************************)
EXTENDS ComparisonSort
LOCAL INSTANCE Integers
LOCAL INSTANCE Sequences
LOCAL INSTANCE FiniteSets
LOCAL INSTANCE SequencesExt

CONSTANTS
  Granularity  \* of find_if_index: 1000

Smallest(S) == CHOOSE i \in S : \A j \in S : i <= j
Iota(n)     == [k \in 1 .. n |-> k - 1]
same(x, y)  == x.key = y.key

(* find_if_index: one by one at first, then blocks that double in length;  *)
(* within a block all are tried, and the first that is found is kept.      *)
(* Fault: the block's last is.                                             *)
Kept_Last(found) == CHOOSE i \in found : \A j \in found : j <= i
Kept(found) == Smallest(found)
RECURSIVE FindFrom(_, _, _, _)
FindFrom(hits, n, start, size) ==
  LET found == {i \in hits : start <= i /\ i < Least(n, start + size)}
  IN IF start >= n THEN n
     ELSE IF found # {} THEN Kept(found) ELSE FindFrom(hits, n, start + size, 2 * size)
find_if_index(n, hits) ==
  LET first == {i \in hits : i < Granularity}
  IN IF first # {} THEN Smallest(first) ELSE FindFrom(hits, n, Granularity, 2 * Granularity)

(* A predicate is the set of the elements, or indices, that satisfy it.    *)
Where(s, wanted) == {i \in 0 .. Len(s) - 1 : At(s, i) \in wanted}
count_if_index(n, hits) == reduce([k \in 1 .. n |-> IF k - 1 \in hits THEN 1 ELSE 0], Plus, 0)
count_if(s, wanted) == count_if_index(Len(s), Where(s, wanted))
all_of(s, wanted)   == count_if(s, wanted) = Len(s)
any_of(s, wanted)   == count_if(s, wanted) > 1
none_of(s, wanted)  == count_if(s, wanted) = 0

find_if(s, wanted) == find_if_index(Len(s), Where(s, wanted))
find_first_of(s, t, _ \sim _) ==
  find_if(s, {x \in ToSet(s) : find_if(t, {y \in ToSet(t) : y \sim x}) # Len(t)})

(* These two take one from a size, which is not negative here: callers     *)
(* have an element at least.                                               *)
adjacent_find(s, _ \sim _) ==
  LET i == find_if_index(Len(s) - 1, {j \in 0 .. Len(s) - 2 : At(s, j) \sim At(s, j + 1)})
  IN IF i = Len(s) - 1 THEN Len(s) ELSE i
is_sorted_until(s) ==
  IF s = << >> THEN 0 ELSE find_if_index(Len(s) - 1, {i \in 0 .. Len(s) - 2 : f(At(s, i + 1), At(s, i))}) + 1

mismatch(s, t, _ \sim _) ==
  LET n == Least(Len(s), Len(t)) IN find_if_index(n, {i \in 0 .. n - 1 : ~(At(s, i) \sim At(t, i))})
equal(s, t, _ \sim _) == Len(s) = Len(t) /\ mismatch(s, t, \sim) = Len(s)
search(s, t, _ \sim _) ==
  find_if_index(Len(s), {i \in 0 .. Len(s) - Len(t) : \A j \in DOMAIN t : s[i + j] \sim t[j]})
find_end(s, t, _ \sim _) ==
  LET n == Len(s) - Len(t)
      i == find_if_index(n + 1, {k \in 0 .. n : \A j \in DOMAIN t : s[n - k + j] \sim t[j]})
  IN IF t = << >> \/ i = n + 1 THEN Len(s) ELSE n - i

lexicographical_compare(s, t) ==
  LET m == Least(Len(s), Len(t))
      i == find_if_index(m, {k \in 0 .. m - 1 : f(At(s, k), At(t, k)) \/ f(At(t, k), At(s, k))})
  IN IF i < m THEN f(At(s, i), At(t, i)) ELSE Len(s) < Len(t)

(* operator< of sequences that are not long: the loop, and what follows.   *)
less_than(s, t) ==
  LET m == Least(Len(s), Len(t))
      i == Prefix([k \in 1 .. m |-> same(s[k], t[k])])
  IN IF i = m THEN Len(s) < Len(t) ELSE f(At(s, i), At(t, i))

is_sorted(s) ==
  s = << >> \/ ~reduce([k \in 1 .. Len(s) - 1 |-> f(s[k + 1], s[k])], LAMBDA a, b : a \/ b, FALSE)
is_partitioned(s, wanted) ==
  LET n  == Len(s)
      d  == find_if(s, ToSet(s) \ wanted)
      d2 == find_if_index(n - d - 1, {i \in 0 .. n - d - 2 : At(s, d + 1 + i) \in wanted})
  IN d = n \/ d2 = n - d - 1

-----------------------------------------------------------------------------
unique(s, _ \sim _) == pack(s, [k \in DOMAIN s |-> k = 1 \/ ~(s[k] \sim s[k - 1])])
remove_if(s, those) == pack(s, [k \in DOMAIN s |-> s[k] \notin those])

(* min_element, max_element, minmax_element: the first least and the first *)
(* greatest, by a reduction over indices.                                  *)
min_element(s, _ \prec _) ==
  reduce(Iota(Len(s)), LAMBDA l, r : IF l = Len(s) THEN r ELSE IF ~(At(s, r) \prec At(s, l)) THEN l ELSE r, Len(s))
max_element(s)    == min_element(s, LAMBDA x, y : f(y, x))
minmax_element(s) ==
  LET better(l, r) ==
        IF l[1] = Len(s) THEN r
        ELSE <<IF ~f(At(s, r[1]), At(s, l[1])) THEN l[1] ELSE r[1],
               IF ~f(At(s, l[2]), At(s, r[2])) THEN l[2] ELSE r[2]>>
  IN IF s = << >> THEN <<0, 0>>
     ELSE reduce([k \in DOMAIN s |-> <<k - 1, k - 1>>], better, <<Len(s), Len(s)>>)

reverse(s)         == [k \in DOMAIN s |-> At(s, Len(s) - k)]
reverse_inplace(s) == FoldLeft(LAMBDA t, i : Exchange(t, i, Len(s) - i - 1), s, Iota(Len(s) \div 2))
rotate(s, t)       == [k \in DOMAIN s |-> At(s, IF k - 1 + t < Len(s) THEN k - 1 + t ELSE k - 1 + t - Len(s))]
append(s, t)       == [k \in 1 .. Len(s) + Len(t) |-> IF k <= Len(s) THEN s[k] ELSE t[k - Len(s)]]

flatten(ss) ==
  LET offsets == Offsets([k \in DOMAIN ss |-> Len(ss[k])])
  IN Stored(UNION {StoresOf(ss[k], offsets.out[k]) : k \in DOMAIN ss}, offsets.total)

-----------------------------------------------------------------------------
(* map_tokens_small: the places where tokens begin and end, by turns.      *)
map_tokens_small(s, spaces) ==
  LET n == Len(s)
      space(i) == At(s, i) \in spaces
      edge(i)  == IF i = 0 THEN ~space(0) ELSE IF i = n THEN ~space(n - 1) ELSE space(i - 1) # space(i)
      at == filter(Iota(n + 1), {i \in 0 .. n : edge(i)})
  IN IF n = 0 THEN << >> ELSE [k \in 1 .. Len(at) \div 2 |-> Cut(s, at[2 * k - 1], at[2 * k])]

(* map_tokens: a scan carries the number of tokens begun and the last      *)
(* beginning to each end.                                                  *)
map_tokens(s, spaces) ==
  LET n == Len(s)
      space(i)  == At(s, i) \in spaces
      starts(i) == (i = 0 \/ space(i - 1)) /\ i # n /\ ~space(i)
      ends(i)   == (i = n \/ space(i)) /\ i # 0 /\ ~space(i - 1)
      later(a, b) == IF b[1] = 0 THEN a ELSE <<a[1] + b[1], b[2]>>
      sc == scan([k \in 1 .. n + 1 |-> IF starts(k - 1) THEN <<1, k - 1>> ELSE <<0, 0>>], later, <<0, 0>>, FALSE)
  IN IF n = 0 THEN << >>
     ELSE Stored({<<sc.out[i + 1][1] - 1, Cut(s, sc.out[i + 1][2], i)>> : i \in {i \in 0 .. n : ends(i)}},
                 sc.total[1])

(* map_split_at: parts that end with the marked elements.                  *)
map_split_at(s, flags) ==
  LET at == pack_index(flags)
      m  == Len(at)
  IN [k \in 1 .. m + 1 |-> Cut(s, IF k = 1 THEN 0 ELSE at[k - 1] + 1, IF k = m + 1 THEN Len(s) ELSE at[k] + 1)]

remove_duplicates_ordered(s) == unique(sample_sort_(s, TRUE, FALSE), same)

(* rank: the place of each element in a stable sort.                       *)
ranks(s) ==
  LET position == merge_sort([k \in DOMAIN s |-> [key |-> s[k].key, at |-> k - 1]])
  IN Stored({<<position[k].at, k - 1>> : k \in DOMAIN s}, Len(s))

(* kth_smallest_copy on more than a few: the elements in the bucket, of    *)
(* those between pivots, in which the one in question is, and its place    *)
(* among them.                                                             *)
KthBucket(s, k, pivots) ==
  LET ids     == [i \in DOMAIN s |-> rank(Tree(pivots), s[i], 0, log2_up(Len(pivots) + 1) - 1)]
      sums    == [b \in 1 .. Len(pivots) + 1 |-> Count(ids, b - 1)]
      offsets == Offsets(sums).out
      id      == Cardinality({b \in DOMAIN offsets : offsets[b] <= k}) - 1
  IN [next |-> pack(s, [i \in DOMAIN s |-> ids[i] = id]), k |-> k - offsets[id + 1]]
=============================================================================
