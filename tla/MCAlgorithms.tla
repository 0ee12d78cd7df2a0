------------------------------ MODULE MCAlgorithms ------------------------------
(***************************************************************************)
(* The calculators, the algorithms of parlay on every sequence of up to    *)
(* MaxInput keys, and its sequences, for TLC.  Thresholds and block sizes  *)
(* are so small that short inputs take the parallel paths.  A behaviour    *)
(* feeds the calculators, or calls the functions of sequences, or extends  *)
(* the input one key at a time and calls the algorithms on it: what they   *)
(* give is said of that step.                                              *)
(***************************************************************************)
EXTENDS MCCalc, SequenceStorage, Grouping, Delayed, RandomShuffle, ThreadIterator, SequencesExt

CONSTANTS InputKeys, MaxInput

VARIABLES input, running

ofCalc    == <<trades, features, prevTime, numer, denom, upticks, downticks, calc, it, before>>

AlgorithmsInit ==
  /\ Init /\ StorageInit /\ input = << >>
  /\ running \in {"calculators", "algorithms", "sequences"}
  /\ running # "sequences" => sso

Feed ==
  /\ running = "algorithms" /\ Len(input) < MaxInput
  /\ \E key \in InputKeys : input' = Append(input, key)
  /\ UNCHANGED <<ofCalc, storageVars, running>>

Call ==
  /\ running = "algorithms" /\ running' = "called"
  /\ UNCHANGED <<ofCalc, storageVars, input>>

AlgorithmsNext ==
  \/ running = "calculators" /\ Next /\ UNCHANGED <<input, storageVars, running>>
  \/ Feed \/ Call
  \/ running = "sequences" /\ StorageNext /\ UNCHANGED <<input, ofCalc, running>>

AlgorithmsSpec == AlgorithmsInit /\ [][AlgorithmsNext]_<<ofCalc, input, storageVars, running>>

Symmetry == Permutations(Values)

MCHash(i)    == (5 * i * i + 3) % 101
MCKeyHash(k) == 3 * k + 1

-----------------------------------------------------------------------------
(* The input as elements that can be told apart, the flags made of it, and *)
(* what sequential definitions say.                                        *)
Elements    == [k \in DOMAIN input |-> [key |-> input[k], tag |-> k]]
Flags       == [k \in DOMAIN input |-> input[k] = 1]
Of(b)       == SelectSeq(Elements, LAMBDA x : x.key = b)
Keys        == Max(InputKeys) + 1
Stably      == FlattenSeq([b \in 1 .. Keys |-> Of(b - 1)])
KeysOf(s)   == [k \in DOMAIN s |-> s[k].key]
Permuted(s) == Len(s) = Len(input) /\ ToSet(s) = ToSet(Elements)
Sorts(s)    == Permuted(s) /\ KeysOf(s) = KeysOf(Stably)
Upto(k)     == TagsOf(SubSeq(Elements, 1, k))
Joined(v, w) == v \o w
Pair(v, w)   == <<v, w>>
Ones        == {x \in ToSet(Elements) : x.key = 1}
Same(S)     == [x \in S |-> x]
Places(P(_)) == {i \in 0 .. Len(input) - 1 : P(i)}
FirstOf(set, none) == IF set = {} THEN none ELSE Smallest(set)

(* The views of delayed/ and block_delayed.h: the nested ranges, some of   *)
(* them empty, are key elements for each key of the input.                 *)
DelayedAgree ==
  LET n      == Len(input)
      nested == [k \in DOMAIN input |-> [j \in 1 .. input[k] |-> <<k, j>>]]
      flat   == FlattenSeq(nested)
      view   == delayed_flatten(nested)
      block  == block_flatten(nested)
      one(x) == x[2] = 1
      ones   == SelectSeq(flat, one)
      upto(k) == SubSeq(flat, 1, k)
      less   == [k \in DOMAIN flat |-> upto(k - 1)]
      most   == [k \in DOMAIN flat |-> upto(k)]
      all    == ToSet(flat)
      those  == {x \in all : one(x)}
      cat(v) == delayed_map(v, [x \in all |-> <<x>>])
      excl   == delayed_scan(cat(view), Joined, << >>, FALSE)
      blex   == block_scan(cat(block), Joined, << >>, FALSE)
      maybe  == [x \in all |-> IF one(x) THEN <<x>> ELSE << >>]
      pairs  == [k \in DOMAIN flat |-> <<k - 1, flat[k]>>]
      inputs == View(Elements)
  IN /\ view = View(flat) /\ block = View(flat)
     /\ delayed_flatten_blocks(View(nested)) = View(flat)
     /\ delayed_flatten_copy(View(nested)) = View(flat)
     /\ to_sequence(view) = flat /\ force(block) = flat
     /\ delayed_reduce(cat(view), Joined, << >>) = flat /\ block_reduce(cat(block), Joined, << >>) = flat
     /\ to_sequence(excl.view) = less /\ excl.total = flat
     /\ to_sequence(delayed_scan(cat(view), Joined, << >>, TRUE).view) = most
     /\ force(blex.view) = less /\ blex.total = flat
     /\ force(block_scan(cat(block), Joined, << >>, TRUE).view) = most
     /\ to_sequence(delayed_filter(view, those)) = ones
     /\ to_sequence(delayed_filter_op(view, maybe)) = ones
     /\ block_filter_map(block, those, Same(all)) = ones
     /\ force(block_filter_op(block, those, Same(all))) = ones
     /\ force(block_filter_op2(block, maybe)) = ones
     /\ to_sequence(enumerate(view)) = pairs
     /\ force(block_zip_with(make_iterators([k \in DOMAIN flat |-> k - 1]), block, Pair)) = pairs
     /\ to_sequence(delayed_zip(view, inputs)) =
          [k \in 1 .. Least(n, Len(flat)) |-> <<flat[k], Elements[k]>>]
     /\ Cardinality(for_each(view)) = Len(flat)

(* Cutting the input into blocks changes nothing: reductions and scans     *)
(* with an operation that does not commute, packs and splits give what one *)
(* pass from left to right gives (sequence_ops.h).                         *)
BlocksAgree == [][
  running' = "called" =>
  LET n     == Len(input)
      tags  == [k \in DOMAIN input |-> <<k>>]
      excl  == scan(tags, Joined, << >>, FALSE)
      incl  == scan(tags, Joined, << >>, TRUE)
      three == split_three(Elements, [k \in DOMAIN input |-> input[k] % 3])
      two   == split_two(Elements, Flags)
      ones  == SelectSeq(Elements, LAMBDA x : x.key = 1)
      rest  == SelectSeq(Elements, LAMBDA x : x.key # 1)
  IN /\ reduce(tags, Joined, << >>) = Upto(n)
     /\ excl.total = Upto(n) /\ excl.out = [k \in 1 .. n |-> Upto(k - 1)]
     /\ incl.total = Upto(n) /\ incl.out = [k \in 1 .. n |-> Upto(k)]
     /\ pack(Elements, Flags) = ones
     /\ filter(Elements, Ones) = ones
     /\ three.out = Stably /\ three.zeros = Len(Of(0)) /\ three.ones = Len(Of(1))
     /\ two.out = rest \o ones /\ two.zeros = Len(rest)
     /\ flatten(<<Of(0), Of(2), Of(1)>>) = Of(0) \o Of(2) \o Of(1)
     /\ DelayedAgree
  ]_running

(* Every sort gives the elements in order, whatever path it takes, and the *)
(* stable ones keep equal keys as they were, which the radix sorts rest on *)
(* (counting_sort.h, integer_sort.h, merge.h, merge_sort.h, quicksort.h,   *)
(* bucket_sort.h, sample_sort.h).                                          *)
SortsSort == [][
  running' = "called" =>
  LET n == Len(input)
      half == n \div 2
      left  == merge_sort(SubSeq(Elements, 1, half))
      right == merge_sort(SubSeq(Elements, half + 1, n))
      count == count_sort(Elements, input, Keys, FALSE)
  IN /\ count.out = Stably
     /\ \A b \in 1 .. Keys : Cut(count.out, count.offsets[b - 1], count.offsets[b]) = Of(b - 1)
     /\ integer_sort(Elements) = Stably /\ integer_sort_inplace(Elements) = Stably
     /\ integer_sort_with_counts(Elements, Keys) =
          [out |-> Stably, counts |-> [b \in 1 .. Keys |-> Len(Of(b - 1))]]
     /\ merge_into(left, right) = Stably
     /\ merge_sort(Elements) = Stably /\ bucket_sort(Elements, TRUE) = Stably
     /\ Sorts(quicksort(Elements)) /\ Sorts(p_quicksort_inplace(Elements))
     /\ Sorts(bucket_sort(Elements, FALSE))
     /\ \A large \in BOOLEAN :
          n > 0 => /\ sample_sort_(Elements, TRUE, large) = Stably
                   /\ Sorts(sample_sort_(Elements, FALSE, large))
                   /\ Sorts(sample_sort_inplace_(Elements, large))
  ]_running

(* Iterators over the elements of the threads move as if these lay in one  *)
(* row, and the chunk they reach exists (thread_specific.h).               *)
IteratorsMove ==
  LET a == Len(input)
      at == Iterator(a)
      next == Increment(at)
      there(move) == move.at[1] \in {at[1], NChunks} \cup move.exists
  IN /\ next.at = Iterator(a + 1) /\ there(next) /\ Decrement(next.at).at = at
     /\ a > 0 => there(Decrement(at))
     /\ \A b \in 0 .. 4 * MaxInput :
          /\ Advance(at, b - a).at = Iterator(b) /\ there(Advance(at, b - a))
          /\ Difference(at, Iterator(b)) = a - b /\ (IsBefore(at, Iterator(b)) <=> a < b)

(* The searches find the first place, or the last, and what is computed    *)
(* from places, such as tokens, ranks and selections, is what a loop gives *)
(* (primitives.h); a shuffle loses nothing (random.h).                     *)
PrimitivesExact == [][
  running' = "called" =>
  LET n  == Len(input)
      s  == Elements
      tokens == map_tokens_small(s, Ones)
  IN /\ find_if(s, Ones) = FirstOf(Places(LAMBDA i : input[i + 1] = 1), n)
     /\ search(s, <<[key |-> 1, tag |-> 0], [key |-> 2, tag |-> 0]>>, same)
          = FirstOf(Places(LAMBDA i : i + 2 <= n /\ input[i + 1] = 1 /\ input[i + 2] = 2), n)
     /\ n >= 2 => LET t == <<[key |-> 1, tag |-> 0], [key |-> 2, tag |-> 0]>>
                      at == Places(LAMBDA i : i + 2 <= n /\ input[i + 1] = 1 /\ input[i + 2] = 2)
                  IN find_end(s, t, same) = IF at = {} THEN n ELSE Max(at)
     /\ n >= 1 => adjacent_find(s, same)
                    = FirstOf(Places(LAMBDA i : i + 2 <= n /\ input[i + 1] = input[i + 2]), n)
     /\ is_sorted(s) <=> (input = KeysOf(Stably))
     /\ \A r \in 0 .. 2 : Permuted(random_shuffle(s, r)) /\ ToSet(random_permutation(n, r)) = 0 .. n - 1
     /\ IteratorsMove
     /\ is_sorted_until(s) = FirstOf(Places(LAMBDA i : i > 0 /\ input[i + 1] < input[i]), n)
     /\ is_partitioned(s, Ones) <=> \A i, k \in DOMAIN input : i < k /\ input[k] = 1 => input[i] = 1
     /\ \A k \in 0 .. n :
          LET a == SubSeq(s, 1, k) b == SubSeq(s, k + 1, n)
              m == Least(k, n - k)
              d == FirstOf({i \in 0 .. m - 1 : a[i + 1].key # b[i + 1].key}, m)
              below == IF d = m THEN k < n - k ELSE a[d + 1].key < b[d + 1].key
          IN /\ mismatch(a, b, same) = d
             /\ lexicographical_compare(a, b) = below /\ less_than(a, b) = below
             /\ rotate(s, k) = b \o a /\ append(a, b) = s
     /\ n > 0 => /\ min_element(s, f) = Head(Stably).tag - 1
                 /\ max_element(s) = Smallest(Places(LAMBDA i : \A k \in DOMAIN input : input[k] <= input[i + 1]))
                 /\ minmax_element(s) = <<min_element(s, f), max_element(s)>>
     /\ reverse(s) = Reverse(s) /\ reverse_inplace(s) = Reverse(s)
     /\ map_tokens(s, Ones) = tokens
     /\ FlattenSeq(tokens) = SelectSeq(s, LAMBDA x : x \notin Ones) /\ << >> \notin ToSet(tokens)
     /\ FlattenSeq(map_split_at(s, Flags)) = s
     /\ [k \in 1 .. n |-> ranks(s)[k]] = [k \in 1 .. n |-> (CHOOSE i \in 1 .. n : Stably[i].tag = k) - 1]
     /\ n > 0 => LET r == remove_duplicates_ordered(s)
                 IN r = [k \in 1 .. Len(r) |-> Head(Of(r[k].key))] /\ Len(r) = Cardinality(ToSet(input))
     /\ \A k \in 0 .. n - 1 :
          LET r == KthBucket(s, k, <<[key |-> 0, tag |-> 0], [key |-> 1, tag |-> 0], [key |-> 1, tag |-> 0]>>)
          IN \E i \in DOMAIN r.next : /\ r.next[i].key = Stably[k + 1].key
                                      /\ Cardinality({j \in DOMAIN r.next : f(r.next[j], r.next[i])}) <= r.k
                                      /\ r.k < Cardinality({j \in DOMAIN r.next : ~f(r.next[i], r.next[j])})
  ]_running

(* Whether a key gets a bucket of its own or shares one, there is one      *)
(* result for every key and it has all of its elements, in their order     *)
(* (collect_reduce.h, group_by.h).                                         *)
GroupsWhole == [][
  running' = "called" =>
  LET n    == Len(input)
      keys == ToSet(input)
      tagsOf(k) == TagsOf(Of(k))
      pairs(P(_)) == {<<k, P(k)>> : k \in keys}
      once(s, set) == ToSet(s) = set /\ Len(s) = Cardinality(set)
      groups == group_by_small_int(Elements, input, Keys)
  IN /\ group_by_index(Elements, Keys) = [k \in 1 .. Keys |-> tagsOf(k - 1)]
     /\ n > 0 =>
        /\ once(group_by_key(Elements), pairs(tagsOf))
        /\ once(histogram_by_key(Elements), pairs(LAMBDA k : Len(Of(k))))
        /\ once(reduce_by_key(Elements), pairs(LAMBDA k : FoldLeft(Plus, 0, tagsOf(k))))
        /\ once(KeysOf(remove_duplicates(Elements)), keys)
        /\ once(group_by_key_ordered(Elements), pairs(tagsOf))
        /\ reduce_by_index(Elements, Keys) = [k \in 1 .. Keys |-> tagsOf(k - 1)]
        /\ histogram_by_index(Elements, Keys + 1) = [k \in 1 .. Keys + 1 |-> Len(Of(k - 1))]
        /\ groups = [k \in 0 .. Keys - 1 |-> Of(k)]
  ]_running

(* "comibine partial results into total result" (collect_reduce.h:69): the *)
(* integers that are left are those of the input.                          *)
DuplicatesRemoved == [][
  running' = "called" /\ input # << >> =>
    ToSet(remove_duplicate_integers(Elements, Max(ToSet(input)) + 1)) = ToSet(input)
  ]_running
=============================================================================
