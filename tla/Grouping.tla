-------------------------------- MODULE Grouping --------------------------------
(***************************************************************************)
(* Reducing and grouping by keys (collect_reduce.h, group_by.h).  Elements *)
(* are records with a key and a tag, which is the value.  Keys that a      *)
(* sample shows to be frequent get a bucket of their own.                  *)
(***************************************************************************)
EXTENDS Primitives
LOCAL INSTANCE Integers
LOCAL INSTANCE Sequences
LOCAL INSTANCE FiniteSets
LOCAL INSTANCE SequencesExt

CONSTANTS
  CrThreshold,      \* CR_SEQ_THRESHOLD: 8192
  MaxFew, PerFew,   \* 4 * num_workers, and 64
  CrBits,           \* bits of collect_reduce: 4 or more
  FewFactor,        \* 4
  Copies,           \* copy_cutoff: 5
  SparseThreshold,  \* 10000
  KeyHash(_)        \* the hash function of a key

ASSUME GroupingAssumption == PerFew > 0 /\ MaxFew >= 0 /\ Copies >= 2

(* The helpers, as the code calls them: the value of an element, how a     *)
(* value is added to a result, the first result, and the result of         *)
(* elements that all have one key.                                         *)
get_val(helper, x) ==
  CASE helper = "sum" -> x.tag
    [] helper = "group" -> <<x.tag>>
    [] helper = "count" -> 1
    [] helper = "flag" -> TRUE
    [] helper = "first" -> x
update(helper, d, v) ==
  CASE helper \in {"sum", "count"} -> d + v
    [] helper = "group" -> d \o v
    [] helper = "flag" -> TRUE
    [] helper = "first" -> d
first_result(helper) ==
  CASE helper \in {"sum", "count"} -> 0
    [] helper = "group" -> << >>
    [] helper = "flag" -> FALSE
combine(helper, s) ==
  CASE helper = "count" -> Len(s)
    [] helper = "flag" -> TRUE
    [] helper = "first" -> s[1]
    [] OTHER -> reduce([k \in DOMAIN s |-> get_val(helper, s[k])], LAMBDA v, w : update(helper, v, w),
                       first_result(helper))

(* seq_collect_reduce: one result for each key below m.                    *)
Collected(helper, vals) == FoldLeft(LAMBDA d, v : update(helper, d, v), first_result(helper), vals)
seq_collect_reduce(s, m, helper) ==
  LET vals(t) == [k \in DOMAIN t |-> get_val(helper, t[k])]
  IN [b \in 1 .. m |-> Collected(helper, vals(SelectSeq(s, LAMBDA x : x.key = b - 1)))]

(* collect_reduce_few: a result for each block, and these into one.        *)
collect_reduce_few(s, m, helper) ==
  LET n       == Len(s)
      size    == (n - 1) \div (Least(MaxFew, (n \div m) \div PerFew) + 1) + 1
      blocks  == Blocks(s, size)
      partial == [i \in DOMAIN blocks |-> seq_collect_reduce(blocks[i], m, helper)]
  IN IF n < CrThreshold \/ Len(blocks) = 1 THEN seq_collect_reduce(s, m, helper)
     ELSE [b \in 1 .. m |-> Collected(helper, [i \in DOMAIN blocks |-> partial[i][b]])]

-----------------------------------------------------------------------------
(* get_bucket: keys of a sample are counted in a hash table; those with    *)
(* enough copies get the first buckets, unless another has their slot.  H  *)
(* is the hash of each key.                                                *)
Free(size) == [i \in 0 .. size - 1 |-> [key |-> Torn, n |-> -1]]
Slot(table, key, home) ==
  LET size  == Cardinality(DOMAIN table)
      at(k) == (home + k) % size
  IN at(Smallest({k \in 0 .. size - 1 : table[at(k)].n = -1 \/ table[at(k)].key = key}))

Sampled_counts(s, H, bits) ==
  LET size == 4 * 2 ^ bits
      count(table, i) ==
        LET x == At(s, Hash(i) % Len(s)) k == Slot(table, x.key, H[x.key] % size)
        IN [table EXCEPT ![k] = [key |-> x.key, n |-> @.n + 1]]
  IN FoldLeft(count, Free(size), Iota(2 ^ bits))

Heavy(s, H, bits) ==
  LET counts == Sampled_counts(s, H, bits)
      size   == Cardinality(DOMAIN counts)
      add(t, i) ==
        LET home == H[counts[i].key] % size
        IN IF counts[i].n + 2 > Copies /\ t.table[home].n = -1
           THEN [table |-> [t.table EXCEPT ![home] = [key |-> counts[i].key, n |-> t.hitters]],
                 hitters |-> t.hitters + 1]
           ELSE t
  IN FoldLeft(add, [table |-> Free(size), hitters |-> 0], Iota(size))

(* Its operator(): the other keys share the rest of the buckets.  Fault:   *)
(* or all of them.                                                         *)
SharedBucket_Any(hash, heavy, m) == hash % m
SharedBucket(hash, heavy, m) ==
  IF hash % m < heavy THEN ((hash % m) % (m - heavy)) + heavy ELSE hash % m
Bucket(key, H, heavy, m) ==
  LET slot == heavy.table[H[key] % (4 * m)]
  IN IF heavy.hitters > 0 /\ slot.n # -1 /\ slot.key = key THEN slot.n
     ELSE SharedBucket(H[key], heavy.hitters, m)
Buckets(s, H, heavy, m) == [k \in DOMAIN s |-> Bucket(s[k].key, H, heavy, m)]
KeysIn(s) == {s[k].key : k \in DOMAIN s}

(* collect_reduce with many keys: by buckets, of which the first have one  *)
(* key each and are combined at once.  Keys next to each other share a     *)
(* hash, so that no two buckets write to one cache line.                   *)
collect_reduce_many(s, m, helper) ==
  LET H      == [key \in KeysIn(s) |-> KeyHash((key + 1) \div 2)]
      heavy  == Heavy(s, H, CrBits)
      sorted == count_sort(s, Buckets(s, H, heavy, 2 ^ CrBits), 2 ^ CrBits, FALSE)
      block(b) == Cut(sorted.out, sorted.offsets[b], sorted.offsets[b + 1])
      all(b)   == seq_collect_reduce(block(b), m, helper)
      stores == UNION {IF b < heavy.hitters
                       THEN {<<At(block(b), 0).key, combine(helper, block(b))>>}
                       ELSE {<<key, all(b)[key + 1]>> : key \in KeysIn(block(b))} :
                         b \in 0 .. 2 ^ CrBits - 1}
  IN [b \in 1 .. m |-> IF \E w \in stores : w[1] = b - 1 THEN Place(stores, b - 1) ELSE first_result(helper)]

collect_reduce(s, m, helper) ==
  IF m <= FewFactor * 2 ^ CrBits \/ Len(s) < CrThreshold
  THEN collect_reduce_few(s, m, helper) ELSE collect_reduce_many(s, m, helper)

(* seq_collect_reduce_sparse: a hash table of the keys, with linear        *)
(* probing, packed; a result is a key and a value.                         *)
seq_collect_reduce_sparse(s, helper) ==
  LET size == (3 * Len(s)) \div 2
      insert(table, x) ==
        LET k == Slot(table, x.key, KeyHash(x.key) % size)
        IN [table EXCEPT ![k] = IF @.n = -1 THEN [key |-> x.key, n |-> 0, val |-> get_val(helper, x)]
                                ELSE [@ EXCEPT !.val = update(helper, @, get_val(helper, x))]]
      table == FoldLeft(insert, Free(size), s)
      used  == SelectSeq(Iota(size), LAMBDA k : table[k].n # -1)
  IN [i \in DOMAIN used |-> <<table[used[i]].key, table[used[i]].val>>]

collect_reduce_sparse(s, helper) ==
  LET H      == [key \in KeysIn(s) |-> KeyHash(key)]
      heavy  == Heavy(s, H, CrBits)
      sorted == count_sort(s, Buckets(s, H, heavy, 2 ^ CrBits), 2 ^ CrBits, FALSE)
      block(b) == Cut(sorted.out, sorted.offsets[b], sorted.offsets[b + 1])
      tables == [b \in 1 .. 2 ^ CrBits |->
                   IF b - 1 < heavy.hitters THEN <<<<block(b - 1)[1].key, combine(helper, block(b - 1))>>>>
                   ELSE seq_collect_reduce_sparse(block(b - 1), helper)]
  IN IF Len(s) < SparseThreshold THEN seq_collect_reduce_sparse(s, helper) ELSE flatten(tables)

-----------------------------------------------------------------------------
TagsOf(s) == [k \in DOMAIN s |-> s[k].tag]

reduce_by_key(s)     == collect_reduce_sparse(s, "sum")
group_by_key(s)      == collect_reduce_sparse(s, "group")
histogram_by_key(s)  == collect_reduce_sparse(s, "count")
remove_duplicates(s) == LET r == collect_reduce_sparse(s, "first") IN [k \in DOMAIN r |-> r[k][2]]

(* reduce_by_index with the monoid of sequences, so that order shows.      *)
reduce_by_index(s, m)    == collect_reduce(s, m, "group")
histogram_by_index(s, m) == collect_reduce(s, m, "count")

(* remove_duplicate_integers: each update sets the flag, also the update   *)
(* by a block's result.                                                    *)
remove_duplicate_integers(s, m) == pack_index(collect_reduce(s, m, "flag"))

(* group_by_key_ordered: runs of equal keys of the stably sorted elements. *)
group_by_key_ordered(s) ==
  LET sorted == sample_sort_(s, TRUE, FALSE)
      idx    == pack_index([k \in DOMAIN sorted |-> k = 1 \/ f(sorted[k - 1], sorted[k])])
      end(i) == IF i = Len(idx) THEN Len(s) ELSE idx[i + 1]
  IN [i \in DOMAIN idx |-> <<At(sorted, idx[i]).key, TagsOf(Cut(sorted, idx[i], end(i)))>>]

(* group_by_index: by a counting sort if there are many elements for each  *)
(* key, else by sorting.                                                   *)
group_by_index(s, m) ==
  LET groups == group_by_small_int(s, [k \in DOMAIN s |-> s[k].key], m)
      sorted == integer_sort_r(s, log2_up(m), FALSE).out
      starts == pack_index([k \in DOMAIN sorted |-> k = 1 \/ sorted[k - 1].key < sorted[k].key])
      end(i) == IF i = Len(starts) THEN Len(s) ELSE starts[i + 1]
      stores == {<<At(sorted, starts[i]).key, TagsOf(Cut(sorted, starts[i], end(i)))>> : i \in DOMAIN starts}
  IN IF Len(s) > m * m THEN [b \in 1 .. m |-> TagsOf(groups[b - 1])]
     ELSE [b \in 1 .. m |-> IF \E w \in stores : w[1] = b - 1 THEN Place(stores, b - 1) ELSE << >>]
=============================================================================
