----------------------------- MODULE RandomShuffle -----------------------------
(***************************************************************************)
(* The shuffles of random.h.  A generator is its state; what it gives is   *)
(* a function of the state, so that a shuffle is one too.                  *)
(***************************************************************************)
EXTENDS Primitives
LOCAL INSTANCE Integers
LOCAL INSTANCE Sequences
LOCAL INSTANCE SequencesExt

CONSTANTS
  ShuffleOffset  \* of the logarithm of n, for the number of buckets: 7

ith_rand(r, i) == Hash(i + r)
fork(r, i)     == Hash(Hash(i + r))

(* Knuth's shuffle, from the last place down.                              *)
seq_random_shuffle_(s, r) ==
  LET n == Len(s)
  IN IF n < 2 THEN s
     ELSE FoldLeft(LAMBDA t, i : Exchange(t, i, ith_rand(r, i) % (i + 1)), s, [k \in 1 .. n - 1 |-> n - k])

(* Random buckets, sorted by them, then a shuffle of each.                 *)
random_shuffle(s, r) ==
  LET n        == Len(s)
      num_buckets == 2 ^ ((log2_up(n) - ShuffleOffset) \div 2)
      get_pos  == [k \in 1 .. n |-> ith_rand(r, k - 1) % num_buckets]
      sorted   == count_sort(s, get_pos, num_buckets, FALSE)
      bucket(b) == Cut(sorted.out, sorted.offsets[b - 1], sorted.offsets[b])
  IN IF n < SeqThreshold THEN seq_random_shuffle_(s, r)
     ELSE FlattenSeq([b \in 1 .. num_buckets |-> seq_random_shuffle_(bucket(b), fork(r, b - 1))])

random_permutation(n, r) == random_shuffle(Iota(n), r)
=============================================================================
