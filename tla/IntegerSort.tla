------------------------------ MODULE IntegerSort ------------------------------
(***************************************************************************)
(* Counting sort, grouping by small keys and the radix sort made of them   *)
(* (counting_sort.h, integer_sort.h).  An element is a record with a key;  *)
(* sorting is stable.  The radix sorts move elements between two buffers,  *)
(* of which the one moved from holds nothing afterwards.                   *)
(***************************************************************************)
EXTENDS SequenceOps
LOCAL INSTANCE Integers
LOCAL INSTANCE Sequences
LOCAL INSTANCE FiniteSets
LOCAL INSTANCE SequencesExt

CONSTANTS
  SeqThreshold,  \* SEQ_THRESHOLD: 8192
  PerBlock,      \* elements for each block of count_sort_: 5000 bytes or more
  Radix,         \* radix: 8
  BaseBits,      \* base_bits: 8 or more
  BaseCase       \* PARLAY_INTEGER_SORT_BASE_CASE_SIZE: 2 ^ 17

Nothing(n) == [k \in 1 .. n |-> Torn]

(* seq_count_: how many of a block's keys are which.                       *)
seq_count(keys, m) == [b \in 0 .. m - 1 |-> Count(keys, b)]
SumTo(f, b) == FoldLeft(Plus, 0, [k \in 1 .. b |-> f[k - 1]])

(* seq_count_sort_, seq_write_down_: each bucket is filled from its end,   *)
(* by the last elements first.                                             *)
seq_count_sort(s, keys, m) ==
  LET counts == seq_count(keys, m)
      same(j) == Cardinality({i \in j .. Len(s) : keys[i] = keys[j]})
  IN [out     |-> Stored({<<SumTo(counts, keys[j] + 1) - same(j), s[j]>> : j \in DOMAIN s}, Len(s)),
      offsets |-> [b \in 0 .. m |-> SumTo(counts, b)],
      in_one  |-> FALSE]

(* Where the elements of block i and key b go, given the blocks' counts.   *)
(* Fault: the counts of the blocks before it are forgotten.                *)
dest_offset_Bucket(counts, offset, i) == offset
dest_offset(counts, offset, i) == offset + FoldLeft(Plus, 0, SubSeq(counts, 1, i - 1))

(* count_sort_: as above if there is one block; else count, add up, write. *)
(* If asked to, it leaves the elements where they are when one bucket has  *)
(* them all.                                                               *)
WithKey(s, keys, b) == pack_serial(s, [k \in DOMAIN s |-> keys[k] = b])
count_sort(s, keys, m, skip_if_in_one) ==
  LET n       == Len(s)
      size    == (n - 1) \div (1 + n \div PerBlock) + 1
      blocks  == Blocks(s, size)
      theirs  == Blocks(keys, size)
      counts  == [i \in DOMAIN blocks |-> seq_count(theirs[i], m)]
      of(b)   == [i \in DOMAIN blocks |-> counts[i][b]]
      totals  == [b \in 1 .. m |-> FoldLeft(Plus, 0, of(b - 1))]
      offsets == Offsets(Append(totals, 0)).out
      in_one  == skip_if_in_one /\ Cardinality({b \in DOMAIN totals : totals[b] > 0}) = 1
      stores  == UNION {StoresOf(WithKey(blocks[i], theirs[i], b),
                                 dest_offset(of(b), offsets[b + 1], i)) :
                          i \in DOMAIN blocks, b \in 0 .. m - 1}
  IN IF n < SeqThreshold \/ n \div PerBlock = 0 THEN seq_count_sort(s, keys, m)
     ELSE [out     |-> IF in_one THEN Nothing(n) ELSE Stored(stores, n),
           offsets |-> [b \in 0 .. m |-> offsets[b + 1]],
           in_one  |-> in_one]

(* group_by_small_int: a sequence for each key; two keys have a loop of    *)
(* their own.                                                              *)
group_by_small_int(s, keys, m) ==
  LET n      == Len(s)
      size_of_block == (n - 1) \div (1 + n \div PerBlock) + 1
      blocks == Blocks(s, size_of_block)
      theirs == Blocks(keys, size_of_block)
      of(b)  == [i \in DOMAIN blocks |-> seq_count(theirs[i], m)[b]]
      zeros  == Offsets(of(0))
      start(i) == FoldLeft(Plus, 0, [h \in 1 .. i - 1 |-> Len(blocks[h])])
      from(b, i) == IF m # 2 THEN dest_offset(of(b), 0, i)
                    ELSE IF b = 0 THEN zeros.out[i] ELSE start(i) - zeros.out[i]
      size(b) == IF m = 2 /\ b = 1 THEN n - zeros.total ELSE FoldLeft(Plus, 0, of(b))
  IN [b \in 0 .. m - 1 |->
        Stored(UNION {StoresOf(WithKey(blocks[i], theirs[i], b), from(b, i)) :
                        i \in DOMAIN blocks}, size(b))]

-----------------------------------------------------------------------------
(* The two buffers of a radix sort, and a move of all from one to another. *)
Buffers(in, out) == [in |-> in, out |-> out]
Swapped(bufs)    == Buffers(bufs.out, bufs.in)

(* seq_radix_sort_: a round for each digit, from one buffer to the other,  *)
(* and a move at the end if that leaves the elements in the wrong one.     *)
Digit(key, offset, bits) == (key \div 2 ^ offset) % 2 ^ bits
RECURSIVE Rounds(_, _, _)
Rounds(s, bits, offset) ==
  LET r == Least(Radix, bits)
      digits == [k \in DOMAIN s |-> Digit(s[k].key, offset, r)]
  IN IF bits = 0 THEN [out |-> s, swapped |-> FALSE]
     ELSE LET rest == Rounds(seq_count_sort(s, digits, 2 ^ r).out, bits - r, offset + r)
          IN [rest EXCEPT !.swapped = ~@]

seq_radix_sort_(s, bits, inplace) ==
  LET rounds == Rounds(s, bits, 0)
      end    == IF rounds.swapped THEN Buffers(Nothing(Len(s)), rounds.out)
                ELSE Buffers(rounds.out, Nothing(Len(s)))
  IN IF Len(s) = 0 THEN Buffers(s, s)
     ELSE IF rounds.swapped = inplace THEN Swapped(end) ELSE end

(* seq_radix_sort: in place, or from a copy in Tmp or in Out, depending on *)
(* the number of rounds; the input stays if it is copied, not moved.       *)
seq_radix_sort(s, bits, inplace) ==
  LET odd == ((bits - 1) \div Radix) % 2 = 1
  IN IF inplace THEN seq_radix_sort_(s, bits, TRUE)
     ELSE Buffers(s, IF odd THEN seq_radix_sort_(s, bits, FALSE).out
                     ELSE seq_radix_sort_(s, bits, TRUE).in)

(* integer_sort_r: the sorted elements are in the buffer In if in place,   *)
(* else in Out.  A recursive call works on a bucket in Out, the other way  *)
(* round.                                                                  *)
RECURSIVE integer_sort_r(_, _, _)
integer_sort_r(s, bits, inplace) ==
  LET n      == Len(s)
      shift  == bits - Radix
      low    == count_sort(s, [k \in 1 .. n |-> s[k].key % 2 ^ bits], 2 ^ bits, inplace)
      high   == count_sort(s, [k \in 1 .. n |-> Digit(s[k].key, shift, Radix)], 2 ^ Radix, TRUE)
      bucket == [b \in 1 .. 2 ^ Radix |->
                   integer_sort_r(Cut(high.out, high.offsets[b - 1], high.offsets[b]), shift, ~inplace)]
      sorted == FlattenSeq([b \in DOMAIN bucket |-> IF inplace THEN bucket[b].out ELSE bucket[b].in])
  IN CASE bits = 0 -> IF inplace THEN Buffers(s, Nothing(n)) ELSE Buffers(s, s)
       [] bits > 0 /\ n < BaseCase -> seq_radix_sort(s, bits, inplace)
       [] bits > 0 /\ n >= BaseCase /\ bits <= BaseBits ->
            IF inplace THEN Buffers(IF low.in_one THEN s ELSE low.out, Nothing(n))
            ELSE Buffers(s, low.out)
       [] bits > BaseBits /\ n >= BaseCase /\ high.in_one -> integer_sort_r(s, shift, inplace)
       [] bits > BaseBits /\ n >= BaseCase /\ ~high.in_one ->
            IF inplace THEN Buffers(sorted, Nothing(n)) ELSE Buffers(s, sorted)

(* integer_sort_ finds the number of bits of the greatest key.             *)
log2_up(n) == CHOOSE k \in 0 .. n : 2 ^ k >= n /\ \A j \in 0 .. k - 1 : 2 ^ j < n
BitsOf(s)  == log2_up(reduce([k \in DOMAIN s |-> s[k].key], Greatest, 0) + 1)
integer_sort(s)         == integer_sort_r(s, BitsOf(s), FALSE).out
integer_sort_inplace(s) == integer_sort_r(s, BitsOf(s), TRUE).in

(* get_counts, of sorted elements: where each run of a key ends and, the   *)
(* first aside, starts.                                                    *)
get_counts(s, m) ==
  LET n      == Len(s)
      starts == {<<s[i + 1].key, i>> : i \in {i \in 1 .. n - 1 : s[i].key # s[i + 1].key}}
      ends   == {<<s[i].key, i>> : i \in {i \in 1 .. n - 1 : s[i].key # s[i + 1].key}} \cup {<<s[n].key, n>>}
      at(stores, b) == IF \E w \in stores : w[1] = b THEN Place(stores, b) ELSE 0
  IN IF n = 0 THEN << >> ELSE [b \in 1 .. m |-> at(ends, b - 1) - at(starts, b - 1)]

integer_sort_with_counts(s, m) ==
  LET sorted == integer_sort_r(s, log2_up(m), FALSE).out
  IN IF s = << >> THEN [out |-> s, counts |-> [b \in 1 .. m |-> 0]]
     ELSE [out |-> sorted, counts |-> get_counts(sorted, m)]
=============================================================================
