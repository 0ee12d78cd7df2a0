------------------------------ MODULE SequenceOps ------------------------------
(***************************************************************************)
(* The block-parallel building blocks of parlay (sequence_ops.h) as        *)
(* operators: a loop over blocks counts, a scan turns the counts into      *)
(* offsets, and a second loop over the blocks writes from these offsets.   *)
(* What the iterations of a parallel loop write is a set of stores, which  *)
(* make a sequence only if each place is written once.                     *)
(*                                                                         *)
(* Offsets count from 0 as in the code; sequences of TLA+ from 1.          *)
(***************************************************************************)
LOCAL INSTANCE Integers
LOCAL INSTANCE Sequences
LOCAL INSTANCE FiniteSets
LOCAL INSTANCE SequencesExt

CONSTANTS
  BlockSize,   \* _block_size: 1024
  RootFactor,  \* of sqrt(n), for the blocks of reduce: 4
  Torn         \* in a place that is written never, or more than once

Cut(s, from, to) == SubSeq(s, from + 1, to)
Least(a, b)      == IF a < b THEN a ELSE b
Greatest(a, b)   == IF a > b THEN a ELSE b

Place(stores, i) ==
  LET at == {w \in stores : w[1] = i}
  IN IF Cardinality(at) = 1 THEN (CHOOSE w \in at : TRUE)[2] ELSE Torn
Stored(stores, n) == [i \in 1 .. n |-> Place(stores, i - 1)]

(* One block's output from an offset, with the place it comes from, so     *)
(* that two stores of one value are two stores.                            *)
StoresOf(s, offset) == {<<offset + k - 1, s[k]>> : k \in DOMAIN s}

(* num_blocks and sliced_for.  Fault: the last, shorter block is lost.     *)
num_blocks_Whole(n, size) == n \div size
num_blocks(n, size) == IF n = 0 THEN 0 ELSE 1 + (n - 1) \div size
Start(i, size, n)   == Least(i * size, n)
Blocks(s, size)     ==
  [i \in 1 .. num_blocks(Len(s), size) |->
     Cut(s, (i - 1) * size, Least((i - 1) * size + size, Len(s)))]

-----------------------------------------------------------------------------
(* reduce_serial, and reduce: the sums of the blocks, reduced again.       *)
reduce_serial(s, _ \odot _, id) ==
  IF s = << >> THEN id ELSE FoldLeft(\odot, Head(s), Tail(s))

Root(n) == CHOOSE r \in 0 .. n : r * r >= n /\ \A q \in 0 .. r - 1 : q * q < n

RECURSIVE reduce(_, _, _)
reduce(s, _ \odot _, id) ==
  LET blocks == Blocks(s, Greatest(BlockSize, RootFactor * Root(Len(s))))
  IN IF Len(blocks) <= 1 THEN reduce_serial(s, \odot, id)
     ELSE reduce([i \in DOMAIN blocks |-> reduce_serial(blocks[i], \odot, id)], \odot, id)

(* scan_serial from an offset: the value before each element, and the      *)
(* total; the value after it if the scan is inclusive.                     *)
scan_serial(s, _ \odot _, offset, inclusive) ==
  LET upto(k) == FoldLeft(\odot, offset, SubSeq(s, 1, k))
  IN [out   |-> [k \in DOMAIN s |-> upto(IF inclusive THEN k ELSE k - 1)],
      total |-> upto(Len(s))]

(* scan_: the sums of the blocks are scanned, in this thread, before each  *)
(* block is scanned from its sum.                                          *)
scan(s, _ \odot _, id, inclusive) ==
  LET blocks == Blocks(s, BlockSize)
      sums   == scan_serial([i \in DOMAIN blocks |-> reduce_serial(blocks[i], \odot, id)], \odot, id, FALSE)
  IN IF Len(blocks) <= 2 THEN scan_serial(s, \odot, id, inclusive)
     ELSE [out   |-> FlattenSeq([i \in DOMAIN blocks |->
                       scan_serial(blocks[i], \odot, sums.out[i], inclusive).out]),
           total |-> sums.total]

Plus(a, b)   == a + b
Offsets(s)   == scan(s, Plus, 0, FALSE)
Count(s, x)  == Len(SelectSeq(s, LAMBDA y : y = x))

-----------------------------------------------------------------------------
(* pack_serial and pack_serial_at: the elements whose flag is set.         *)
pack_serial(s, flags) ==
  LET set == SelectSeq([k \in DOMAIN s |-> k], LAMBDA k : flags[k])
  IN [k \in DOMAIN set |-> s[set[k]]]

(* pack, pack_out, filter_out and filter_map: the flags are those given,   *)
(* or which elements are in a set; g is what becomes of an element.        *)
pack(s, flags) ==
  LET ins  == Blocks(s, BlockSize)
      fls  == Blocks(flags, BlockSize)
      sums == Offsets([i \in DOMAIN fls |-> Count(fls[i], TRUE)])
  IN IF Len(ins) = 1 THEN pack_serial(s, flags)
     ELSE Stored(UNION {StoresOf(pack_serial(ins[i], fls[i]), sums.out[i]) : i \in DOMAIN ins}, sums.total)

filter(s, wanted)        == pack(s, [k \in DOMAIN s |-> s[k] \in wanted])
filter_map(s, wanted, g) == LET kept == filter(s, wanted) IN [k \in DOMAIN kept |-> g[kept[k]]]
pack_index(flags)        == pack([k \in DOMAIN flags |-> k - 1], flags)

(* split_three: where the elements of one block with flag c begin.         *)
split_three(s, flags) ==
  LET ins   == Blocks(s, BlockSize)
      fls   == Blocks(flags, BlockSize)
      sums0 == Offsets([i \in DOMAIN fls |-> Count(fls[i], 0)])
      sums1 == Offsets([i \in DOMAIN fls |-> Count(fls[i], 1)])
      from(i, c) ==
        CASE c = 0 -> sums0.out[i]
          [] c = 1 -> sums0.total + sums1.out[i]
          [] c = 2 -> sums0.total + sums1.total + ((i - 1) * BlockSize - sums0.out[i] - sums1.out[i])
      of(i, c) == pack_serial(ins[i], [k \in DOMAIN fls[i] |-> fls[i][k] = c])
  IN [out |-> Stored(UNION {StoresOf(of(i, c), from(i, c)) : i \in DOMAIN ins, c \in 0 .. 2}, Len(s)),
      zeros |-> sums0.total, ones |-> sums1.total]

split_two(s, flags) ==
  LET ins  == Blocks(s, BlockSize)
      fls  == Blocks(flags, BlockSize)
      sums == Offsets([i \in DOMAIN fls |-> Count(fls[i], FALSE)])
      from(i, c) == IF c THEN (i - 1) * BlockSize + (sums.total - sums.out[i]) ELSE sums.out[i]
      of(i, c) == pack_serial(ins[i], [k \in DOMAIN fls[i] |-> fls[i][k] = c])
  IN [out |-> Stored(UNION {StoresOf(of(i, c), from(i, c)) : i \in DOMAIN ins, c \in BOOLEAN}, Len(s)),
      zeros |-> sums.total]
=============================================================================
