-------------------------------- MODULE Delayed --------------------------------
(***************************************************************************)
(* The delayed sequences of parlay.  A view is its size and its blocks:    *)
(* block i is what iterating from its begin_block(i) to begin_block(i + 1) *)
(* gives.  Random-access views are sequences, cut into blocks when asked;  *)
(* the others are delayed/ and, with a stream for each block, the older    *)
(* block_delayed.h.  Nested ranges are sequences of sequences.             *)
(***************************************************************************)
EXTENDS SequenceOps
LOCAL INSTANCE Integers
LOCAL INSTANCE Sequences
LOCAL INSTANCE SequencesExt

CONSTANTS
  ViewBlock  \* block_size, _block_size: 2000

num_blocks_from_size(n) == num_blocks(n, ViewBlock)
begin_block(n, i)       == Least(i * ViewBlock, n)
View(s) ==
  [n |-> Len(s), blocks |->
     [i \in 1 .. num_blocks_from_size(Len(s)) |-> Cut(s, begin_block(Len(s), i - 1), begin_block(Len(s), i))]]

(* upper_bound - 1: the last range that begins at start or before, which   *)
(* is not empty.                                                           *)
RangeAt(offsets, start) == CHOOSE j \in DOMAIN offsets :
  offsets[j] <= start /\ \A l \in j + 1 .. Len(offsets) : offsets[l] > start

-----------------------------------------------------------------------------
(* Views that are not random-access (delayed/).                            *)
delayed_map(v, F) ==
  [v EXCEPT !.blocks = [i \in DOMAIN @ |-> [k \in DOMAIN @[i] |-> F[@[i][k]]]]]

(* zip: as long as the shorter; its blocks begin where theirs do.          *)
Onward(v, i) == FlattenSeq(SubSeq(v.blocks, i, Len(v.blocks)))
delayed_zip(v, w) ==
  LET n == Least(v.n, w.n)
  IN [n |-> n, blocks |->
        [i \in 1 .. num_blocks_from_size(n) |->
           [k \in 1 .. begin_block(n, i) - begin_block(n, i - 1) |-> <<Onward(v, i)[k], Onward(w, i)[k]>>]]]

(* The values of a scan's iterator over a block, from its first value.     *)
Running(s, _ \odot _, first, inclusive) ==
  [k \in DOMAIN s |-> FoldLeft(\odot, first, IF inclusive THEN SubSeq(s, 2, k) ELSE SubSeq(s, 1, k - 1))]

delayed_scan(v, _ \odot _, id, inclusive) ==
  LET sums   == [i \in DOMAIN v.blocks |-> FoldLeft(\odot, id, v.blocks[i])]
      before == IF Len(sums) = 1 /\ inclusive THEN [out |-> <<id>>, total |-> id]
                ELSE scan(Append(sums, id), \odot, id, FALSE)
      first(i) == IF inclusive THEN before.out[i] \odot Head(v.blocks[i]) ELSE before.out[i]
  IN [view  |-> [v EXCEPT !.blocks = [i \in DOMAIN @ |-> Running(@[i], \odot, first(i), inclusive)]],
      total |-> before.total]

(* flatten: a place is a range of the outer sequence and one within it.    *)
(* operator++ goes over empty ranges; after the last it is the sentinel.   *)
Sentinel(outer) == <<Len(outer), 0>>
Following(outer, at) ==
  LET later == {j \in at[1] + 1 .. Len(outer) - 1 : outer[j + 1] # << >>}
  IN IF at[2] + 1 < Len(outer[at[1] + 1]) THEN <<at[1], at[2] + 1>>
     ELSE IF later = {} THEN Sentinel(outer)
     ELSE <<CHOOSE j \in later : \A l \in later : j <= l, 0>>
Valid(outer, at) == at[1] < Len(outer) /\ at[2] < Len(outer[at[1] + 1])
RECURSIVE Between(_, _, _)
Between(outer, at, to) ==
  IF at = to THEN << >>
  ELSE IF ~Valid(outer, at) THEN <<Torn>>
  ELSE <<outer[at[1] + 1][at[2] + 1]>> \o Between(outer, Following(outer, at), to)

Flattened(outer, starts, n) ==
  [n |-> n, blocks |-> [i \in 1 .. Len(starts) - 1 |-> Between(outer, starts[i], starts[i + 1])]]

(* initialize_iterators, of a random-access outer range.                   *)
delayed_flatten(outer) ==
  LET offsets == Offsets([j \in DOMAIN outer |-> Len(outer[j])])
      n_blocks == num_blocks_from_size(offsets.total)
      at(start) == LET j == RangeAt(offsets.out, start) IN <<j - 1, start - offsets.out[j]>>
  IN Flattened(outer, Append([i \in 1 .. n_blocks |-> at((i - 1) * ViewBlock)], Sentinel(outer)), offsets.total)

(* terminal.h: every block is copied to its place, or summed.              *)
to_sequence(v) ==
  Stored(UNION {StoresOf(v.blocks[i], (i - 1) * ViewBlock) : i \in DOMAIN v.blocks}, v.n)
delayed_reduce(v, _ \odot _, id) ==
  reduce([i \in DOMAIN v.blocks |-> FoldLeft(\odot, id, v.blocks[i])], \odot, id)
for_each(v) == UNION {{<<i, v.blocks[i][k]>> : k \in DOMAIN v.blocks[i]} : i \in DOMAIN v.blocks}

(* ... of a block-iterable one: each input block looks for the blocks of   *)
(* the output that begin within it, from the first that may.  The code     *)
(* reads out_block_offsets past its end when there is none; what it reads  *)
(* decides nothing, as the loop tests the index again.                     *)
delayed_flatten_blocks(v) ==
  LET outer   == FlattenSeq(v.blocks)
      offsets == Offsets([j \in DOMAIN outer |-> Len(outer[j])])
      n_blocks == num_blocks_from_size(offsets.total)
      out_block_offsets == [i \in 0 .. n_blocks - 1 |-> RangeAt(offsets.out, i * ViewBlock) - 1]
      found(i) == {o \in 0 .. n_blocks - 1 :
                     /\ out_block_offsets[o] >= i * ViewBlock
                     /\ out_block_offsets[o] < Least((i + 1) * ViewBlock, Len(offsets.out))}
      stores(i) == {<<o, <<out_block_offsets[o], o * ViewBlock - offsets.out[out_block_offsets[o] + 1]>>>> : o \in found(i)}
      starts == Stored(UNION {stores(i) : i \in 0 .. Len(v.blocks) - 1} \cup {<<n_blocks, Sentinel(outer)>>}, n_blocks + 1)
  IN Flattened(outer, starts, offsets.total)
delayed_flatten_copy(v) == delayed_flatten(to_sequence(v))

(* What each block keeps, flattened: the elements of a set, or what F,     *)
(* which gives a sequence of one or none, makes of them.                   *)
KeptOf(s, wanted) == SelectSeq(s, LAMBDA x : x \in wanted)
delayed_filter(v, wanted) == delayed_flatten([i \in DOMAIN v.blocks |-> KeptOf(v.blocks[i], wanted)])
delayed_filter_op(v, F) ==
  delayed_flatten([i \in DOMAIN v.blocks |-> FlattenSeq([k \in DOMAIN v.blocks[i] |-> F[v.blocks[i][k]]])])

enumerate(v) == delayed_zip(View([k \in 1 .. v.n |-> k - 1]), v)
zip_with(v, w, F) == delayed_map(delayed_zip(v, w), F)

-----------------------------------------------------------------------------
(* block_delayed.h, and the streams of stream_delayed.h it makes views of. *)
make_iterators(s) == [n |-> Len(s), blocks |-> Blocks(s, ViewBlock)]

stream_scan(s, _ \odot _, init, inclusive) ==
  Running(s, \odot, IF inclusive THEN init \odot Head(s) ELSE init, inclusive)
stream_reduce(s, _ \odot _, init) == FoldLeft(\odot, init, s)
stream_zip_with(s, t, _ \odot _) == [k \in DOMAIN s |-> s[k] \odot t[k]]
stream_filter_map(s, wanted, g) == LET kept == KeptOf(s, wanted) IN [k \in DOMAIN kept |-> g[kept[k]]]
stream_filter_op(s, F) == FoldLeft(LAMBDA out, x : out \o F[x], << >>, s)

block_scan(v, _ \odot _, id, inclusive) ==
  LET sums == scan([i \in DOMAIN v.blocks |-> stream_reduce(v.blocks[i], \odot, id)], \odot, id, FALSE)
      offsets == IF Len(v.blocks) = 1 /\ inclusive THEN <<id>> ELSE sums.out
  IN [view  |-> [v EXCEPT !.blocks = [i \in DOMAIN @ |-> stream_scan(@[i], \odot, offsets[i], inclusive)]],
      total |-> IF inclusive THEN id ELSE sums.total]
block_reduce(v, _ \odot _, id) ==
  reduce([i \in DOMAIN v.blocks |-> stream_reduce(v.blocks[i], \odot, id)], \odot, id)
block_zip_with(v, w, _ \odot _) ==
  [n |-> v.n, blocks |-> [i \in DOMAIN v.blocks |-> stream_zip_with(v.blocks[i], w.blocks[i], \odot)]]
block_map(v, F) ==
  [v EXCEPT !.blocks = [i \in DOMAIN @ |-> [k \in DOMAIN @[i] |-> F[@[i][k]]]]]

(* zip_apply with the indices: f is called once for each place.            *)
force(v) ==
  LET idx == make_iterators([k \in 1 .. v.n |-> k - 1])
  IN Stored(UNION {{<<idx.blocks[i][k], v.blocks[i][k]>> : k \in DOMAIN idx.blocks[i]} : i \in DOMAIN idx.blocks}, v.n)

(* A stream of len elements from a place.  The code's last operator++      *)
(* looks for a range beyond the last one; nothing reads what it finds.     *)
RECURSIVE Stream(_, _, _)
Stream(outer, at, len) ==
  IF len = 0 THEN << >>
  ELSE IF ~Valid(outer, at) THEN <<Torn>>
  ELSE <<outer[at[1] + 1][at[2] + 1]>> \o Stream(outer, Following(outer, at), len - 1)
block_flatten(outer) ==
  LET offsets == Offsets([j \in DOMAIN outer |-> Len(outer[j])])
      n       == offsets.total
      block(start) == LET j == RangeAt(offsets.out, start)
                      IN Stream(outer, <<j - 1, start - offsets.out[j]>>, Least(ViewBlock, n - start))
  IN [n |-> n, blocks |-> [i \in 1 .. num_blocks_from_size(n) |-> block((i - 1) * ViewBlock)]]

block_filter_map(v, wanted, g) ==
  LET seqs == [i \in DOMAIN v.blocks |-> stream_filter_map(v.blocks[i], wanted, g)]
      r    == Offsets([i \in DOMAIN seqs |-> Len(seqs[i])])
  IN IF Len(seqs) = 1 THEN seqs[1]
     ELSE Stored(UNION {StoresOf(seqs[i], r.out[i]) : i \in DOMAIN seqs}, r.total)
block_filter_op(v, wanted, g) ==
  block_flatten([i \in DOMAIN v.blocks |-> stream_filter_map(v.blocks[i], wanted, g)])
block_filter_op2(v, F) == block_flatten([i \in DOMAIN v.blocks |-> stream_filter_op(v.blocks[i], F)])
=============================================================================
