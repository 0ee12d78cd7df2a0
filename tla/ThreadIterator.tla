----------------------------- MODULE ThreadIterator -----------------------------
(***************************************************************************)
(* The iterators of ThreadSpecific (thread_specific.h): random access to   *)
(* elements in chunks of P, P, 2P, 4P, ..., P being ListChunk.  An         *)
(* iterator is a chunk and a position in it; what a move makes sure to     *)
(* exist, as it dereferences no chunk that is not there, is a set of       *)
(* chunks.                                                                 *)
(***************************************************************************)
LOCAL INSTANCE Integers

CONSTANTS
  ListChunk,  \* thread_list_chunk_size
  NChunks     \* n_chunks: 25

get_chunk_size(c) == IF c = 0 THEN ListChunk ELSE ListChunk * 2 ^ (c - 1)

compute_chunk_id(id) ==
  CHOOSE c \in 0 .. NChunks : id < ListChunk * 2 ^ c /\ \A b \in 0 .. c - 1 : ListChunk * 2 ^ b <= id
compute_chunk_position(id, c) == IF c = 0 THEN id ELSE id - ListChunk * 2 ^ (c - 1)
Iterator(id) == <<compute_chunk_id(id), compute_chunk_position(id, compute_chunk_id(id))>>

Reached(at, exists) == [at |-> at, exists |-> exists]

Increment(at) ==
  IF at[2] + 1 = get_chunk_size(at[1])
  THEN Reached(<<at[1] + 1, 0>>, IF at[1] + 1 < NChunks THEN {at[1] + 1} ELSE {})
  ELSE Reached(<<at[1], at[2] + 1>>, {})
Decrement(at) ==
  IF at[2] = 0 THEN Reached(<<at[1] - 1, get_chunk_size(at[1] - 1) - 1>>, {at[1] - 1})
  ELSE Reached(<<at[1], at[2] - 1>>, {})

RECURSIVE Normal(_, _)
Normal(c, p) ==
  CASE p < 0                  -> Normal(c - 1, p + get_chunk_size(c - 1))
    [] p >= get_chunk_size(c) -> Normal(c + 1, p - get_chunk_size(c))
    [] OTHER                  -> <<c, p>>
Advance(at, diff) ==
  LET to == Normal(at[1], at[2] + diff)
  IN Reached(to, IF to[1] = at[1] THEN {} ELSE {to[1]})

IsBefore(x, y) == x[1] < y[1] \/ (x[1] = y[1] /\ x[2] < y[2])
RECURSIVE Sizes(_, _)
Sizes(from, to) == IF from >= to THEN 0 ELSE get_chunk_size(from) + Sizes(from + 1, to)
Difference(x, y) ==
  IF IsBefore(x, y) THEN -(y[2] - x[2] + Sizes(x[1], y[1]))
  ELSE x[2] - y[2] + Sizes(y[1], x[1])
=============================================================================
