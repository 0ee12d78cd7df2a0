---------------------------- MODULE SequenceStorage ----------------------------
(***************************************************************************)
(* parlay::sequence (sequence.h) on its storage (sequence_base.h): a       *)
(* vector whose elements lie in a heap buffer that begins with its         *)
(* capacity, or, for trivial types when EnableSSO, in the object itself.   *)
(* Two sequences, and tmp: the tail, copy or moved-from temporary of an    *)
(* operation.  An operation is the composition of the storage's functions  *)
(* it calls, each from a memory to a memory.  Arguments are values, which  *)
(* do not lie in the sequence they are given to.                           *)
(***************************************************************************)
EXTENDS Naturals, Sequences

CONSTANTS
  Values,         \* of the elements
  Raw, Moved,     \* cells: not constructed, moved from
  ShortCapacity,  \* short_capacity: 15 bytes
  ChunkSize,      \* chunk_size of a relocation: 8 KiB
  MaxStored,      \* bound: length of a sequence
  MaxReserve      \* bound: capacity that reserve asks for

VARIABLES
  memory,  \* [seqs, heap, misused]: the three objects, the buffers, and whether
           \* an element was built twice, destroyed twice, read raw or freed alive
  sso,     \* use_sso: the elements are trivial
  expect   \* history: what the sequences should hold

Params == /\ ShortCapacity \in Nat /\ ChunkSize \in Nat \ {0}
          /\ MaxStored \in Nat /\ MaxReserve \in Nat
          /\ Raw \notin Values /\ Raw # Moved
ASSUME StorageOK == Params

storageVars == <<memory, sso, expect>>

Seqs == {1, 2}
tmp  == 3
Null == 0
HeapBuffers == 1 .. 4
Unallocated == << >>          \* a buffer that is allocated is <<its cells>>
Other(i) == 3 - i
Raws(n)  == [k \in 1 .. n |-> Raw]
BiggerOf(a, b)  == IF a > b THEN a ELSE b
SmallerOf(a, b) == IF a < b THEN a ELSE b

Empty == [flag |-> FALSE, inline |-> Raws(ShortCapacity), buffer |-> Null, n |-> 0]

StorageInit ==
  /\ sso \in BOOLEAN
  /\ memory = [seqs |-> [i \in 1 .. 3 |-> Empty], heap |-> [b \in HeapBuffers |-> Unallocated], misused |-> FALSE]
  /\ expect = [i \in Seqs |-> << >>]

-----------------------------------------------------------------------------
(* The storage.  m is the memory, i the object.                            *)
is_small(m, i) == sso /\ ~m.seqs[i].flag
size(m, i)     == m.seqs[i].n
data(m, i)     == IF is_small(m, i) THEN m.seqs[i].inline
                  ELSE IF m.seqs[i].buffer = Null THEN << >> ELSE m.heap[m.seqs[i].buffer][1]
capacity(m, i) == Len(data(m, i))
contents(m, i) == SubSeq(data(m, i), 1, size(m, i))

set_size(m, i, n) == [m EXCEPT !.seqs[i].n = n, !.misused = @ \/ n > capacity(m, i)]
Written(m, i, cells) ==
  IF is_small(m, i) THEN [m EXCEPT !.seqs[i].inline = cells]
  ELSE IF m.seqs[i].buffer = Null THEN m ELSE [m EXCEPT !.heap[m.seqs[i].buffer] = <<cells>>]
Misuse(m, cond) == [m EXCEPT !.misused = @ \/ (~sso /\ cond)]

(* The elements from position p on are built from xs, or destroyed, or     *)
(* moved from.                                                             *)
initialize(m, i, p, xs) ==
  LET range == p + 1 .. p + Len(xs)
      cells == data(m, i)
  IN Misuse(Written(m, i, [k \in DOMAIN cells |-> IF k \in range THEN xs[k - p] ELSE cells[k]]),
            \/ ~(range \subseteq DOMAIN cells)
            \/ \E k \in range : cells[k] # Raw \/ xs[k - p] = Raw)
destroy(m, i, from, to) ==
  LET range == from + 1 .. to
      cells == data(m, i)
  IN Misuse(Written(m, i, [k \in DOMAIN cells |-> IF k \in range THEN Raw ELSE cells[k]]),
            \E k \in range : cells[k] = Raw)
moved(m, i, from, to) ==
  LET cells == data(m, i)
  IN IF sso THEN m
     ELSE Written(m, i, [k \in DOMAIN cells |-> IF k \in from + 1 .. to THEN Moved ELSE cells[k]])

create(m, i, cap) ==
  LET b == CHOOSE b \in HeapBuffers : m.heap[b] = Unallocated /\ \A c \in 1 .. b - 1 : m.heap[c] # Unallocated
  IN [m EXCEPT !.heap[b] = <<Raws(cap)>>,
               !.seqs[i] = [Empty EXCEPT !.flag = sso, !.buffer = b]]
free_buffer(m, i) ==
  LET b == m.seqs[i].buffer
  IN IF b = Null THEN m
     ELSE Misuse([m EXCEPT !.heap[b] = Unallocated, !.seqs[i].buffer = Null],
                 \E k \in DOMAIN m.heap[b][1] : m.heap[b][1][k] # Raw)

clear(m, i) ==
  LET freed == IF is_small(m, i) THEN m ELSE free_buffer(destroy(m, i, 0, size(m, i)), i)
  IN [freed EXCEPT !.seqs[i] = Empty]

swap(m, i, j) == [m EXCEPT !.seqs[i] = m.seqs[j], !.seqs[j] = m.seqs[i]]
move_from(m, i, j) == [m EXCEPT !.seqs[i] = m.seqs[j], !.seqs[j] = Empty]

initialize_capacity(m, i, desired) ==
  IF sso /\ desired <= ShortCapacity THEN [m EXCEPT !.seqs[i].flag = FALSE]
  ELSE create(m, i, desired)

(* What chunk by chunk is relocated of the elements.                       *)
uninitialized_relocate_n(xs) ==
  LET n_chunks == (Len(xs) + ChunkSize - 1) \div ChunkSize
      chunk(c) == {c * ChunkSize + k : k \in 1 .. SmallerOf(ChunkSize, Len(xs) - c * ChunkSize)}
      those    == UNION {chunk(c) : c \in 0 .. n_chunks - 1}
  IN [k \in DOMAIN xs |-> IF k \in those THEN xs[k] ELSE Raw]

(* A larger buffer, and the elements relocated to it.                      *)
(* Fault: the old buffer is not freed.                                     *)
FreedOld_Kept(m, i) == m
FreedOld(m, i) == IF is_small(m, i) THEN m ELSE free_buffer(m, i)

ensure_capacity(m, i, desired) ==
  LET n        == size(m, i)
      old      == contents(m, i)
      released == FreedOld(destroy(m, i, 0, n), i)
      grown    == create(released, i, BiggerOf(desired, (5 * capacity(m, i)) \div 2))
  IN IF capacity(m, i) >= desired THEN m
     ELSE set_size(initialize(grown, i, 0, uninitialized_relocate_n(old)), i, n)

-----------------------------------------------------------------------------
(* The sequence's functions.  Constructors begin with an empty object.     *)
initialized(m, i, xs) ==
  set_size(initialize(initialize_capacity(m, i, Len(xs)), i, 0, xs), i, Len(xs))

copied(m, i, j) ==
  IF is_small(m, j) THEN [m EXCEPT !.seqs[i] = m.seqs[j]] ELSE initialized(m, i, contents(m, j))

emplace_back(m, i, v) ==
  set_size(initialize(ensure_capacity(m, i, size(m, i) + 1), i, size(m, i), <<v>>), i, size(m, i) + 1)

(* append_range: one by one from input iterators, at once otherwise.       *)
append_each(m, i, xs) ==
  LET upto[k \in 0 .. Len(xs)] == IF k = 0 THEN m ELSE emplace_back(upto[k - 1], i, xs[k])
  IN upto[Len(xs)]
append_range(m, i, xs) ==
  LET n == size(m, i)
  IN set_size(initialize(ensure_capacity(m, i, n + Len(xs)), i, n, xs), i, n + Len(xs))
append_n(m, i, n, v) == append_range(m, i, [k \in 1 .. n |-> v])

pop_back(m, i) == set_size(destroy(m, i, size(m, i) - 1, size(m, i)), i, size(m, i) - 1)

pop_tail(m, i, p) ==
  LET n == size(m, i)
      tail == initialized(m, tmp, SubSeq(data(m, i), p + 1, n))
  IN IF p = n THEN m ELSE set_size(destroy(moved(tail, i, p, n), i, p, n), i, p)

(* move_append, and the tail's destructor.                                 *)
move_append(m, i) ==
  clear(append_range(moved(m, tmp, 0, size(m, tmp)), i, contents(m, tmp)), tmp)

emplace(m, i, p, v) ==
  IF p = size(m, i) THEN emplace_back(m, i, v)
  ELSE move_append(emplace_back(pop_tail(ensure_capacity(m, i, size(m, i) + 1), i, p), i, v), i)
insert_n(m, i, p, n, v) ==
  move_append(append_n(pop_tail(ensure_capacity(m, i, size(m, i) + n), i, p), i, n, v), i)
insert_range(m, i, p, xs) == move_append(append_range(pop_tail(m, i, p), i, xs), i)

resize(m, i, n, v) ==
  LET current == size(m, i)
  IN IF n < current THEN set_size(destroy(m, i, n, current), i, n)
     ELSE set_size(initialize(ensure_capacity(m, i, n), i, current, [k \in 1 .. n - current |-> v]), i, n)

(* erase: q is the position of the element.                                *)
erase(m, i, q) ==
  IF q = size(m, i) - 1 THEN pop_back(m, i)
  ELSE move_append(pop_back(pop_tail(m, i, q + 1), i), i)
erase_range(m, i, q1, q2) ==
  LET popped == pop_tail(m, i, q2)
  IN move_append(resize(popped, i, size(popped, i) - (q2 - q1), 0), i)

(* operator=: a copy of j, or what is moved out of it, swapped in.         *)
assign_copy(m, i, j) == clear(swap(copied(m, tmp, j), i, tmp), tmp)
assign_moved(m, i, j) == clear(swap(move_from(m, tmp, j), i, tmp), tmp)

append_moved(m, i, j) ==
  IF size(m, i) = 0 /\ capacity(m, i) <= size(m, j) THEN assign_moved(m, i, j)
  ELSE append_range(moved(m, j, 0, size(m, j)), i, contents(m, j))

(* compare_equal: a first block, then blocks that double in length.        *)
compare_equal(a, b, granularity) ==
  LET starts[r \in 0 .. Len(a)] == IF r = 0 THEN 0 ELSE 2 * starts[r - 1] + granularity
  IN \A r \in 1 .. Len(a) : \A k \in starts[r - 1] + 1 .. starts[r] : k <= Len(a) => a[k] = b[k]
Equal(m, i, j) == size(m, i) = size(m, j) /\ compare_equal(contents(m, i), contents(m, j), 1)

-----------------------------------------------------------------------------
(* A call leaves memory m, and should leave xs in sequence i.              *)
Called(i, m, xs) == memory' = m /\ expect' = [expect EXCEPT ![i] = xs] /\ UNCHANGED sso

Ranges  == {xs \in {<<v, w>> : v, w \in Values} : xs[1] # xs[2]}
Before(i, p)    == SubSeq(expect[i], 1, p)
From(i, p)      == SubSeq(expect[i], p + 1, Len(expect[i]))
Many(n, v)      == [k \in 1 .. n |-> v]

EmplaceBack(i, v) == Called(i, emplace_back(memory, i, v), Append(expect[i], v))
PopBack(i)     == expect[i] # << >> /\ Called(i, pop_back(memory, i), Before(i, Len(expect[i]) - 1))
Insert(i, p, v) == Called(i, emplace(memory, i, p, v), Before(i, p) \o <<v>> \o From(i, p))
InsertN(i, p, n, v) == Called(i, insert_n(memory, i, p, n, v), Before(i, p) \o Many(n, v) \o From(i, p))
InsertRange(i, p, xs) == Called(i, insert_range(memory, i, p, xs), Before(i, p) \o xs \o From(i, p))
Erase(i, q)    == q < Len(expect[i]) /\ Called(i, erase(memory, i, q), Before(i, q) \o From(i, q + 1))
EraseRange(i, q1, q2) ==
  q1 <= q2 /\ Called(i, erase_range(memory, i, q1, q2), Before(i, q1) \o From(i, q2))
AppendEach(i, xs) == Called(i, append_each(memory, i, xs), expect[i] \o xs)
AppendRange(i, xs) == Called(i, append_range(memory, i, xs), expect[i] \o xs)
Resize(i, n, v) ==
  Called(i, resize(memory, i, n, v),
       IF n < Len(expect[i]) THEN Before(i, n) ELSE expect[i] \o Many(n - Len(expect[i]), v))
Reserve(i, n)  == Called(i, ensure_capacity(memory, i, n), expect[i])
Assign(i, xs)  == Called(i, initialized(clear(memory, i), i, xs), xs)
Clear(i)       == Called(i, clear(memory, i), << >>)
PopTail(i, p)  == Called(i, clear(pop_tail(memory, i, p), tmp), Before(i, p))
AssignCopy(i)  == Called(i, assign_copy(memory, i, Other(i)), expect[Other(i)])
Swap ==
  memory' = swap(memory, 1, 2) /\ expect' = [i \in Seqs |-> expect[Other(i)]] /\ UNCHANGED sso
(* What the other sequence holds when it has been moved from is not told.  *)
Taken(i, m, xs) ==
  /\ memory' = m /\ UNCHANGED sso
  /\ expect' = [k \in Seqs |-> IF k = i THEN xs ELSE contents(m, k)]
AssignMoved(i) == Taken(i, assign_moved(memory, i, Other(i)), expect[Other(i)])
AppendMoved(i) == Taken(i, append_moved(memory, i, Other(i)), expect[i] \o expect[Other(i)])

(* What is done to the first sequence is done to the second after a swap.  *)
Bounded == \A i \in Seqs : Len(expect'[i]) <= MaxStored
StorageNext ==
  /\ \/ Swap \/ PopBack(1) \/ Clear(1) \/ Reserve(1, MaxReserve)
     \/ AssignCopy(1) \/ AssignMoved(1) \/ AppendMoved(1)
     \/ \E xs \in Ranges : AppendEach(1, xs) \/ AppendRange(1, xs) \/ Assign(1, xs)
     \/ \E v \in Values : EmplaceBack(1, v) \/ \E n \in 0 .. MaxStored : Resize(1, n, v)
     \/ \E p \in 0 .. Len(expect[1]) :
          \/ Erase(1, p) \/ PopTail(1, p)
          \/ \E q \in p .. Len(expect[1]) : EraseRange(1, p, q)
          \/ \E v \in Values : Insert(1, p, v) \/ InsertN(1, p, 2, v)
          \/ \E xs \in Ranges : InsertRange(1, p, xs)
  /\ Bounded

StorageSpec == StorageInit /\ [][StorageNext]_storageVars

-----------------------------------------------------------------------------
(* After any calls of their functions the sequences hold what a vector     *)
(* would, in the object or in a buffer, comparisons tell whether they are  *)
(* equal, and the storage is sound: every buffer belongs to one sequence,  *)
(* and no element was lost, built twice or destroyed twice (sequence.h,    *)
(* sequence_base.h).                                                       *)
SequencesExact ==
  /\ \A i \in Seqs : contents(memory, i) = expect[i]
  /\ Equal(memory, 1, 2) <=> expect[1] = expect[2]
  /\ ~memory.misused
  /\ \A b \in HeapBuffers : memory.heap[b] # Unallocated =>
       \E i \in Seqs : memory.seqs[i].buffer = b /\ memory.seqs[Other(i)].buffer # b
  /\ memory.seqs[tmp] = Empty
=============================================================================
