----------------------------- MODULE PoolAllocator -----------------------------
(***************************************************************************)
(* parlay/internal/pool_allocator.h under p_malloc and p_free of alloc.h:  *)
(* pools of blocks of growing sizes, the small ones block_allocators       *)
(* (BlockAllocator: always a block here), the large ones shared stacks     *)
(* whose blocks never go back to the system but by clear, and plain        *)
(* operator new beyond the largest. A header keeps the logarithm of the    *)
(* size, from which p_free finds the pool again.                           *)
(***************************************************************************)
EXTENDS Integers, Sequences, FiniteSets, SequencesExt, FiniteSetsExt

CONSTANTS
  sizes,     \* sizes of the pools, growing powers of two (alloc.h)
  num_small, \* the first pools are small
  Alignment, \* max_alignment
  Padding,   \* alloc_padding_size and header of a request
  Requests,  \* sizes asked of p_malloc
  MaxBlocks  \* bound: blocks in use or pooled

VARIABLES
  large_buckets, \* the stack of free blocks, as sizes, of each large pool
  inUse,         \* blocks handed out: capacity, requested size, header, source
  made           \* blocks obtained so far, to tell them apart

vars == <<large_buckets, inUse, made>>

Large     == num_small + 1 .. Len(sizes)
max_small == IF num_small = 0 THEN 0 ELSE sizes[num_small]
max_size  == Last(sizes)

log2_up(n) == Min({k \in 0 .. n : 2 ^ k >= n})
Bucket(n)  == Min({b \in DOMAIN sizes : n <= sizes[b]})
RoundUp(n) == IF n % Alignment = 0 THEN n ELSE n + Alignment - (n % Alignment)

Init ==
  /\ large_buckets = [b \in Large |-> <<>>]
  /\ inUse = {}
  /\ made = 0

(* p_malloc of n bytes gets the block a of the pool `from`. *)
HandOut(n, from, id, capacity) ==
  inUse' = inUse \cup {[id |-> id, capacity |-> capacity, n |-> n, from |-> from,
                        log_size |-> log2_up(n + Padding)]}

p_malloc(n) ==
  LET size == n + Padding
  IN  \/ /\ size <= max_small
         /\ made < MaxBlocks
         /\ made' = made + 1
         /\ HandOut(n, Bucket(size), made', sizes[Bucket(size)])
         /\ UNCHANGED large_buckets
      \/ /\ size > max_small /\ size <= max_size
         /\ large_buckets[Bucket(size)] # <<>>
         /\ LET block == Head(large_buckets[Bucket(size)])
            IN  HandOut(n, Bucket(size), block.id, block.capacity)
         /\ large_buckets' = [large_buckets EXCEPT ![Bucket(size)] = Tail(@)]
         /\ UNCHANGED made
      \/ /\ size > max_small
         /\ size <= max_size => large_buckets[Bucket(size)] = <<>>
         /\ made < MaxBlocks
         /\ made' = made + 1
         /\ LET bucket == IF size <= max_size THEN Bucket(size) ELSE 0
            IN  HandOut(n, bucket, made',
                        RoundUp(IF bucket = 0 THEN size ELSE sizes[bucket]))
         /\ UNCHANGED large_buckets

(* The size p_free takes a block to have had. *)
Freed(block) == 2 ^ block.log_size

Source(size) == IF size <= max_size THEN Bucket(size) ELSE 0

p_free(block) ==
  LET to == Source(Freed(block))
  IN  /\ inUse' = inUse \ {block}
      /\ IF to \in Large
         THEN large_buckets' = [large_buckets EXCEPT ![to] =
                 <<[id |-> block.id, capacity |-> block.capacity]>> \o @]
         ELSE UNCHANGED large_buckets
      /\ UNCHANGED made

memory_clear ==
  /\ \E b \in Large : large_buckets[b] # <<>>
  /\ large_buckets' = [b \in Large |-> <<>>]
  /\ UNCHANGED <<inUse, made>>

Next ==
  \/ \E n \in Requests : p_malloc(n)
  \/ \E block \in inUse : p_free(block)
  \/ memory_clear

Spec == Init /\ [][Next]_vars

-------------------------------------------------------------------------------
(* A block is never smaller than what was asked and the header need, is    *)
(* not handed out twice or while it is free, and goes back to the pool it  *)
(* came from, whatever size its header tells.                              *)
BuffersFit ==
  /\ \A block \in inUse : /\ block.capacity >= block.n + Padding
                          /\ Source(Freed(block)) = block.from
  /\ \A a, b \in inUse : a.id = b.id => a = b
  /\ \A b \in Large : \A i \in DOMAIN large_buckets[b] :
       /\ large_buckets[b][i].capacity >= sizes[b]
       /\ \A block \in inUse : block.id # large_buckets[b][i].id
=============================================================================
