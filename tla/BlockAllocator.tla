----------------------------- MODULE BlockAllocator -----------------------------
(***************************************************************************)
(* parlay/internal/block_allocator.h: blocks of one size, kept in a list   *)
(* per worker that spills half of itself to a shared stack of lists, and   *)
(* refills from there or from new memory. A task may be moved to another   *)
(* worker while it fetches a list (the comment in alloc). The stack is     *)
(* linearizable (HazptrStack), so each call of it is one step.             *)
(***************************************************************************)
EXTENDS Integers, Sequences, FiniteSets, SequencesExt, Functions

CONSTANTS
  Workers,
  ListLength, \* list_length
  MaxLists    \* bound: buffers of ListLength blocks obtained from the system

VARIABLES
  local,     \* my_local_list of each worker: sz, the blocks from head, mid
  global,    \* global_stack
  fetching,  \* the lists tasks have got in alloc and not yet placed
  used,      \* blocks handed out
  buffers    \* allocated_buffers, as their number; blocks_allocated is a multiple

vars == <<local, global, fetching, used, buffers>>

None == 0
Init ==
  /\ local = [w \in Workers |-> [sz |-> 0, list |-> <<>>, mid |-> None]]
  /\ global = <<>>
  /\ fetching = {}
  /\ used = {}
  /\ buffers = 0

initialize_list(n) == [i \in 1 .. ListLength |-> n * ListLength + i]

(* alloc: the first block of the worker's list. *)
Take(w, mine) ==
  /\ local' = [local EXCEPT ![w] = [mine EXCEPT !.sz = @ - 1, !.list = Tail(@)]]
  /\ used' = used \cup {Head(mine.list)}

AllocLocal(w) ==
  /\ local[w].sz # 0
  /\ Take(w, local[w])
  /\ UNCHANGED <<global, fetching, buffers>>

(* alloc with an empty list: get_list, a shared list or a new one, ...     *)
GetList(w) ==
  /\ local[w].sz = 0
  /\ \/ /\ global # <<>>
        /\ fetching' = fetching \cup {Head(global)}
        /\ global' = Tail(global)
        /\ UNCHANGED buffers
     \/ /\ global = <<>>
        /\ buffers < MaxLists
        /\ buffers' = buffers + 1
        /\ fetching' = fetching \cup {initialize_list(buffers)}
        /\ UNCHANGED global
  /\ UNCHANGED <<local, used>>

(* ... which becomes the list of the worker the task is now on, unless     *)
(* that has one by now.                                                    *)
AllocFetched(w) ==
  \E new_list \in fetching :
     /\ fetching' = fetching \ {new_list}
     /\ IF local[w].sz = 0
        THEN /\ Take(w, [local[w] EXCEPT !.list = new_list, !.sz = ListLength])
             /\ UNCHANGED global
        ELSE /\ Take(w, local[w])
             /\ global' = <<new_list>> \o global
     /\ UNCHANGED buffers

(* free: a list of twice the length first gives up what follows mid, the   *)
(* block that was its head one block past the length.                      *)
Mark_Early(l) == l.sz = ListLength  \* fault: one block early

Mark(l) == l.sz = ListLength + 1
Spill(l) == ~Mark(l) /\ l.sz = 2 * ListLength

AfterMid(l)  == SelectInSeq(l.list, LAMBDA b : b = l.mid) + 1
Spilled(l)   == SubSeq(l.list, AfterMid(l), Len(l.list))
UpToMid(l)   == SubSeq(l.list, 1, AfterMid(l) - 1)
Put(l, blk)  == [l EXCEPT !.sz = @ + 1, !.list = <<blk>> \o @]

FreeBlock(w, blk) ==
  LET l == local[w]
  IN  /\ blk \in used
      /\ used' = used \ {blk}
      /\ \/ /\ Mark(l)
            /\ local' = [local EXCEPT ![w] = Put([l EXCEPT !.mid = Head(l.list)], blk)]
            /\ UNCHANGED global
         \/ /\ Spill(l)
            /\ global' = <<Spilled(l)>> \o global
            /\ local' = [local EXCEPT ![w] =
                           Put([l EXCEPT !.sz = ListLength, !.list = UpToMid(l)], blk)]
         \/ /\ ~Mark(l) /\ ~Spill(l)
            /\ local' = [local EXCEPT ![w] = Put(l, blk)]
            /\ UNCHANGED global
      /\ UNCHANGED <<fetching, buffers>>

num_used_blocks ==
  buffers * ListLength - Len(global) * ListLength
    - SumFunction([w \in Workers |-> local[w].sz])

(* clear: only when every block is back; the lists keep their pointers.    *)
Clear ==
  /\ buffers > 0
  /\ num_used_blocks = 0
  /\ local' = [w \in Workers |-> [local[w] EXCEPT !.sz = 0, !.list = <<>>]]
  /\ global' = <<>>
  /\ buffers' = 0
  /\ UNCHANGED <<fetching, used>>

Next ==
  \/ \E w \in Workers :
       \/ AllocLocal(w) \/ GetList(w) \/ AllocFetched(w)
       \/ \E blk \in used : FreeBlock(w, blk)
  \/ Clear

Spec == Init /\ [][Next]_vars

-------------------------------------------------------------------------------
(* Every block obtained from the system is in one place: handed out once,  *)
(* or once on one list. The counts of the lists are right and the shared   *)
(* lists have the length a worker that takes one will assume, so the used  *)
(* blocks are those counted, save the lists being fetched.                 *)
Lists == [w \in Workers |-> local[w].list]
Held  == (UNION {ToSet(q) : q \in ToSet(global) \cup fetching})
           \cup (UNION {ToSet(Lists[w]) : w \in Workers})

BlocksAreKept ==
  /\ \A w \in Workers : local[w].sz = Len(Lists[w])
  /\ \A q \in ToSet(global) \cup fetching : Len(q) = ListLength
  /\ used \cap Held = {}
  /\ Cardinality(Held) = ListLength * (Len(global) + Cardinality(fetching))
                           + SumFunction([w \in Workers |-> local[w].sz])
  /\ used \cup Held = 1 .. buffers * ListLength
  /\ num_used_blocks = Cardinality(used) + ListLength * Cardinality(fetching)
=============================================================================
