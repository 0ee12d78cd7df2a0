------------------------------- MODULE ThreadIds -------------------------------
(***************************************************************************)
(* Parlay's thread ids (internal/thread_id_pool.h, and its copy in         *)
(* utils/threads): a lock-free list of the ids that dead threads left, of  *)
(* which only one thread at a time takes, and ThreadSpecific, the chunked  *)
(* list with one element for each id (thread_specific.h).                  *)
(*                                                                         *)
(* Nodes of the list are named by their ids.  A thread that dies is born   *)
(* again as a new one.                                                     *)
(***************************************************************************)
EXTENDS Integers, FiniteSets

CONSTANTS
  Threads,
  None,       \* no id, no holder
  ChunkSize,  \* thread_list_chunk_size: 4 or more in the code
  Chunks      \* n_chunks

(* P, P, 2P, 4P, ... elements.                                             *)
ChunkIds          == 0 .. Chunks - 1
ChunkLength(c)    == IF c = 0 THEN ChunkSize ELSE ChunkSize * 2 ^ (c - 1)
ChunkOf(id)       == CHOOSE c \in ChunkIds :
                       id < ChunkSize * 2 ^ c /\ \A b \in ChunkIds : id < ChunkSize * 2 ^ b => c <= b
PositionIn(id, c) == IF c = 0 THEN id ELSE id - ChunkSize * 2 ^ (c - 1)
Ids               == 0 .. ChunkSize * 2 ^ (Chunks - 1) - 1

VARIABLES
  num_thread_ids, available_ids, next, pool_mutex,  \* the pool
  pc, id, current, nxt,   \* threads: where, the id, and acquire's locals
  built, published, growing_mutex,  \* chunks: elements constructed, pointers stored
  element,                \* what an element was constructed for
  walk                    \* for_each's locals, and what it has visited

pool  == <<num_thread_ids, available_ids, next, pool_mutex>>
local == <<id, current, nxt>>
list  == <<built, published, growing_mutex, element>>
vars  == <<pool, pc, local, list, walk>>

NoWalk == [num |-> 0, chunk |-> 0, seen |-> {}]

Init ==
  /\ num_thread_ids = 0 /\ available_ids = None /\ pool_mutex = None
  /\ next = [i \in Ids |-> None]
  /\ pc = [t \in Threads |-> "unborn"] /\ id = [t \in Threads |-> None]
  /\ current = [t \in Threads |-> None] /\ nxt = [t \in Threads |-> None]
  /\ built = [c \in ChunkIds |-> IF c = 0 THEN ChunkSize ELSE 0]
  /\ published = {0} /\ growing_mutex = None
  /\ element = [i \in Ids |-> IF i < ChunkSize THEN i ELSE None]
  /\ walk = [t \in Threads |-> NoWalk]

At(t, l)   == pc[t] = l
Goto(t, l) == pc' = [pc EXCEPT ![t] = l]

(* acquire: the list looks empty or not.                                   *)
Acquire(t) ==
  /\ At(t, "unborn") /\ Goto(t, IF available_ids = None THEN "fresh" ELSE "lock")
  /\ UNCHANGED <<pool, local, list, walk>>

(* Fault: no lock.                                                         *)
LockPool_Not(t) ==
  /\ At(t, "lock") /\ current' = [current EXCEPT ![t] = available_ids] /\ Goto(t, "next")
  /\ UNCHANGED <<pool, id, nxt, list, walk>>
LockPool(t) ==
  /\ At(t, "lock") /\ pool_mutex = None /\ pool_mutex' = t
  /\ current' = [current EXCEPT ![t] = available_ids] /\ Goto(t, "next")
  /\ UNCHANGED <<num_thread_ids, available_ids, next, id, nxt, list, walk>>

Unlock(t) == pool_mutex' = IF pool_mutex = t THEN None ELSE pool_mutex

(* The loop: current->next, then the compare-exchange.                     *)
LoadNext(t) ==
  /\ At(t, "next")
  /\ \/ /\ current[t] = None /\ Unlock(t) /\ Goto(t, "fresh") /\ UNCHANGED nxt
     \/ /\ current[t] # None /\ nxt' = [nxt EXCEPT ![t] = next[current[t]]] /\ Goto(t, "pop")
        /\ UNCHANGED pool_mutex
  /\ UNCHANGED <<num_thread_ids, available_ids, next, id, current, list, walk>>

Pop(t) ==
  /\ At(t, "pop")
  /\ \/ /\ available_ids = current[t]
        /\ available_ids' = nxt[t] /\ id' = [id EXCEPT ![t] = current[t]]
        /\ current' = [current EXCEPT ![t] = None]
        /\ Unlock(t) /\ Goto(t, "live")
     \/ /\ available_ids # current[t]
        /\ current' = [current EXCEPT ![t] = available_ids] /\ Goto(t, "next")
        /\ UNCHANGED <<available_ids, id, pool_mutex>>
  /\ nxt' = [nxt EXCEPT ![t] = None]
  /\ UNCHANGED <<num_thread_ids, next, list, walk>>

Fresh(t) ==
  /\ At(t, "fresh") /\ Goto(t, "live")
  /\ id' = [id EXCEPT ![t] = num_thread_ids] /\ num_thread_ids' = num_thread_ids + 1
  /\ UNCHANGED <<available_ids, next, pool_mutex, current, nxt, list, walk>>

(* The thread ends: relinquish.                                            *)
Relinquish(t) ==
  /\ At(t, "live") /\ Goto(t, "push")
  /\ next' = [next EXCEPT ![id[t]] = available_ids]
  /\ UNCHANGED <<num_thread_ids, available_ids, pool_mutex, local, list, walk>>

Push(t) ==
  /\ At(t, "push")
  /\ \/ /\ available_ids = next[id[t]]
        /\ available_ids' = id[t] /\ id' = [id EXCEPT ![t] = None] /\ Goto(t, "unborn")
        /\ UNCHANGED next
     \/ /\ available_ids # next[id[t]]
        /\ next' = [next EXCEPT ![id[t]] = available_ids]
        /\ UNCHANGED <<available_ids, id, pc>>
  /\ UNCHANGED <<num_thread_ids, pool_mutex, current, nxt, list, walk>>

-----------------------------------------------------------------------------
(* get: the own element, in a chunk that may not be there yet.             *)
Get(t) ==
  LET c == ChunkOf(id[t]) IN
  /\ At(t, "live") /\ Goto(t, IF c \in published THEN "use" ELSE "grow")
  /\ UNCHANGED <<pool, local, list, walk>>

Used(t) ==
  /\ At(t, "use") /\ Goto(t, "live")
  /\ UNCHANGED <<pool, local, list, walk>>

(* for_each, chunk by chunk, over the ids there are when it begins.        *)
ForEach(t) ==
  /\ At(t, "live") /\ Goto(t, "each")
  /\ walk' = [walk EXCEPT ![t] = [NoWalk EXCEPT !.num = num_thread_ids]]
  /\ UNCHANGED <<pool, local, list>>

First(c) == IF c = 0 THEN 0 ELSE ChunkSize * 2 ^ (c - 1)
Visit(t) ==
  LET v == walk[t]
      c == v.chunk
  IN
  /\ At(t, "each")
  /\ \/ First(c) >= v.num /\ Goto(t, "walked") /\ UNCHANGED walk
     \/ First(c) < v.num /\ c \notin published /\ Goto(t, "grow") /\ UNCHANGED walk
     \/ /\ First(c) < v.num /\ c \in published
        /\ walk' = [walk EXCEPT ![t] =
             [v EXCEPT !.chunk = c + 1,
                       !.seen = @ \cup {i \in 0 .. v.num - 1 : First(c) <= i /\ i < First(c) + ChunkLength(c)}]]
        /\ UNCHANGED pc
  /\ UNCHANGED <<pool, local, list>>

Walked(t) ==
  /\ At(t, "walked") /\ Goto(t, "live") /\ walk' = [walk EXCEPT ![t] = NoWalk]
  /\ UNCHANGED <<pool, local, list>>

(* ensure_chunk_exists, of the own chunk or of the one for_each is at.     *)
Walking(t) == walk[t] # NoWalk
Wanted(t)  == IF Walking(t) THEN walk[t].chunk ELSE ChunkOf(id[t])

LockGrowing(t) ==
  /\ At(t, "grow") /\ growing_mutex = None /\ growing_mutex' = t
  /\ Goto(t, IF Wanted(t) \in published THEN "store" ELSE "build")
  /\ UNCHANGED <<pool, local, built, published, element, walk>>

Build(t) ==
  LET c == Wanted(t) IN
  /\ At(t, "build")
  /\ built' = [built EXCEPT ![c] = @ + 1]
  /\ element' = [element EXCEPT ![First(c) + built[c]] = ChunkLength(c) + built[c]]
  /\ Goto(t, IF built[c] + 1 = ChunkLength(c) THEN "store" ELSE "build")
  /\ UNCHANGED <<pool, local, published, growing_mutex, walk>>

Store(t) ==
  /\ At(t, "store") /\ published' = published \cup {Wanted(t)} /\ growing_mutex' = None
  /\ Goto(t, IF Walking(t) THEN "each" ELSE "use")
  /\ UNCHANGED <<pool, local, built, element, walk>>

Step(t) ==
  \/ Acquire(t) \/ LockPool(t) \/ LoadNext(t) \/ Pop(t) \/ Fresh(t) \/ Relinquish(t) \/ Push(t)
  \/ Get(t) \/ Used(t) \/ ForEach(t) \/ Visit(t) \/ Walked(t)
  \/ LockGrowing(t) \/ Build(t) \/ Store(t)

Next == \E t \in Threads : Step(t)

Spec == Init /\ [][Next]_vars

-----------------------------------------------------------------------------
Holders == {t \in Threads : id[t] # None}

(* "unique for all live threads" (thread_specific.h:33), and no more ids   *)
(* are ever made than threads live at the same time: what is freed is used *)
(* again before.                                                           *)
IdsUnique ==
  /\ \A t, u \in Holders : id[t] = id[u] => t = u
  /\ num_thread_ids <= Cardinality(Threads)

(* The element a thread uses is constructed, for its id; for_each has      *)
(* found every element constructed, and visits those of all ids there are. *)
ElementsReady ==
  \A t \in Threads :
    /\ At(t, "use") => element[id[t]] = id[t] /\ ChunkOf(id[t]) \in published
    /\ \A i \in walk[t].seen : element[i] = i
    /\ At(t, "walked") => walk[t].seen = 0 .. walk[t].num - 1
=============================================================================
