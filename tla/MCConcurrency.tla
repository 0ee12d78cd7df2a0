------------------------------ MODULE MCConcurrency ------------------------------
(***************************************************************************)
(* The concurrent structures below the stream processor for TLC, side by   *)
(* side: the jobs and the deques of work stealing, thread ids, epochs,     *)
(* hash tables, atomics and allocators.  They share no state, so a         *)
(* behaviour is one of a single structure, in which the variables of the   *)
(* others are Absent.  Structures may have variables of one name.          *)
(***************************************************************************)
EXTENDS Integers, Sequences, FiniteSets, TLC

CONSTANTS
  Pair, Trio,  \* threads
  P, Sizes, Grains, QSize,                       \* WorkStealing
  Addresses,   \* of objects and nodes
  ChunkSize, Chunks,                             \* ThreadIds
  EpochWorkers, Writers, Steps, Reserve, MaxEpoch, \* Epoch
  Words, MaxWrites,                              \* BigAtomic
  CellKeys, CellValues, CellCount, CellHash, CellCalls,  \* HashTable
  Threshold, MaxPushes,                          \* HazptrStack
  ListLength, MaxLists,                          \* BlockAllocator
  PoolSizes, SmallPools, Alignment, Padding, Requests, MaxBlocks,  \* PoolAllocator
  Nobody, Null, Absent

(* What the structures ask of their parameters: an atomic of at least one  *)
(* word, chunks that hold the ids of all threads (thread_specific.h), and  *)
(* pools of growing sizes that are powers of two (alloc.h).                *)
ASSUME WordsOK   == Words # {}
ASSUME WorkersOK == EpochWorkers \in Nat \ {0}
ASSUME ReserveOK == Reserve \in Nat
ASSUME IdsOK     == /\ ChunkSize \in Nat \ {0} /\ Chunks \in Nat \ {0}
                    /\ Nobody \notin Nat \cup Trio /\ IsFiniteSet(Trio)
                    /\ Cardinality(Trio) <= ChunkSize * 2 ^ (Chunks - 1)
ASSUME BlocksOK  == ListLength \in Nat \ {0} /\ IsFiniteSet(Pair)
ASSUME PoolsOK   == /\ PoolSizes \in Seq(Nat) /\ SmallPools \in 0 .. Len(PoolSizes)
                    /\ PoolSizes # << >> /\ Alignment \in Nat \ {0}
                    /\ Padding \in Nat /\ Requests \subseteq Nat
                    /\ \A b \in DOMAIN PoolSizes : \E k \in 0 .. PoolSizes[b] : PoolSizes[b] = 2 ^ k
                    /\ \A a, b \in DOMAIN PoolSizes : a < b => PoolSizes[a] < PoolSizes[b]
ASSUME NodesOK   == Addresses # {} /\ Null \notin Addresses /\ IsFiniteSet(Addresses)

VARIABLES
  running,     \* the structure
  pc, me, made, calls, current, content, finished,
  bot, age, deq, frames, reg, n, granularity, conservative, done, num_awake, num_finished, changed,
  ran, ok,
  num_thread_ids, available_ids, next, pool_mutex, id, nxt, built, published,
  growing_mutex, element, walk,
  current_epoch, epoch_state, announcements, link, freed, pools, e, j, state, held, victim,
  buckets, status, spoilt,
  version, val, lock, tag, copy, todo, value, wrote,
  TA, phase,
  head, node, announcement, retired, work, pushes,
  local, global, fetching, used, buffers,
  large_buckets, inUse

Jobs      == INSTANCE WorkStealing
ThreadIds == INSTANCE ThreadIds WITH Threads <- Trio, None <- Nobody
Epoch     == INSTANCE Epoch WITH Workers <- EpochWorkers, Objects <- Addresses
Table     == INSTANCE ParlayHash WITH
               Procs <- Pair, Keys <- {"k1", "k2", "k3"}, HashBits <- 2,
               Hash <- ("k1" :> 2 @@ "k2" :> 2 @@ "k3" :> 3),
               Ops <- {"find", "insert", "upsert", "remove"},
               Prefilled <- <<"k1", "k2">>, BufferSize <- 1, GrowBits <- 1, FirstBits <- 1,
               BlockSize <- <<1, 2>>, OverflowSize <- 1, MaxVersions <- 2, MaxOps <- 2
Atomic    == INSTANCE BigAtomic WITH Threads <- Trio
Cells     == INSTANCE HashTable WITH Procs <- Trio, Keys <- CellKeys, Values <- CellValues,
                                     M <- CellCount, Hash <- CellHash, MaxCalls <- CellCalls
Stack     == INSTANCE HazptrStack WITH Threads <- Pair, Nodes <- Addresses
Blocks    == INSTANCE BlockAllocator WITH Workers <- Pair
Pools     == INSTANCE PoolAllocator WITH sizes <- PoolSizes, num_small <- SmallPools

(* The variables that one structure alone has.                             *)
ofJobs   == <<bot, age, deq, frames, reg, n, granularity, conservative, done, num_awake,
              num_finished, changed, ran, ok>>
ofIds    == <<num_thread_ids, available_ids, next, pool_mutex, id, nxt, built, published,
              growing_mutex, element, walk>>
ofEpoch  == <<current_epoch, epoch_state, announcements, link, freed, pools, e, j, state, held, victim>>
ofTable  == <<buckets, status, spoilt>>
ofAtomic == <<version, val, lock, tag, copy, todo, value, wrote>>
ofCells  == <<TA, phase>>
ofStack  == <<head, node, announcement, retired, work, pushes>>
ofBlocks == <<local, global, fetching, used, buffers>>
ofPools  == <<large_buckets, inUse>>
shared   == <<pc, me, made, calls, current, content, finished>>
vars     == <<running, shared, ofJobs, ofIds, ofEpoch, ofTable, ofAtomic, ofCells, ofStack, ofBlocks, ofPools>>

NoJobs   == bot = Absent /\ age = Absent /\ deq = Absent /\ frames = Absent /\ reg = Absent
            /\ n = Absent /\ granularity = Absent /\ conservative = Absent /\ done = Absent
            /\ num_awake = Absent /\ num_finished = Absent /\ changed = Absent /\ ran = Absent
            /\ ok = Absent
NoIds    == num_thread_ids = Absent /\ available_ids = Absent /\ next = Absent /\ pool_mutex = Absent
            /\ id = Absent /\ nxt = Absent /\ built = Absent /\ published = Absent
            /\ growing_mutex = Absent /\ element = Absent /\ walk = Absent
NoEpoch  == current_epoch = Absent /\ epoch_state = Absent /\ announcements = Absent /\ link = Absent
            /\ freed = Absent /\ pools = Absent /\ e = Absent /\ j = Absent /\ state = Absent
            /\ held = Absent /\ victim = Absent
NoTable  == buckets = Absent /\ status = Absent /\ spoilt = Absent
NoAtomic == version = Absent /\ val = Absent /\ lock = Absent /\ tag = Absent /\ copy = Absent
            /\ todo = Absent /\ value = Absent /\ wrote = Absent
NoCells  == TA = Absent /\ phase = Absent
NoStack  == head = Absent /\ node = Absent /\ announcement = Absent /\ retired = Absent
            /\ work = Absent /\ pushes = Absent
NoBlocks == local = Absent /\ global = Absent /\ fetching = Absent /\ used = Absent /\ buffers = Absent
NoPools  == large_buckets = Absent /\ inUse = Absent

Init ==
  \/ /\ running = "jobs" /\ Jobs!Init
     /\ NoIds /\ NoEpoch /\ NoTable /\ NoAtomic /\ NoCells /\ NoStack /\ NoBlocks /\ NoPools
     /\ me = Absent /\ made = Absent /\ calls = Absent /\ current = Absent /\ content = Absent
  \/ /\ running = "ids" /\ ThreadIds!Init
     /\ NoJobs /\ NoEpoch /\ NoTable /\ NoAtomic /\ NoCells /\ NoStack /\ NoBlocks /\ NoPools
     /\ me = Absent /\ made = Absent /\ calls = Absent /\ content = Absent
     /\ finished = Absent
  \/ /\ running = "epoch" /\ Epoch!Init
     /\ NoJobs /\ NoIds /\ NoTable /\ NoAtomic /\ NoCells /\ NoStack /\ NoBlocks /\ NoPools
     /\ me = Absent /\ made = Absent /\ calls = Absent /\ current = Absent /\ content = Absent
     /\ finished = Absent
  \/ /\ running = "table" /\ Table!Init
     /\ NoJobs /\ NoIds /\ NoEpoch /\ NoAtomic /\ NoCells /\ NoStack /\ NoBlocks /\ NoPools
     /\ pc = Absent
  \/ /\ running = "atomic" /\ Atomic!Init
     /\ NoJobs /\ NoIds /\ NoEpoch /\ NoTable /\ NoCells /\ NoStack /\ NoBlocks /\ NoPools
     /\ me = Absent /\ made = Absent /\ calls = Absent /\ current = Absent /\ content = Absent
     /\ finished = Absent
  \/ /\ running = "cells" /\ Cells!Init
     /\ NoJobs /\ NoIds /\ NoEpoch /\ NoTable /\ NoAtomic /\ NoStack /\ NoBlocks /\ NoPools
     /\ pc = Absent /\ made = Absent /\ current = Absent
     /\ finished = Absent
  \/ /\ running = "stack" /\ Stack!Init
     /\ NoJobs /\ NoIds /\ NoEpoch /\ NoTable /\ NoAtomic /\ NoCells /\ NoBlocks /\ NoPools
     /\ pc = Absent /\ made = Absent /\ calls = Absent /\ current = Absent
     /\ finished = Absent
  \/ /\ running = "blocks" /\ Blocks!Init
     /\ NoJobs /\ NoIds /\ NoEpoch /\ NoTable /\ NoAtomic /\ NoCells /\ NoStack /\ NoPools
     /\ pc = Absent /\ me = Absent /\ made = Absent /\ calls = Absent /\ current = Absent
     /\ content = Absent
     /\ finished = Absent
  \/ /\ running = "pools" /\ Pools!Init
     /\ NoJobs /\ NoIds /\ NoEpoch /\ NoTable /\ NoAtomic /\ NoCells /\ NoStack /\ NoBlocks
     /\ pc = Absent /\ me = Absent /\ calls = Absent /\ current = Absent /\ content = Absent
     /\ finished = Absent

Next ==
  /\ UNCHANGED running
  /\ \/ /\ running = "jobs" /\ Jobs!Next
        /\ UNCHANGED <<ofIds, ofEpoch, ofTable, ofAtomic, ofCells, ofStack, ofBlocks, ofPools>>
        /\ UNCHANGED <<me, made, calls, current, content>>
     \/ /\ running = "ids" /\ ThreadIds!Next
        /\ UNCHANGED <<ofJobs, ofEpoch, ofTable, ofAtomic, ofCells, ofStack, ofBlocks, ofPools>>
        /\ UNCHANGED <<me, made, calls, content, finished>>
     \/ /\ running = "epoch" /\ Epoch!Next
        /\ UNCHANGED <<ofJobs, ofIds, ofTable, ofAtomic, ofCells, ofStack, ofBlocks, ofPools>>
        /\ UNCHANGED <<me, made, calls, current, content, finished>>
     \/ /\ running = "table" /\ Table!Next
        /\ UNCHANGED <<ofJobs, ofIds, ofEpoch, ofAtomic, ofCells, ofStack, ofBlocks, ofPools, pc>>
     \/ /\ running = "atomic" /\ Atomic!Next
        /\ UNCHANGED <<ofJobs, ofIds, ofEpoch, ofTable, ofCells, ofStack, ofBlocks, ofPools>>
        /\ UNCHANGED <<me, made, calls, current, content, finished>>
     \/ /\ running = "cells" /\ Cells!Next
        /\ UNCHANGED <<ofJobs, ofIds, ofEpoch, ofTable, ofAtomic, ofStack, ofBlocks, ofPools>>
        /\ UNCHANGED <<pc, made, current, finished>>
     \/ /\ running = "stack" /\ Stack!Next
        /\ UNCHANGED <<ofJobs, ofIds, ofEpoch, ofTable, ofAtomic, ofCells, ofBlocks, ofPools>>
        /\ UNCHANGED <<pc, made, calls, current, finished>>
     \/ /\ running = "blocks" /\ Blocks!Next
        /\ UNCHANGED <<ofJobs, ofIds, ofEpoch, ofTable, ofAtomic, ofCells, ofStack, ofPools, shared>>
     \/ /\ running = "pools" /\ Pools!Next
        /\ UNCHANGED <<ofJobs, ofIds, ofEpoch, ofTable, ofAtomic, ofCells, ofStack, ofBlocks>>
        /\ UNCHANGED <<pc, me, calls, current, content, finished>>

Spec == Init /\ [][Next]_vars

MCSizes == <<2, 4, 8>>
MCHash  == <<6, 6, 0>>

(* And of work stealing, a worker and a slot; of the fixed hash table,     *)
(* clusters that stay shorter than half of it.                             *)
ASSUME JobsOK  == Jobs!Params
ASSUME CellsOK == Cells!Params

Sym == Permutations(Pair) \cup Permutations(Trio)

-----------------------------------------------------------------------------
(* Work stealing: every iteration of a loop runs exactly once before it    *)
(* returns; no job is run by two workers, or after its pardo has returned  *)
(* (scheduler.h, work_stealing_deque.h).                                   *)
IterationsOnce == running = "jobs" => Jobs!IterationsOnce
JobsRunOnce    == running = "jobs" => Jobs!AssertionsHold /\ Jobs!JobsOutlived

(* Thread ids: no two live threads have one id, and the element a thread   *)
(* finds under its id is constructed (thread_id_pool.h, thread_specific.h).*)
ElementsOwned == running = "ids" => ThreadIds!IdsUnique /\ ThreadIds!ElementsReady

(* Epochs: what an operation has read is not destructed (epoch.h).         *)
HeldNotDestructed == running = "epoch" => Epoch!HeldNotDestructed

(* Hash tables: calls of the growing table answer as if they had been      *)
(* atomic (parlay_hash.h); cells of the fixed one depend on its elements   *)
(* only, not on the order of the calls (hash_table.h).                     *)
Linearizable       == running = "table" => Table!Linearizable
HistoryIndependent == running = "cells" => Cells!HistoryIndependent

(* Atomics and the stack: a load returns what one store wrote              *)
(* (bigatomic.h); every pop returns the top (hazptr_stack.h).              *)
LoadsAreWhole == running = "atomic" => Atomic!LoadsAreWhole
StackIsWhole  == running = "stack" => Stack!StackIsWhole

(* Allocators: no block is lost or handed out twice (block_allocator.h);   *)
(* a buffer is as large as the request, and goes back to the pool it came  *)
(* from (pool_allocator.h, alloc.h).                                       *)
MemorySound ==
  /\ running = "blocks" => Blocks!BlocksAreKept
  /\ running = "pools" => Pools!BuffersFit
=============================================================================
