--------------------------- MODULE StreamProcessor ---------------------------
(***************************************************************************)
(* The run-time core: the trade queue, the processor thread that moves     *)
(* trades into the window of their symbol (StreamProcessor::process), the  *)
(* scheduler thread that recomputes the features (computeFeatures and the  *)
(* loops of Calc.hpp) and the logger thread of main that copies them.  All *)
(* three use symbolStateMap; the processor takes no SymbolState::m.        *)
(*                                                                         *)
(* A deque is all trades ever pushed on it and the number erased from its  *)
(* front: an iterator is an absolute position, which keeps a meaning when  *)
(* the deque changes under it.  A feature is the interval of positions its *)
(* calculator has folded over (module Calc has the arithmetic).            *)
(***************************************************************************)
EXTENDS Integers, Sequences, FiniteSets

CONSTANTS
  Symbols,    \* the symbols trades can be about
  CalcTypes,  \* the calculators of the tuple, in tuple order
  Window,     \* windowSize, in clock units
  Reserved,   \* symbolStateMap.reserve(Reserved)
  MaxTrades,  \* bound: trades the connection delivers
  MaxClock,   \* bound: last value of the system clock
  MayStop,    \* bound: whether a stop is ever requested
  Null        \* a null Json::Value, no current symbol, no lock owner

Calculators == {"MaxTimeGapCalc", "VolumeCalc", "WeightedAvgPriceCalc",
                "MaxPriceCalc", "TradespersecCalc", "TickImbalanceCalc"}
Walkers == {"scheduler", "logger"}  \* the threads that iterate over the map

ASSUME ConstantsOK ==
  /\ CalcTypes \in Seq(Calculators) /\ CalcTypes # << >>
  /\ Window \in Nat /\ MaxTrades \in Nat /\ MaxClock \in Nat
  /\ Reserved \in Nat \ {0} /\ IsFiniteSet(Symbols)
  /\ Null \notin Symbols \cup Walkers

VARIABLES
  clock, stop,               \* system_clock::now(); stop requested on the token
  crashed,                   \* the process died of a data race
  q, enqueued,               \* the queue; a trade's id is its rank of receipt
  procPc, item, cutoff,      \* processor thread
  known, buckets,            \* symbolStateMap: keys, elements before a rehash
  pushed, erased,            \* per symbol: the deque trades
  owner,                     \* per symbol: holder of SymbolState::m
  features, published,       \* per symbol: features, and at last unlock (history)
  walk,                      \* per walker: its range-for over the map
  schedPc, calc, it, base,   \* scheduler thread; base: window when it locked (history)
  logPc                      \* logger thread

queueVars == <<q, enqueued>>
procVars  == <<procPc, item, cutoff>>
mapVars   == <<known, buckets>>
deques    == <<pushed, erased>>
states    == <<owner, features, published>>
loopVars  == <<calc, it, base>>
vars == <<clock, stop, crashed, queueVars, procVars, mapVars, deques, states, walk,
          schedPc, loopVars, logPc>>

Times    == 0 .. MaxClock
Trades   == [id : Nat, t : Times]
Items    == [id : Nat, s : Symbols, t : Times]
Calcs    == 1 .. Len(CalcTypes)

(* A feature: as resetFeatures left it, the first and the last position    *)
(* folded over, or the outcome of reading an erased entry.                 *)
Zero     == <<0, 0>>
Garbage  == <<-1, -1>>
Coverage == Int \X Int

NoWalk == [todo |-> {}, visited |-> {}, start |-> {}, cur |-> Null]
Walks  == [todo : SUBSET Symbols, visited : SUBSET Symbols,
           start : SUBSET Symbols, cur : Symbols \cup {Null}]

(* trades.begin() and trades.end()                                         *)
Begin(s) == erased[s] + 1
End(s)   == Len(pushed[s]) + 1

(* Types of the variables.                                                 *)
TypeOK ==
  /\ clock \in Times /\ stop \in BOOLEAN /\ crashed \in BOOLEAN
  /\ q \in Seq(Items) /\ enqueued \in 0 .. MaxTrades
  /\ procPc \in {"dequeue", "lookup", "push", "evict", "stopped"}
  /\ item \in Items \cup {Null} /\ cutoff \in Int
  /\ procPc \in {"lookup", "push", "evict"} => item \in Items
  /\ known \in SUBSET Symbols /\ buckets \in Nat
  /\ pushed \in [Symbols -> Seq(Trades)]
  /\ erased \in [Symbols -> Nat] /\ \A s \in Symbols : erased[s] <= Len(pushed[s])
  /\ owner \in [Symbols -> Walkers \cup {Null}]
  /\ features \in [Symbols -> [Calcs -> Coverage]]
  /\ published \in [Symbols -> [Calcs -> Coverage]]
  /\ walk \in [Walkers -> Walks]
  /\ schedPc \in {"waiting", "next", "calc", "stopped"}
  /\ calc \in Calcs /\ it \in Nat \ {0} /\ base \in Nat \X Nat
  /\ logPc \in {"sleeping", "next", "copy", "stopped"}

(* symbolStateMap.reserve(1000), and main without it                       *)
InitialBuckets_NoReserve == 1
InitialBuckets == Reserved

Init ==
  /\ clock = 0 /\ stop = FALSE /\ crashed = FALSE
  /\ q = << >> /\ enqueued = 0
  /\ procPc = "dequeue" /\ item = Null /\ cutoff = 0
  /\ known = {} /\ buckets = InitialBuckets
  /\ pushed = [s \in Symbols |-> << >>] /\ erased = [s \in Symbols |-> 0]
  /\ owner = [s \in Symbols |-> Null]
  /\ features = [s \in Symbols |-> [c \in Calcs |-> Zero]]
  /\ published = features
  /\ walk = [w \in Walkers |-> NoWalk]
  /\ schedPc = "waiting" /\ calc = 1 /\ it = 1 /\ base = Zero
  /\ logPc = "sleeping"

-----------------------------------------------------------------------------
(* Environment: the clock, SIGINT, and the message handler, which enqueues *)
(* the trades of a message one by one.                                     *)
EnvironmentOnly == ~crashed /\ UNCHANGED <<crashed, procVars, mapVars, deques, states,
                                          walk, schedPc, loopVars, logPc>>

Tick ==
  /\ clock < MaxClock
  /\ clock' = clock + 1
  /\ EnvironmentOnly /\ UNCHANGED <<stop, queueVars>>

RequestStop ==
  /\ MayStop /\ ~stop /\ stop' = TRUE
  /\ EnvironmentOnly /\ UNCHANGED <<clock, queueVars>>

Enqueue(s, t) ==
  /\ enqueued < MaxTrades /\ t <= clock
  /\ enqueued' = enqueued + 1
  /\ q' = Append(q, [id |-> enqueued + 1, s |-> s, t |-> t])
  /\ EnvironmentOnly /\ UNCHANGED <<clock, stop>>

-----------------------------------------------------------------------------
(* The processor thread: StreamProcessor::process                          *)
ProcessorOnly == ~crashed /\ UNCHANGED <<clock, stop, crashed, enqueued, states,
                                        schedPc, loopVars, logPc>>

(* Fault: the token is tested after the item was taken.                    *)
Dequeue_ThenTestStop ==
  /\ procPc = "dequeue" /\ q # << >>
  /\ item' = Head(q) /\ q' = Tail(q)
  /\ procPc' = IF stop THEN "stopped" ELSE "lookup"
  /\ ProcessorOnly /\ UNCHANGED <<cutoff, mapVars, deques, walk>>

(* wait_dequeue_timed succeeds.  The stop request was tested before it.    *)
Dequeue ==
  /\ procPc = "dequeue" /\ q # << >>
  /\ item' = Head(q) /\ q' = Tail(q)
  /\ procPc' = "lookup"
  /\ ProcessorOnly /\ UNCHANGED <<cutoff, mapVars, deques, walk>>

Walking(w) == IF w = "scheduler" THEN schedPc \in {"next", "calc"}
                                 ELSE logPc \in {"next", "copy"}

(* An insertion races with the range-for loops over the map: a loop meets  *)
(* the new node or misses it.                                              *)
InsertKey(s) ==
  \E meets \in SUBSET {w \in Walkers : Walking(w)} :
    /\ walk' = [w \in Walkers |->
         IF w \in meets THEN [walk[w] EXCEPT !.todo = @ \cup {s}] ELSE walk[w]]
    /\ UNCHANGED buckets

(* A rehash relinks every node: a loop may skip nodes or meet some again.  *)
InsertKeyRehash(s) ==
  \E todo \in [{w \in Walkers : Walking(w)} -> SUBSET (known \cup {s})] :
    /\ walk' = [w \in Walkers |->
         IF Walking(w) THEN [walk[w] EXCEPT !.todo = todo[w]] ELSE walk[w]]
    /\ buckets' = 2 * buckets + 1

(* symbolStates[symbol]                                                    *)
Lookup ==
  /\ procPc = "lookup" /\ procPc' = "push"
  /\ known' = known \cup {item.s}
  /\ \/ item.s \in known /\ UNCHANGED <<walk, buckets>>
     \/ item.s \notin known /\ Cardinality(known) + 1 <= buckets /\ InsertKey(item.s)
     \/ item.s \notin known /\ Cardinality(known) + 1 > buckets /\ InsertKeyRehash(item.s)
  /\ ProcessorOnly /\ UNCHANGED <<q, item, cutoff, deques>>

(* Fault: the newest trade goes to the front.                              *)
PushBack_Front(trades, trade) == <<trade>> \o trades
PushBack(trades, trade) == Append(trades, trade)

(* Fault: the window is left out.                                          *)
Cutoff_Now == clock
Cutoff == clock - Window

(* state.trades.push_back(item), and the cutoff for the eviction           *)
Push ==
  /\ procPc = "push" /\ procPc' = "evict"
  /\ pushed' = [pushed EXCEPT ![item.s] = PushBack(@, [id |-> item.id, t |-> item.t])]
  /\ cutoff' = Cutoff
  /\ ProcessorOnly /\ UNCHANGED <<q, item, mapVars, erased, walk>>

(* Faults: the last trade is never evicted; trades.empty() is not tested.  *)
FrontExpired_KeepLast(s) == Begin(s) + 1 < End(s) /\ pushed[s][Begin(s)].t < cutoff
FrontExpired_NoEmptyTest(s) == Begin(s) < End(s) => pushed[s][Begin(s)].t < cutoff
FrontExpired(s) == Begin(s) < End(s) /\ pushed[s][Begin(s)].t < cutoff

(* Fault: the loop tests the front and leaves it there.                    *)
PopFront_Missing ==
  /\ procPc = "evict" /\ FrontExpired(item.s)
  /\ ProcessorOnly /\ UNCHANGED <<q, procVars, mapVars, deques, walk>>

PopFront ==
  /\ procPc = "evict" /\ FrontExpired(item.s)
  /\ erased' = [erased EXCEPT ![item.s] = @ + 1]
  /\ ProcessorOnly /\ UNCHANGED <<q, procVars, mapVars, pushed, walk>>

EvictDone ==
  /\ procPc = "evict" /\ ~FrontExpired(item.s)
  /\ procPc' = IF stop THEN "stopped" ELSE "dequeue"
  /\ ProcessorOnly /\ UNCHANGED <<q, item, cutoff, mapVars, deques, walk>>

(* wait_dequeue_timed times out, and the test sees the stop request.       *)
ProcStop ==
  /\ procPc = "dequeue" /\ q = << >> /\ stop /\ procPc' = "stopped"
  /\ ProcessorOnly /\ UNCHANGED <<q, item, cutoff, mapVars, deques, walk>>

Processor == Dequeue \/ Lookup \/ Push \/ PopFront \/ EvictDone \/ ProcStop

-----------------------------------------------------------------------------
(* A range-for over symbolStateMap: begin(), ++ to the element of s, and   *)
(* the end of the loop body.                                               *)
WalkFrom(w) == walk' = [walk EXCEPT ![w] = [NoWalk EXCEPT !.todo = known, !.start = known]]

WalkTo(w, s) ==
  /\ s \in walk[w].todo
  /\ walk' = [walk EXCEPT ![w] = [walk[w] EXCEPT !.todo = @ \ {s}, !.cur = s]]

WalkVisited(w) ==
  walk' = [walk EXCEPT ![w] =
    [walk[w] EXCEPT !.visited = @ \cup {walk[w].cur}, !.cur = Null]]

-----------------------------------------------------------------------------
(* The scheduler thread: computeFeatures on each tick of its timer         *)
SchedulerOnly == ~crashed /\ UNCHANGED <<clock, stop, crashed, queueVars, procVars,
                                        mapVars, deques, logPc>>

Cur == walk["scheduler"].cur

(* cv.wait_until returns false: at the tick, or when the stop request      *)
(* arrives between its test of the predicate and its test of the token.    *)
SchedTick ==
  /\ schedPc = "waiting" /\ schedPc' = "next"
  /\ WalkFrom("scheduler")
  /\ SchedulerOnly /\ UNCHANGED <<states, loopVars>>

SchedStop ==
  /\ schedPc = "waiting" /\ stop /\ schedPc' = "stopped"
  /\ SchedulerOnly /\ UNCHANGED <<states, walk, loopVars>>

(* Fault: no lock_guard.                                                   *)
CanLock_NoGuard(s) == TRUE
CanLock(s) == owner[s] = Null

(* lock_guard, resetFeatures, and begin() of the first calculator's loop   *)
SchedLock(s) ==
  /\ schedPc = "next" /\ schedPc' = "calc"
  /\ CanLock(s) /\ owner' = [owner EXCEPT ![s] = "scheduler"]
  /\ WalkTo("scheduler", s)
  /\ features' = [features EXCEPT ![s] = [c \in Calcs |-> Zero]]
  /\ calc' = 1 /\ it' = Begin(s) /\ base' = <<erased[s], Len(pushed[s])>>
  /\ SchedulerOnly /\ UNCHANGED published

(* What a calculator makes of its feature f when it processes entry i.     *)
(* Trades per second reads the two ends of the deque and not the entry;    *)
(* the tick imbalance skips the first entry and else reads the one before. *)
Processed(c, f, s, i) ==
  CASE c = "TradespersecCalc" ->
         IF Begin(s) = End(s) THEN f ELSE <<Begin(s), Len(pushed[s])>>
    [] c = "TickImbalanceCalc" /\ i = Begin(s) -> f
    [] c # "TradespersecCalc" /\ (i < Begin(s) \/ f = Garbage) -> Garbage
    [] OTHER -> <<IF f # Zero THEN f[1] ELSE IF c = "TickImbalanceCalc" THEN i - 1 ELSE i, i>>

(* processEntry and ++it.  An entry erased under the iterator is still     *)
(* read.                                                                   *)
ProcessEntry ==
  /\ schedPc = "calc" /\ it < End(Cur) /\ it' = it + 1
  /\ features' = [features EXCEPT ![Cur][calc] = Processed(CalcTypes[calc], @, Cur, it)]
  /\ SchedulerOnly /\ UNCHANGED <<owner, published, walk, schedPc, calc, base>>

(* Any change of a deque invalidates the iterators into it: the process    *)
(* may also die of the access.                                             *)
RaceCrash ==
  /\ schedPc = "calc" /\ base # <<erased[Cur], Len(pushed[Cur])>>
  /\ ~crashed /\ crashed' = TRUE
  /\ UNCHANGED <<clock, stop, queueVars, procVars, mapVars, deques, states, walk,
                 schedPc, loopVars, logPc>>

(* Fault: the iterator is shared by the calculators.                       *)
FirstEntry_Kept(s) == it
FirstEntry(s) == Begin(s)

(* it == end(): tupleProcess goes on to the next calculator.               *)
NextCalc ==
  /\ schedPc = "calc" /\ it = End(Cur) /\ calc < Len(CalcTypes)
  /\ calc' = calc + 1 /\ it' = FirstEntry(Cur)
  /\ SchedulerOnly /\ UNCHANGED <<states, walk, schedPc, base>>

(* The last calculator is done: the lock_guard goes out of scope.          *)
SchedUnlock ==
  /\ schedPc = "calc" /\ it = End(Cur) /\ calc = Len(CalcTypes) /\ schedPc' = "next"
  /\ owner' = [owner EXCEPT ![Cur] = Null]
  /\ published' = [published EXCEPT ![Cur] = features[Cur]]
  /\ WalkVisited("scheduler")
  /\ calc' = 1 /\ it' = 1 /\ base' = Zero
  /\ SchedulerOnly /\ UNCHANGED features

SchedDone ==
  /\ schedPc = "next" /\ walk["scheduler"].todo = {}
  /\ schedPc' = IF stop THEN "stopped" ELSE "waiting"
  /\ walk' = [walk EXCEPT !["scheduler"] = NoWalk]
  /\ SchedulerOnly /\ UNCHANGED <<states, loopVars>>

Scheduler ==
  \/ SchedTick \/ SchedStop \/ (\E s \in Symbols : SchedLock(s))
  \/ ProcessEntry \/ NextCalc \/ SchedUnlock \/ SchedDone

-----------------------------------------------------------------------------
(* The logger thread of main                                               *)
LoggerOnly == ~crashed /\ UNCHANGED <<clock, stop, crashed, queueVars, procVars, mapVars,
                                     deques, features, published, schedPc, loopVars>>

LogTick ==
  /\ logPc = "sleeping" /\ ~stop /\ logPc' = "next"
  /\ WalkFrom("logger")
  /\ LoggerOnly /\ UNCHANGED owner

LogStop ==
  /\ logPc = "sleeping" /\ stop /\ logPc' = "stopped"
  /\ LoggerOnly /\ UNCHANGED <<owner, walk>>

LogLock(s) ==
  /\ logPc = "next" /\ owner[s] = Null /\ logPc' = "copy"
  /\ owner' = [owner EXCEPT ![s] = "logger"]
  /\ WalkTo("logger", s) /\ LoggerOnly

(* Fault: the lock outlives the block.                                     *)
LogCopy_NoUnlock ==
  /\ logPc = "copy" /\ logPc' = "next"
  /\ WalkVisited("logger") /\ LoggerOnly /\ UNCHANGED owner

(* snapshot = v.features (only printed), and the end of the locked block   *)
LogCopy ==
  /\ logPc = "copy" /\ logPc' = "next"
  /\ owner' = [owner EXCEPT ![walk["logger"].cur] = Null]
  /\ WalkVisited("logger") /\ LoggerOnly

LogDone ==
  /\ logPc = "next" /\ walk["logger"].todo = {} /\ logPc' = "sleeping"
  /\ walk' = [walk EXCEPT !["logger"] = NoWalk]
  /\ LoggerOnly /\ UNCHANGED owner

Logger == LogTick \/ LogStop \/ (\E s \in Symbols : LogLock(s)) \/ LogCopy \/ LogDone

-----------------------------------------------------------------------------
Next ==
  \/ Tick \/ RequestStop \/ (\E s \in Symbols, t \in Times : Enqueue(s, t))
  \/ Processor \/ Scheduler \/ RaceCrash \/ Logger

Spec == Init /\ [][Next]_vars

(* The operating system runs each of the three threads again and again.    *)
FairSpec == Spec /\ WF_vars(Processor) /\ WF_vars(Scheduler) /\ WF_vars(Logger)

-----------------------------------------------------------------------------
(* Every trade enqueued is in the queue, in the processor's hands, or was  *)
(* pushed on a window: no trade is lost, whatever the moment of the stop.  *)
InHand == procPc \in {"lookup", "push"}

NoTradeLost ==
  \A id \in 1 .. enqueued :
    \/ \E i \in 1 .. Len(q) : q[i].id = id
    \/ InHand /\ item.id = id
    \/ \E s \in Symbols : \E i \in 1 .. Len(pushed[s]) : pushed[s][i].id = id

(* The trades of a symbol are pushed in the order they were received       *)
(* (Calc.hpp relies on it), and none twice, in one window or in two.       *)
ReceiptOrder ==
  /\ \A s \in Symbols : \A i, j \in 1 .. Len(pushed[s]) :
       i < j => pushed[s][i].id < pushed[s][j].id
  /\ \A s, r \in Symbols : s # r =>
       \A i \in 1 .. Len(pushed[s]), j \in 1 .. Len(pushed[r]) :
         pushed[s][i].id # pushed[r][j].id

(* Up to the reserved number of keys a traversal of the map misses no key  *)
(* that was there when it began and meets none twice, although the         *)
(* processor inserts keys meanwhile.                                       *)
Met(w) == walk[w].visited \cup ({walk[w].cur} \ {Null})

TraversalExact ==
  Cardinality(known) <= Reserved =>
    \A w \in Walkers : /\ walk[w].start \subseteq Met(w) \cup walk[w].todo
                       /\ Met(w) \cap walk[w].todo = {}

(* While the logger copies the features of a symbol they are what the last *)
(* complete run of the calculators left, never half recomputed.            *)
SnapshotPublished ==
  logPc = "copy" => features[walk["logger"].cur] = published[walk["logger"].cur]

(* A calculator that is done has folded over the whole window there was    *)
(* when the lock was taken, and over trades pushed since, each calculator  *)
(* at least as far as the one before it, unless the processor evicted      *)
(* trades meanwhile.  (The tick imbalance needs two trades.)               *)
CoverageSound ==
  schedPc = "calc" /\ erased[Cur] = base[1] =>
    LET reach(c) == features[Cur][c][2]
        few(c) == features[Cur][c] = Zero /\ base[2] - base[1] < 2
    IN  \A c \in 1 .. calc - 1 :
          /\ few(c) \/ /\ features[Cur][c][1] = base[1] + 1
                       /\ reach(c) \in base[2] .. Len(pushed[Cur])
          /\ \A d \in 1 .. c : few(c) \/ few(d) \/ reach(d) <= reach(c)

(* Only trades older than the window are evicted, however long the clock   *)
(* runs on between the computation of the cutoff and the eviction.         *)
EvictsOnlyExpired ==
  [][\A s \in Symbols :
       erased'[s] > erased[s] => pushed[s][erased'[s]].t + Window < clock]_vars

(* When the trades of a symbol arrive in time order, popping expired       *)
(* trades off the front leaves none older than the cutoff behind.          *)
TimeOrdered(s) ==
  \A i, j \in 1 .. Len(pushed[s]) : i < j => pushed[s][i].t <= pushed[s][j].t

WindowFresh ==
  procPc \in {"dequeue", "stopped"} /\ item # Null /\ TimeOrdered(item.s) =>
    \A i \in Begin(item.s) .. Len(pushed[item.s]) : pushed[item.s][i].t >= cutoff

(* The threads together do what TradePipeline promises, the trades that    *)
(* wait being those in the queue and the one in the processor's hands.     *)
Waiting == {q[i] : i \in 1 .. Len(q)} \cup (IF InHand THEN {item} ELSE {})

Pipeline == INSTANCE TradePipeline WITH
  now <- clock, received <- enqueued, waiting <- Waiting,
  accepted <- pushed, expired <- erased

ImplementsPipeline == Pipeline!Spec

(* The calculators loop through trades (Calc.hpp:85): an entry they        *)
(* process is in the deque.                                                *)
ReadsLiveEntries ==
  schedPc = "calc" /\ it < End(Cur) => it >= Begin(Cur)

(* Every trade enqueued is pushed on its window, unless the program stops. *)
TradesReachWindow ==
  \A id \in 1 .. MaxTrades :
    (id <= enqueued) ~> \/ stop \/ crashed
                       \/ \E s \in Symbols : \E i \in 1 .. Len(pushed[s]) :
                            pushed[s][i].id = id

(* A stop request ends the three threads, so that main can join them.      *)
StopEndsThreads ==
  stop ~> crashed \/ (procPc = "stopped" /\ schedPc = "stopped" /\ logPc = "stopped")
=============================================================================
