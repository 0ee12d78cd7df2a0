------------------------ MODULE StreamProcessorProofs ------------------------
(***************************************************************************)
(* Theorems about StreamProcessor, for all symbols, calculators, windows   *)
(* and bounds.                                                             *)
(***************************************************************************)
EXTENDS StreamProcessor, FiniteSetTheorems, TLAPS

LogCur == walk["logger"].cur

(* Who holds a lock: the scheduler that of the symbol it computes, the     *)
(* logger that of the symbol it copies, and features that are not as       *)
(* published belong to a symbol the scheduler holds.                       *)
LockInv ==
  /\ schedPc = "calc" => Cur \in Symbols /\ owner[Cur] = "scheduler"
  /\ logPc = "copy" => LogCur \in Symbols /\ owner[LogCur] = "logger"
  /\ \A s \in Symbols : owner[s] = "scheduler" \/ features[s] = published[s]

-----------------------------------------------------------------------------
LEMMA InitLock == Init => TypeOK /\ LockInv
<1> SUFFICES ASSUME Init PROVE TypeOK /\ LockInv
  OBVIOUS
<1> USE ConstantsOK DEF Init
<1>1. Len(CalcTypes) \in Nat /\ Len(CalcTypes) > 0
  OBVIOUS
<1>2. walk \in [Walkers -> Walks]
  BY DEF Walks, NoWalk
<1>3. features \in [Symbols -> [Calcs -> Coverage]]
  BY DEF Coverage, Zero
<1>4. pushed \in [Symbols -> Seq(Trades)] /\ \A s \in Symbols : Len(pushed[s]) = 0
  OBVIOUS
<1>5. base \in Nat \X Nat
  BY DEF Zero
<1>6. q \in Seq(Items) /\ erased \in [Symbols -> Nat] /\ known \in SUBSET Symbols
  OBVIOUS
<1>8. owner \in [Symbols -> Walkers \cup {Null}]
  OBVIOUS
<1>9. clock \in Times /\ calc \in Calcs /\ buckets \in Nat /\ enqueued \in 0 .. MaxTrades
  BY <1>1 DEF Times, Calcs, InitialBuckets
<1>10. \A s \in Symbols : erased[s] <= Len(pushed[s])
  BY <1>4
<1>11. /\ procPc = "dequeue" /\ item = Null /\ cutoff = 0 /\ it = 1 /\ published = features
       /\ stop \in BOOLEAN /\ crashed \in BOOLEAN /\ schedPc = "waiting" /\ logPc = "sleeping"
  OBVIOUS
<1>13. item \in Items \cup {Null} /\ cutoff \in Int /\ it \in Nat \ {0}
  OBVIOUS
<1>12. TypeOK
  <2> HIDE DEF Init
  <2> QED BY <1>2, <1>3, <1>4, <1>5, <1>6, <1>8, <1>9, <1>10, <1>11, <1>13 DEF TypeOK
<1>7. LockInv
  BY DEF LockInv
<1> QED BY <1>12, <1>7

(* Replacing the fields of a traversal.                                    *)
LEMMA WalkTypes ==
  ASSUME NEW r \in Walks
  PROVE  /\ \A S \in SUBSET Symbols : [r EXCEPT !.todo = S] \in Walks
         /\ \A s \in Symbols : [r EXCEPT !.todo = r.todo \ {s}, !.cur = s] \in Walks
         /\ \A s \in Symbols :
              [r EXCEPT !.visited = r.visited \cup {s}, !.cur = Null] \in Walks
         /\ \A S \in SUBSET Symbols : [NoWalk EXCEPT !.todo = S, !.start = S] \in Walks
BY DEF Walks, NoWalk

LEMMA ProcessedType ==
  ASSUME NEW c, NEW s, NEW f \in Coverage, NEW i \in Int,
         erased[s] \in Int, Len(pushed[s]) \in Int
  PROVE  Processed(c, f, s, i) \in Coverage
<1>1. CASE c = "TradespersecCalc"
  BY <1>1 DEF Processed, Coverage, Begin
<1>2. CASE c # "TradespersecCalc"
  <2>1. CASE c = "TickImbalanceCalc" /\ i = Begin(s)
    BY <1>2, <2>1 DEF Processed
  <2>2. CASE ~(c = "TickImbalanceCalc" /\ i = Begin(s)) /\ (i < Begin(s) \/ f = Garbage)
    BY <1>2, <2>2 DEF Processed, Coverage, Garbage
  <2>3. CASE ~(c = "TickImbalanceCalc" /\ i = Begin(s)) /\ ~(i < Begin(s) \/ f = Garbage)
    BY <1>2, <2>3 DEF Processed, Coverage
  <2> QED BY <2>1, <2>2, <2>3
<1> QED BY <1>1, <1>2

LEMMA TypeStep == TypeOK /\ LockInv /\ [Next]_vars => TypeOK'
<1> SUFFICES ASSUME TypeOK, LockInv, [Next]_vars PROVE TypeOK'
  OBVIOUS
<1> USE ConstantsOK DEF queueVars, procVars, mapVars, deques, states, loopVars
<1>0. Len(CalcTypes) \in Nat /\ Len(CalcTypes) > 0
  OBVIOUS
<1>1. CASE Tick
  BY <1>1 DEF TypeOK, Tick, EnvironmentOnly, Times
<1>2. CASE RequestStop
  BY <1>2 DEF TypeOK, RequestStop, EnvironmentOnly
<1>3. ASSUME NEW s \in Symbols, NEW t \in Times, Enqueue(s, t) PROVE TypeOK'
  <2>1. [id |-> enqueued + 1, s |-> s, t |-> t] \in Items
    BY DEF TypeOK, Items
  <2>2. q' \in Seq(Items) /\ enqueued' \in 0 .. MaxTrades
    BY <1>3, <2>1 DEF TypeOK, Enqueue
  <2> QED
    BY <1>3, <2>2 DEF TypeOK, Enqueue, EnvironmentOnly
<1>4. CASE Dequeue
  <2>1. Head(q) \in Items /\ Tail(q) \in Seq(Items)
    BY <1>4 DEF TypeOK, Dequeue
  <2> QED
    BY <1>4, <2>1 DEF TypeOK, Dequeue, ProcessorOnly
<1>5. CASE Lookup
  <2>1. item \in Items /\ item.s \in Symbols
    BY <1>5 DEF TypeOK, Lookup, Items
  <2>2. walk' \in [Walkers -> Walks] /\ buckets' \in Nat
    <3>1. ASSUME NEW w \in Walkers, NEW S \in SUBSET Symbols
          PROVE  [walk[w] EXCEPT !.todo = S] \in Walks
      BY WalkTypes DEF TypeOK
    <3>2. CASE InsertKey(item.s)
      <4>1. ASSUME NEW w \in Walkers PROVE walk[w].todo \cup {item.s} \in SUBSET Symbols
        BY <2>1 DEF TypeOK, Walks
      <4>2. PICK meets \in SUBSET {w \in Walkers : Walking(w)} :
              walk' = [w \in Walkers |-> IF w \in meets
                         THEN [walk[w] EXCEPT !.todo = walk[w].todo \cup {item.s}] ELSE walk[w]]
        BY <3>2 DEF InsertKey
      <4>3. walk \in [Walkers -> Walks] /\ buckets' \in Nat
        BY <3>2 DEF TypeOK, InsertKey
      <4> QED BY <3>1, <4>1, <4>2, <4>3
    <3>3. CASE InsertKeyRehash(item.s)
      <4>1. PICK todo \in [{w \in Walkers : Walking(w)} -> SUBSET (known \cup {item.s})] :
              walk' = [w \in Walkers |->
                IF Walking(w) THEN [walk[w] EXCEPT !.todo = todo[w]] ELSE walk[w]]
        BY <3>3 DEF InsertKeyRehash
      <4>2. ASSUME NEW w \in Walkers, Walking(w) PROVE todo[w] \in SUBSET Symbols
        BY <2>1, <4>2 DEF TypeOK
      <4>3. walk' \in [Walkers -> Walks]
        BY <3>1, <4>1, <4>2 DEF TypeOK
      <4> QED BY <3>3, <4>3 DEF TypeOK, InsertKeyRehash
    <3> QED BY <1>5, <3>2, <3>3 DEF TypeOK, Lookup
  <2> QED
    BY <1>5, <2>1, <2>2 DEF TypeOK, Lookup, ProcessorOnly
<1>6. CASE Push
  <2>1. item \in Items /\ item.s \in Symbols
    BY <1>6 DEF TypeOK, Push, Items
  <2>2. [id |-> item.id, t |-> item.t] \in Trades
    BY <2>1 DEF Items, Trades
  <2>3. pushed' = [pushed EXCEPT ![item.s] = Append(@, [id |-> item.id, t |-> item.t])]
    BY <1>6 DEF Push, PushBack
  <2>4. /\ pushed' \in [Symbols -> Seq(Trades)]
        /\ \A s \in Symbols : Len(pushed'[s]) >= Len(pushed[s])
    BY <2>1, <2>2, <2>3 DEF TypeOK
  <2>5. cutoff' \in Int
    BY <1>6 DEF TypeOK, Push, Cutoff, Times
  <2>6. erased' \in [Symbols -> Nat] /\ \A s \in Symbols : erased'[s] <= Len(pushed'[s])
    BY <1>6, <2>4 DEF TypeOK, Push, ProcessorOnly
  <2> QED
    BY <1>6, <2>1, <2>4, <2>5, <2>6 DEF TypeOK, Push, ProcessorOnly
<1>7. CASE PopFront
  <2>1. item \in Items /\ item.s \in Symbols
    BY <1>7 DEF TypeOK, PopFront, Items
  <2>2. erased' \in [Symbols -> Nat] /\ \A s \in Symbols : erased'[s] <= Len(pushed[s])
    <3>1. /\ erased \in [Symbols -> Nat] /\ \A s \in Symbols : Len(pushed[s]) \in Nat
          /\ \A s \in Symbols : erased[s] <= Len(pushed[s])
      BY DEF TypeOK
    <3>2. erased' = [erased EXCEPT ![item.s] = erased[item.s] + 1]
      BY <1>7 DEF PopFront
    <3>3. erased[item.s] + 1 < Len(pushed[item.s]) + 1
      BY <1>7 DEF PopFront, FrontExpired, Begin, End
    <3>4. erased[item.s] + 1 <= Len(pushed[item.s])
      BY <2>1, <3>1, <3>3
    <3> QED BY <2>1, <3>1, <3>2, <3>4
  <2> QED
    BY <1>7, <2>2 DEF TypeOK, PopFront, ProcessorOnly
<1>8. CASE EvictDone \/ ProcStop
  BY <1>8 DEF TypeOK, EvictDone, ProcStop, ProcessorOnly
<1>9. /\ NoWalk \in Walks /\ walk["scheduler"] \in Walks /\ walk["logger"] \in Walks
      /\ [NoWalk EXCEPT !.todo = known, !.start = known] \in Walks
  <2>1. NoWalk \in Walks
    BY DEF Walks, NoWalk
  <2> QED BY <2>1, WalkTypes DEF TypeOK, Walkers
<1>10. ASSUME NEW w \in Walkers, WalkFrom(w) PROVE walk' \in [Walkers -> Walks]
  BY <1>9, <1>10 DEF TypeOK, WalkFrom
<1>11. ASSUME NEW w \in Walkers, NEW s \in Symbols, WalkTo(w, s)
       PROVE walk' \in [Walkers -> Walks]
  <2>1. walk \in [Walkers -> Walks]
    BY DEF TypeOK
  <2>2. [walk[w] EXCEPT !.todo = walk[w].todo \ {s}, !.cur = s] \in Walks
    BY <2>1, WalkTypes
  <2> QED BY <1>11, <2>1, <2>2 DEF WalkTo
<1>12. ASSUME NEW w \in Walkers, walk[w].cur \in Symbols, WalkVisited(w)
       PROVE walk' \in [Walkers -> Walks]
  <2>1. walk \in [Walkers -> Walks]
    BY DEF TypeOK
  <2>2. [walk[w] EXCEPT !.visited = walk[w].visited \cup {walk[w].cur}, !.cur = Null] \in Walks
    BY <1>12, <2>1, WalkTypes
  <2> QED BY <1>12, <2>1, <2>2 DEF WalkVisited
<1>13. CASE SchedTick \/ SchedStop
  BY <1>13, <1>10 DEF TypeOK, SchedTick, SchedStop, SchedulerOnly, Walkers
<1>14. ASSUME NEW s \in Symbols, SchedLock(s) PROVE TypeOK'
  <2>1. walk' \in [Walkers -> Walks]
    BY <1>11, <1>14 DEF SchedLock, Walkers
  <2>2. owner' \in [Symbols -> Walkers \cup {Null}]
    BY <1>14 DEF TypeOK, SchedLock, Walkers
  <2>3. features' \in [Symbols -> [Calcs -> Coverage]]
    <3>1. [c \in Calcs |-> Zero] \in [Calcs -> Coverage]
      BY DEF Zero, Coverage
    <3> QED BY <1>14, <3>1 DEF TypeOK, SchedLock
  <2>4. calc' \in Calcs /\ it' \in Nat \ {0} /\ base' \in Nat \X Nat
    BY <1>14, <1>0 DEF TypeOK, SchedLock, Calcs, Begin
  <2> QED
    BY <1>14, <2>1, <2>2, <2>3, <2>4 DEF TypeOK, SchedLock, SchedulerOnly
<1>15. CASE ProcessEntry
  <2>1. Cur \in Symbols
    BY <1>15 DEF LockInv, ProcessEntry
  <2>2. features[Cur][calc] \in Coverage /\ it \in Int /\ erased[Cur] \in Int
        /\ Len(pushed[Cur]) \in Int
    BY <2>1 DEF TypeOK
  <2>3. Processed(CalcTypes[calc], features[Cur][calc], Cur, it) \in Coverage
    BY <2>2, ProcessedType
  <2>4. features' \in [Symbols -> [Calcs -> Coverage]]
    BY <1>15, <2>1, <2>3 DEF TypeOK, ProcessEntry
  <2> QED
    BY <1>15, <2>4 DEF TypeOK, ProcessEntry, SchedulerOnly
<1>16. CASE NextCalc
  <2>1. Cur \in Symbols
    BY <1>16 DEF LockInv, NextCalc
  <2>2. calc' \in Calcs /\ it' \in Nat \ {0}
    BY <1>16, <1>0, <2>1 DEF TypeOK, NextCalc, FirstEntry, Begin, Calcs
  <2> QED
    BY <1>16, <2>2 DEF TypeOK, NextCalc, SchedulerOnly
<1>17. CASE SchedUnlock
  <2>1. Cur \in Symbols
    BY <1>17 DEF LockInv, SchedUnlock
  <2>2. walk' \in [Walkers -> Walks]
    BY <1>12, <1>17, <2>1 DEF SchedUnlock, Walkers, Cur
  <2>3. /\ owner' \in [Symbols -> Walkers \cup {Null}]
        /\ published' \in [Symbols -> [Calcs -> Coverage]]
    BY <1>17, <2>1 DEF TypeOK, SchedUnlock
  <2>4. calc' \in Calcs /\ it' \in Nat \ {0} /\ base' \in Nat \X Nat
    BY <1>17, <1>0 DEF SchedUnlock, Calcs, Zero
  <2> QED
    BY <1>17, <2>2, <2>3, <2>4 DEF TypeOK, SchedUnlock, SchedulerOnly
<1>18. CASE SchedDone
  BY <1>18, <1>9 DEF TypeOK, SchedDone, SchedulerOnly
<1>19. CASE RaceCrash
  BY <1>19 DEF TypeOK, RaceCrash
<1>20. CASE LogTick \/ LogStop
  BY <1>20, <1>10 DEF TypeOK, LogTick, LogStop, LoggerOnly, Walkers
<1>21. ASSUME NEW s \in Symbols, LogLock(s) PROVE TypeOK'
  <2>1. walk' \in [Walkers -> Walks]
    BY <1>11, <1>21 DEF LogLock, Walkers
  <2> QED
    BY <1>21, <2>1 DEF TypeOK, LogLock, LoggerOnly, Walkers
<1>22. CASE LogCopy
  <2>1. LogCur \in Symbols
    BY <1>22 DEF LockInv, LogCopy
  <2>2. walk' \in [Walkers -> Walks]
    BY <1>12, <1>22, <2>1 DEF LogCopy, Walkers, LogCur
  <2> QED
    BY <1>22, <2>1, <2>2 DEF TypeOK, LogCopy, LoggerOnly, LogCur
<1>23. CASE LogDone
  BY <1>23, <1>9 DEF TypeOK, LogDone, LoggerOnly
<1>24. CASE UNCHANGED vars
  BY <1>24 DEF TypeOK, vars
<1> QED
  BY <1>1, <1>2, <1>3, <1>4, <1>5, <1>6, <1>7, <1>8, <1>13, <1>14, <1>15, <1>16, <1>17,
     <1>18, <1>19, <1>20, <1>21, <1>22, <1>23, <1>24 DEF Next, Processor, Scheduler, Logger

LEMMA LockStep == TypeOK /\ LockInv /\ [Next]_vars => LockInv'
<1> SUFFICES ASSUME TypeOK, LockInv, [Next]_vars PROVE LockInv'
  OBVIOUS
<1> USE ConstantsOK DEF queueVars, procVars, mapVars, deques, states, loopVars
<1>1. /\ walk \in [Walkers -> Walks]
      /\ owner \in [Symbols -> Walkers \cup {Null}]
      /\ features \in [Symbols -> [Calcs -> Coverage]]
      /\ published \in [Symbols -> [Calcs -> Coverage]]
      /\ Null # "scheduler" /\ Null # "logger" /\ {"scheduler", "logger"} = Walkers
  BY DEF TypeOK, Walkers
<1>2. ASSUME walk["scheduler"].cur' = walk["scheduler"].cur, LogCur' = LogCur,
             UNCHANGED <<schedPc, logPc, owner, features, published>>
      PROVE  LockInv'
  BY <1>2 DEF LockInv, Cur
<1>3. CASE Tick \/ RequestStop \/ \E s \in Symbols, t \in Times : Enqueue(s, t)
  BY <1>2, <1>3 DEF Tick, RequestStop, Enqueue, EnvironmentOnly, LogCur
<1>4. CASE Dequeue \/ Push \/ PopFront \/ EvictDone \/ ProcStop
  BY <1>2, <1>4 DEF Dequeue, Push, PopFront, EvictDone, ProcStop, ProcessorOnly, LogCur
<1>5. CASE Lookup
  <2>1. \A w \in Walkers : walk'[w].cur = walk[w].cur
    <3>1. ASSUME NEW w \in Walkers, NEW S PROVE [walk[w] EXCEPT !.todo = S].cur = walk[w].cur
      BY <1>1 DEF Walks
    <3>2. CASE InsertKey(item.s)
      BY <3>1, <3>2 DEF InsertKey
    <3>3. CASE InsertKeyRehash(item.s)
      BY <3>1, <3>3 DEF InsertKeyRehash
    <3> QED BY <1>5, <3>2, <3>3 DEF Lookup
  <2> QED BY <1>1, <1>2, <1>5, <2>1 DEF Lookup, ProcessorOnly, LogCur
<1>6. CASE SchedTick \/ SchedStop
  BY <1>1, <1>6 DEF LockInv, SchedTick, SchedStop, SchedulerOnly, WalkFrom, LogCur
<1>7. ASSUME NEW s \in Symbols, SchedLock(s) PROVE LockInv'
  <2>1. LogCur' = LogCur
    BY <1>1, <1>7 DEF SchedLock, WalkTo, LogCur
  <2>2. Cur' = s
    BY <1>1, <1>7 DEF SchedLock, WalkTo, Cur, Walks
  <2>3. owner[s] = Null /\ owner' = [owner EXCEPT ![s] = "scheduler"]
    BY <1>7 DEF SchedLock, CanLock
  <2>4. \A r \in Symbols : owner'[r] = "scheduler" \/ features'[r] = published'[r]
    BY <1>1, <1>7, <2>3 DEF LockInv, SchedLock, SchedulerOnly
  <2>5. logPc' = "copy" => LogCur' \in Symbols /\ owner'[LogCur'] = "logger"
    BY <1>1, <1>7, <2>1, <2>3 DEF LockInv, SchedLock, SchedulerOnly
  <2> QED BY <1>1, <2>2, <2>3, <2>4, <2>5 DEF LockInv
<1>8. CASE ProcessEntry
  <2>1. Cur \in Symbols /\ owner[Cur] = "scheduler" /\ Cur' = Cur /\ LogCur' = LogCur
    BY <1>8 DEF LockInv, ProcessEntry, Cur, LogCur
  <2>2. \A s \in Symbols : s # Cur => features'[s] = features[s]
    BY <1>1, <1>8 DEF ProcessEntry
  <2> QED BY <1>8, <2>1, <2>2 DEF LockInv, ProcessEntry, SchedulerOnly
<1>9. CASE NextCalc \/ RaceCrash
  BY <1>2, <1>9 DEF NextCalc, RaceCrash, SchedulerOnly, LogCur
<1>10. CASE SchedUnlock
  <2>1. Cur \in Symbols /\ owner[Cur] = "scheduler"
    BY <1>10 DEF LockInv, SchedUnlock
  <2>2. LogCur' = LogCur
    BY <1>1, <1>10 DEF SchedUnlock, WalkVisited, LogCur
  <2>3. \A s \in Symbols : owner'[s] = "scheduler" \/ features'[s] = published'[s]
    BY <1>1, <1>10, <2>1 DEF LockInv, SchedUnlock, SchedulerOnly
  <2> QED BY <1>1, <1>10, <2>1, <2>2, <2>3 DEF LockInv, SchedUnlock, SchedulerOnly
<1>11. CASE SchedDone
  BY <1>1, <1>11 DEF LockInv, SchedDone, SchedulerOnly, LogCur
<1>12. CASE LogTick \/ LogStop \/ LogDone
  BY <1>1, <1>12 DEF LockInv, LogTick, LogStop, LogDone, LoggerOnly, WalkFrom, Cur
<1>13. ASSUME NEW s \in Symbols, LogLock(s) PROVE LockInv'
  <2>1. LogCur' = s /\ Cur' = Cur
    BY <1>1, <1>13 DEF LogLock, WalkTo, Cur, LogCur, Walks
  <2>2. \A r \in Symbols : owner'[r] = "scheduler" \/ features'[r] = published'[r]
    BY <1>1, <1>13 DEF LockInv, LogLock, LoggerOnly
  <2> QED BY <1>1, <1>13, <2>1, <2>2 DEF LockInv, LogLock, LoggerOnly
<1>14. CASE LogCopy
  <2>1. LogCur \in Symbols /\ owner[LogCur] = "logger"
    BY <1>14 DEF LockInv, LogCopy
  <2>2. Cur' = Cur
    BY <1>1, <1>14 DEF LogCopy, WalkVisited, Cur
  <2>3. owner' = [owner EXCEPT ![LogCur] = Null]
    BY <1>14 DEF LogCopy, LogCur
  <2> QED BY <1>1, <1>14, <2>1, <2>2, <2>3 DEF LockInv, LogCopy, LoggerOnly
<1>15. CASE UNCHANGED vars
  BY <1>2, <1>15 DEF vars, LogCur
<1> QED
  BY <1>3, <1>4, <1>5, <1>6, <1>7, <1>8, <1>9, <1>10, <1>11, <1>12, <1>13, <1>14, <1>15
  DEF Next, Processor, Scheduler, Logger

(* The variables keep their types, through every race the model has.       *)
THEOREM TypeCorrect == Spec => [](TypeOK /\ LockInv)
<1>1. TypeOK /\ LockInv /\ [Next]_vars => (TypeOK /\ LockInv)'
  BY TypeStep, LockStep
<1> QED BY InitLock, <1>1, PTL DEF Spec

(* The logger copies whole feature sets: the lock around each of the two   *)
(* blocks is enough, although the processor takes none.                    *)
THEOREM SnapshotsArePublished == Spec => []SnapshotPublished
<1>1. TypeOK /\ LockInv => SnapshotPublished
  BY ConstantsOK DEF LockInv, SnapshotPublished, LogCur
<1> QED BY <1>1, TypeCorrect, PTL

-----------------------------------------------------------------------------
(* Traversals.  The map has room for the reserved keys, a traversal is on  *)
(* an element only within the body of its loop, and knows no key the map   *)
(* does not have.                                                          *)
Fits == Cardinality(known) <= Reserved

ExactOf(w) == Fits => /\ walk[w].start \subseteq Met(w) \cup walk[w].todo
                      /\ Met(w) \cap walk[w].todo = {}

WalkInv ==
  /\ buckets >= Reserved
  /\ schedPc # "calc" => Cur = Null
  /\ logPc # "copy" => LogCur = Null
  /\ \A w \in Walkers : walk[w].todo \cup Met(w) \subseteq known /\ ExactOf(w)

LEMMA KeyAdded ==
  ASSUME TypeOK, NEW s \in Symbols, s \notin known
  PROVE  /\ Cardinality(known \cup {s}) = Cardinality(known) + 1
         /\ Cardinality(known) \in Nat
<1>1. IsFiniteSet(known)
  BY ConstantsOK, FS_Subset DEF TypeOK
<1> QED BY <1>1, FS_AddElement, FS_CardinalityType

LEMMA WalkStep == TypeOK /\ LockInv /\ WalkInv /\ [Next]_vars => WalkInv'
<1> SUFFICES ASSUME TypeOK, LockInv, WalkInv, [Next]_vars PROVE WalkInv'
  OBVIOUS
<1> USE ConstantsOK DEF queueVars, procVars, mapVars, deques, states, loopVars
<1>1. /\ walk \in [Walkers -> Walks] /\ known \in SUBSET Symbols /\ buckets \in Nat
      /\ Null \notin Symbols /\ {"scheduler", "logger"} = Walkers
  BY DEF TypeOK, Walkers
<1>2. ASSUME UNCHANGED <<walk, mapVars>>,
             schedPc' # "calc" => schedPc # "calc", logPc' # "copy" => logPc # "copy"
      PROVE  WalkInv'
  BY <1>2 DEF WalkInv, Cur, LogCur, Met, ExactOf, Fits
<1>3. CASE Tick \/ RequestStop \/ \E s \in Symbols, t \in Times : Enqueue(s, t)
  BY <1>2, <1>3 DEF Tick, RequestStop, Enqueue, EnvironmentOnly
<1>4. CASE Dequeue \/ Push \/ PopFront \/ EvictDone \/ ProcStop
  BY <1>2, <1>4 DEF Dequeue, Push, PopFront, EvictDone, ProcStop, ProcessorOnly
<1>5. CASE Lookup
  <2>1. item.s \in Symbols /\ known' = known \cup {item.s}
    BY <1>5 DEF Lookup, TypeOK, Items
  <2>2. CASE item.s \in known
    BY <1>2, <1>5, <2>1, <2>2 DEF Lookup, ProcessorOnly
  <2>3. CASE item.s \notin known
    <3>1. /\ Cardinality(known') = Cardinality(known) + 1
          /\ Cardinality(known) \in Nat
      BY <2>1, <2>3, KeyAdded
    <3>2. ASSUME NEW w \in Walkers
          PROVE  /\ walk'[w].cur = walk[w].cur /\ walk'[w].visited = walk[w].visited
                 /\ walk'[w].start = walk[w].start
                 /\ walk'[w].todo \subseteq known \cup {item.s}
                 /\ InsertKey(item.s) =>
                      walk'[w].todo \in {walk[w].todo, walk[w].todo \cup {item.s}}
      <4>1. walk[w].todo \subseteq known /\ walk[w] \in Walks
        BY <1>1 DEF WalkInv
      <4>2. ASSUME NEW S
            PROVE  /\ [walk[w] EXCEPT !.todo = S].cur = walk[w].cur
                   /\ [walk[w] EXCEPT !.todo = S].visited = walk[w].visited
                   /\ [walk[w] EXCEPT !.todo = S].start = walk[w].start
                   /\ [walk[w] EXCEPT !.todo = S].todo = S
        BY <4>1 DEF Walks
      <4>3. CASE InsertKey(item.s)
        <5>1. walk'[w] \in {walk[w], [walk[w] EXCEPT !.todo = walk[w].todo \cup {item.s}]}
          BY <4>3 DEF InsertKey
        <5>2. CASE walk'[w] = walk[w]
          BY <4>1, <5>2
        <5>3. CASE walk'[w] = [walk[w] EXCEPT !.todo = walk[w].todo \cup {item.s}]
          <6>1. walk'[w].todo = walk[w].todo \cup {item.s}
            BY <4>2, <5>3
          <6>2. /\ walk'[w].cur = walk[w].cur /\ walk'[w].visited = walk[w].visited
                /\ walk'[w].start = walk[w].start
            BY <4>2, <5>3
          <6> QED BY <4>1, <6>1, <6>2
        <5> QED BY <5>1, <5>2, <5>3
      <4>4. CASE ~InsertKey(item.s) /\ InsertKeyRehash(item.s)
        <5>1. PICK todo \in [{v \in Walkers : Walking(v)} -> SUBSET (known \cup {item.s})] :
                walk' = [v \in Walkers |->
                  IF Walking(v) THEN [walk[v] EXCEPT !.todo = todo[v]] ELSE walk[v]]
          BY <4>4 DEF InsertKeyRehash
        <5>2. CASE Walking(w)
          <6>1. walk'[w] = [walk[w] EXCEPT !.todo = todo[w]] /\ todo[w] \subseteq known \cup {item.s}
            BY <5>1, <5>2
          <6>2. walk'[w].todo = todo[w]
            BY <4>2, <6>1
          <6>3. /\ walk'[w].cur = walk[w].cur /\ walk'[w].visited = walk[w].visited
                /\ walk'[w].start = walk[w].start
            BY <4>2, <6>1
          <6> QED BY <4>4, <6>1, <6>2, <6>3
        <5>3. CASE ~Walking(w)
          BY <4>1, <4>4, <5>1, <5>3
        <5> QED BY <5>2, <5>3
      <4> QED BY <1>5, <2>3, <4>3, <4>4 DEF Lookup
    <3>3. buckets' >= Reserved /\ schedPc' = schedPc /\ logPc' = logPc
      <4>1. schedPc' = schedPc /\ logPc' = logPc
        BY <1>5 DEF Lookup, ProcessorOnly
      <4>2. InsertKey(item.s) \/ InsertKeyRehash(item.s)
        BY <1>5, <2>3 DEF Lookup
      <4>3. buckets' = buckets \/ buckets' = 2 * buckets + 1
        BY <4>2 DEF InsertKey, InsertKeyRehash
      <4>4. buckets >= Reserved /\ buckets \in Nat /\ Reserved \in Nat
        BY <1>1 DEF WalkInv
      <4> QED BY <4>1, <4>3, <4>4
    <3>4. Cur' = Cur /\ LogCur' = LogCur /\ \A w \in Walkers : Met(w)' = Met(w)
      BY <1>1, <3>2 DEF Cur, LogCur, Met
    <3>5. Fits' => Fits /\ InsertKey(item.s)
      BY <1>1, <1>5, <2>3, <3>1 DEF Fits, Lookup, WalkInv
    <3>6. ASSUME NEW w \in Walkers
          PROVE  walk'[w].todo \cup Met(w)' \subseteq known' /\ ExactOf(w)'
      <4>1. walk'[w].todo \cup Met(w)' \subseteq known'
        BY <2>1, <3>2, <3>4 DEF WalkInv
      <4>2. ASSUME Fits'
            PROVE  /\ walk'[w].start \subseteq Met(w)' \cup walk'[w].todo
                   /\ Met(w)' \cap walk'[w].todo = {}
        BY <2>3, <3>2, <3>4, <3>5, <4>2 DEF WalkInv, ExactOf
      <4> QED BY <4>1, <4>2 DEF ExactOf
    <3> QED BY <3>3, <3>4, <3>6 DEF WalkInv
  <2> QED BY <2>2, <2>3
<1>6. ASSUME NEW w \in Walkers, WalkFrom(w), UNCHANGED mapVars
      PROVE  /\ walk'[w].cur = Null /\ \A v \in Walkers : v # w => walk'[v] = walk[v]
             /\ walk'[w].todo \cup Met(w)' \subseteq known'
             /\ ExactOf(w)'
  BY <1>1, <1>6 DEF WalkFrom, NoWalk, Met, ExactOf
<1>7. ASSUME NEW w \in Walkers, NEW s \in Symbols, WalkTo(w, s), walk[w].cur = Null,
             UNCHANGED mapVars
      PROVE  /\ \A v \in Walkers : v # w => walk'[v] = walk[v]
             /\ walk'[w].todo \cup Met(w)' \subseteq known'
             /\ ExactOf(w)'
  <2>1. walk'[w] = [walk[w] EXCEPT !.todo = walk[w].todo \ {s}, !.cur = s]
    BY <1>1, <1>7 DEF WalkTo
  <2>2. /\ walk'[w].todo = walk[w].todo \ {s} /\ walk'[w].start = walk[w].start
        /\ Met(w)' = Met(w) \cup {s} /\ s \in walk[w].todo
    BY <1>1, <1>7, <2>1 DEF Met, Walks, WalkTo
  <2> QED BY <1>1, <1>7, <2>2 DEF WalkInv, WalkTo, ExactOf, Fits, mapVars
<1>8. ASSUME NEW w \in Walkers, WalkVisited(w), walk[w].cur \in Symbols, UNCHANGED mapVars
      PROVE  /\ walk'[w].cur = Null /\ \A v \in Walkers : v # w => walk'[v] = walk[v]
             /\ walk'[w].todo \cup Met(w)' \subseteq known'
             /\ ExactOf(w)'
  <2>1. walk'[w] = [walk[w] EXCEPT !.visited = walk[w].visited \cup {walk[w].cur}, !.cur = Null]
    BY <1>1, <1>8 DEF WalkVisited
  <2>2. /\ walk'[w].todo = walk[w].todo /\ walk'[w].start = walk[w].start
        /\ Met(w)' = Met(w) /\ walk'[w].cur = Null
    BY <1>1, <1>8, <2>1 DEF Met, Walks
  <2> QED BY <1>1, <1>8, <2>2 DEF WalkInv, WalkVisited, ExactOf, Fits, mapVars
<1>9. ASSUME NEW w \in Walkers, walk' = [walk EXCEPT ![w] = NoWalk], UNCHANGED mapVars
      PROVE  /\ walk'[w].cur = Null /\ \A v \in Walkers : v # w => walk'[v] = walk[v]
             /\ walk'[w].todo \cup Met(w)' \subseteq known'
             /\ ExactOf(w)'
  BY <1>1, <1>9 DEF NoWalk, Met, ExactOf
<1>10. CASE SchedTick
  BY <1>1, <1>6, <1>10 DEF WalkInv, SchedTick, SchedulerOnly, Cur, LogCur, Met, ExactOf, Fits
<1>11. CASE SchedStop \/ ProcessEntry \/ NextCalc \/ RaceCrash \/ LogStop
  BY <1>2, <1>11 DEF SchedStop, ProcessEntry, NextCalc, RaceCrash, LogStop, SchedulerOnly, LoggerOnly
<1>12. ASSUME NEW s \in Symbols, SchedLock(s) PROVE WalkInv'
  <2>1. walk["scheduler"].cur = Null
    BY <1>12 DEF WalkInv, SchedLock, Cur
  <2> QED BY <1>1, <1>7, <1>12, <2>1 DEF WalkInv, SchedLock, SchedulerOnly, LogCur, Met, ExactOf, Fits
<1>13. CASE SchedUnlock
  <2>1. walk["scheduler"].cur \in Symbols
    BY <1>13 DEF LockInv, SchedUnlock, Cur
  <2> QED BY <1>1, <1>8, <1>13, <2>1 DEF WalkInv, SchedUnlock, SchedulerOnly, Cur, LogCur, Met, ExactOf, Fits
<1>14. CASE SchedDone
  <2>1. walk' = [walk EXCEPT !["scheduler"] = NoWalk] /\ UNCHANGED <<mapVars, logPc>>
    BY <1>14 DEF SchedDone, SchedulerOnly
  <2>2. /\ walk'["scheduler"].cur = Null /\ walk'["logger"] = walk["logger"]
        /\ walk'["scheduler"].todo \cup Met("scheduler")' \subseteq known'
        /\ ExactOf("scheduler")'
    BY <1>1, <1>9, <2>1
  <2>3. /\ Met("logger")' = Met("logger") /\ known' = known /\ buckets' = buckets
        /\ ExactOf("logger") => ExactOf("logger")'
    BY <2>1, <2>2 DEF Met, ExactOf, Fits
  <2> QED BY <1>1, <2>1, <2>2, <2>3 DEF WalkInv, Cur, LogCur
<1>15. CASE LogTick
  BY <1>1, <1>6, <1>15 DEF WalkInv, LogTick, LoggerOnly, Cur, LogCur, Met, ExactOf, Fits
<1>16. ASSUME NEW s \in Symbols, LogLock(s) PROVE WalkInv'
  <2>1. walk["logger"].cur = Null
    BY <1>16 DEF WalkInv, LogLock, LogCur
  <2> QED BY <1>1, <1>7, <1>16, <2>1 DEF WalkInv, LogLock, LoggerOnly, Cur, Met, ExactOf, Fits
<1>17. CASE LogCopy
  <2>1. walk["logger"].cur \in Symbols
    BY <1>17 DEF LockInv, LogCopy, LogCur
  <2> QED BY <1>1, <1>8, <1>17, <2>1 DEF WalkInv, LogCopy, LoggerOnly, Cur, LogCur, Met, ExactOf, Fits
<1>18. CASE LogDone
  <2>1. walk' = [walk EXCEPT !["logger"] = NoWalk] /\ UNCHANGED <<mapVars, schedPc>>
    BY <1>18 DEF LogDone, LoggerOnly
  <2>2. /\ walk'["logger"].cur = Null /\ walk'["scheduler"] = walk["scheduler"]
        /\ walk'["logger"].todo \cup Met("logger")' \subseteq known'
        /\ ExactOf("logger")'
    BY <1>1, <1>9, <2>1
  <2>3. /\ Met("scheduler")' = Met("scheduler") /\ known' = known /\ buckets' = buckets
        /\ ExactOf("scheduler") => ExactOf("scheduler")'
    BY <2>1, <2>2 DEF Met, ExactOf, Fits
  <2> QED BY <1>1, <2>1, <2>2, <2>3 DEF WalkInv, Cur, LogCur
<1>19. CASE UNCHANGED vars
  BY <1>2, <1>19 DEF vars
<1> QED
  BY <1>3, <1>4, <1>5, <1>10, <1>11, <1>12, <1>13, <1>14, <1>15, <1>16, <1>17, <1>18, <1>19
  DEF Next, Processor, Scheduler, Logger

(* As long as the map holds no more keys than were reserved, each          *)
(* traversal meets every key it started with, and none twice, whatever the *)
(* processor inserts meanwhile.                                            *)
THEOREM TraversalsAreExact == Spec => []TraversalExact
<1>1. Init => WalkInv
  BY ConstantsOK DEF Init, WalkInv, ExactOf, InitialBuckets, Met, Cur, LogCur, NoWalk, Walkers
<1>2. WalkInv => TraversalExact
  BY DEF WalkInv, ExactOf, Fits, TraversalExact
<1> QED BY <1>1, <1>2, WalkStep, TypeCorrect, PTL DEF Spec

-----------------------------------------------------------------------------
(* What a computation covers.  While nothing has been erased since the     *)
(* lock was taken, the calculator at work has folded over the entries      *)
(* before its iterator, or at least looked at the ends of the deque, and   *)
(* those after it over none.                                               *)
First == base[1] + 1
Last  == Len(pushed[Cur])

AtWork ==
  LET f == features[Cur][calc]
  IN  \/ f = Zero /\ it <= IF CalcTypes[calc] = "TickImbalanceCalc" THEN First + 1 ELSE First
      \/ it > First /\ f[1] = First /\ f[2] \in it - 1 .. Last

CoverInv ==
  schedPc = "calc" =>
    /\ base[1] <= erased[Cur] /\ base[1] <= base[2] /\ base[2] <= Last
    /\ erased[Cur] = base[1] =>
         /\ it \in First .. Last + 1
         /\ AtWork
         /\ \A c \in Calcs : c > calc => features[Cur][c] = Zero

(* The deques change at their ends only.                                   *)
LEMMA DequesGrow ==
  ASSUME TypeOK, [Next]_vars, NEW s \in Symbols
  PROVE  /\ erased[s] \in Nat /\ erased'[s] \in Nat /\ erased[s] <= erased'[s]
         /\ Len(pushed[s]) \in Nat /\ Len(pushed'[s]) \in Nat /\ Len(pushed[s]) <= Len(pushed'[s])
<1> USE DEF queueVars, procVars, mapVars, deques, states, loopVars
<1>1. /\ erased \in [Symbols -> Nat] /\ pushed \in [Symbols -> Seq(Trades)]
      /\ erased[s] \in Nat /\ pushed[s] \in Seq(Trades) /\ Len(pushed[s]) \in Nat
  BY DEF TypeOK
<1>2. CASE Push
  <2>1. item.s \in Symbols /\ [id |-> item.id, t |-> item.t] \in Trades
    BY <1>2 DEF TypeOK, Push, Items, Trades
  <2>2. pushed' = [pushed EXCEPT ![item.s] = Append(@, [id |-> item.id, t |-> item.t])]
    BY <1>2 DEF Push, PushBack
  <2>3. Len(pushed'[s]) = Len(pushed[s]) \/ Len(pushed'[s]) = Len(pushed[s]) + 1
    BY <1>1, <2>1, <2>2
  <2>4. erased' = erased
    BY <1>2 DEF Push
  <2> QED BY <1>1, <2>3, <2>4
<1>3. CASE PopFront
  <2>1. erased' = [erased EXCEPT ![item.s] = @ + 1] /\ pushed' = pushed
    BY <1>3 DEF PopFront
  <2> QED BY <1>1, <2>1
<1>4. CASE UNCHANGED deques
  BY <1>1, <1>4
<1>5. Push \/ PopFront \/ UNCHANGED deques
  <2>1. CASE Tick \/ RequestStop \/ RaceCrash \/ UNCHANGED vars
             \/ \E r \in Symbols, t \in Times : Enqueue(r, t)
    BY <2>1 DEF Tick, RequestStop, Enqueue, EnvironmentOnly, RaceCrash, vars
  <2>2. CASE Processor
    BY <2>2 DEF Processor, Dequeue, Lookup, EvictDone, ProcStop, ProcessorOnly
  <2>3. CASE Scheduler
    BY <2>3 DEF Scheduler, SchedTick, SchedStop, SchedLock, ProcessEntry, NextCalc, SchedUnlock,
                SchedDone, SchedulerOnly
  <2>4. CASE Logger
    BY <2>4 DEF Logger, LogTick, LogStop, LogLock, LogCopy, LogDone, LoggerOnly
  <2> QED BY <2>1, <2>2, <2>3, <2>4 DEF Next
<1> QED BY <1>2, <1>3, <1>4, <1>5

(* Only the scheduler's own steps change what it computes.                 *)
LEMMA ComputationKept ==
  ASSUME TypeOK, [Next]_vars, ~Scheduler
  PROVE  UNCHANGED <<schedPc, features, loopVars>> /\ Cur' = Cur
<1> USE DEF queueVars, procVars, mapVars, deques, states, loopVars
<1>1. walk \in [Walkers -> Walks]
  BY DEF TypeOK
<1>2. CASE Tick \/ RequestStop \/ RaceCrash \/ UNCHANGED vars
           \/ \E s \in Symbols, t \in Times : Enqueue(s, t)
  BY <1>2 DEF Tick, RequestStop, Enqueue, EnvironmentOnly, RaceCrash, vars, Cur
<1>3. CASE Dequeue \/ Push \/ PopFront \/ EvictDone \/ ProcStop
  BY <1>3 DEF Dequeue, Push, PopFront, EvictDone, ProcStop, ProcessorOnly, Cur
<1>4. CASE Lookup
  <2>1. \A w \in Walkers : walk'[w].cur = walk[w].cur
    <3>1. ASSUME NEW w \in Walkers, NEW S PROVE [walk[w] EXCEPT !.todo = S].cur = walk[w].cur
      BY <1>1 DEF Walks
    <3>2. CASE InsertKey(item.s)
      BY <3>1, <3>2 DEF InsertKey
    <3>3. CASE InsertKeyRehash(item.s)
      BY <3>1, <3>3 DEF InsertKeyRehash
    <3> QED BY <1>4, <3>2, <3>3 DEF Lookup
  <2> QED BY <1>4, <2>1 DEF Lookup, ProcessorOnly, Cur, Walkers
<1>5. CASE Logger
  <2>1. walk'["scheduler"] = walk["scheduler"]
    BY <1>1, <1>5 DEF Logger, LogTick, LogStop, LogLock, LogCopy, LogDone, LoggerOnly,
                      WalkFrom, WalkTo, WalkVisited, Walkers
  <2> QED
    BY <1>5, <2>1 DEF Logger, LogTick, LogStop, LogLock, LogCopy, LogDone, LoggerOnly, Cur
<1> QED BY <1>2, <1>3, <1>4, <1>5 DEF Next, Processor

(* What one call of processEntry makes of a feature while nothing has been *)
(* erased.                                                                 *)
LEMMA ProcessedCovers ==
  ASSUME TypeOK, CoverInv, schedPc = "calc", Cur \in Symbols, erased[Cur] = base[1],
         it < End(Cur),
         NEW f, f = Processed(CalcTypes[calc], features[Cur][calc], Cur, it)
  PROVE  \/ f = Zero /\ it + 1 <= IF CalcTypes[calc] = "TickImbalanceCalc" THEN First + 1 ELSE First
         \/ f[1] = First /\ f[2] \in it .. Last
<1> DEFINE g == features[Cur][calc]
           c == CalcTypes[calc]
<1>1. /\ base[1] \in Nat /\ Last \in Nat /\ it \in Nat /\ it \in First .. Last
      /\ Begin(Cur) = First /\ First \in Nat \ {0} /\ Len(pushed[Cur]) = Last
  BY DEF TypeOK, CoverInv, End, Begin, First, Last
<1>2. \/ g = Zero /\ it <= IF c = "TickImbalanceCalc" THEN First + 1 ELSE First
      \/ it > First /\ g[1] = First /\ g[2] \in it - 1 .. Last
  BY DEF CoverInv, AtWork
<1>3. CASE c = "TradespersecCalc"
  <2>1. f = <<First, Last>>
    BY <1>1, <1>3 DEF Processed, End
  <2> QED BY <1>1, <2>1
<1>4. CASE c = "TickImbalanceCalc" /\ it = First
  <2>1. f = g
    BY <1>1, <1>4 DEF Processed
  <2> QED BY <1>1, <1>2, <1>4, <2>1
<1>5. CASE c # "TradespersecCalc" /\ ~(c = "TickImbalanceCalc" /\ it = First)
  <2>1. g # Garbage /\ ~(it < Begin(Cur))
    BY <1>1, <1>2 DEF Garbage, Zero
  <2>2. f = <<IF g # Zero THEN g[1] ELSE IF c = "TickImbalanceCalc" THEN it - 1 ELSE it, it>>
    BY <1>1, <1>5, <2>1 DEF Processed
  <2>3. (IF g # Zero THEN g[1] ELSE IF c = "TickImbalanceCalc" THEN it - 1 ELSE it) = First
    <3>1. CASE g = Zero
      <4>1. g[1] # First
        BY <1>1, <3>1 DEF Zero
      <4> QED BY <1>1, <1>2, <1>5, <3>1, <4>1
    <3>2. CASE g # Zero
      BY <1>2, <3>2
    <3> QED BY <3>1, <3>2
  <2> QED BY <1>1, <2>2, <2>3
<1> QED BY <1>3, <1>4, <1>5

LEMMA CoverStep ==
  TypeOK /\ LockInv /\ CoverInv /\ CoverageSound /\ [Next]_vars => CoverInv' /\ CoverageSound'
<1> SUFFICES ASSUME TypeOK, LockInv, CoverInv, CoverageSound, [Next]_vars
             PROVE  CoverInv' /\ CoverageSound'
  OBVIOUS
<1> USE ConstantsOK
<1>0. /\ calc \in Nat \ {0} /\ Len(CalcTypes) \in Nat /\ calc <= Len(CalcTypes) /\ it \in Nat
      /\ features \in [Symbols -> [Calcs -> Coverage]] /\ walk \in [Walkers -> Walks]
      /\ base[1] \in Nat /\ base[2] \in Nat
  BY DEF TypeOK, Calcs
<1>1. CASE ~Scheduler
  <2> SUFFICES ASSUME schedPc = "calc" PROVE CoverInv' /\ CoverageSound'
    BY <1>1, ComputationKept DEF CoverInv, CoverageSound
  <2>1. UNCHANGED <<schedPc, features, calc, it, base>> /\ Cur' = Cur /\ First' = First
    BY <1>1, ComputationKept DEF loopVars, First
  <2>2. Cur \in Symbols
    BY DEF LockInv
  <2>3. /\ erased[Cur] \in Nat /\ erased'[Cur] \in Nat /\ erased[Cur] <= erased'[Cur]
        /\ Last \in Nat /\ Last' \in Nat /\ Last <= Last'
    BY <2>1, <2>2, DequesGrow DEF Last
  <2>4. erased'[Cur] = base[1] => erased[Cur] = base[1]
    BY <1>0, <2>3 DEF CoverInv
  <2>5. AtWork => AtWork'
    BY <1>0, <2>1, <2>3 DEF AtWork, First
  <2>6. CoverInv'
    BY <1>0, <2>1, <2>3, <2>4, <2>5 DEF CoverInv, First
  <2>7. CoverageSound'
    <3>1. CoverageSound
      BY <1>0
    <3>2. UNCHANGED <<features, calc, base>> /\ Cur' = Cur
      BY <2>1
    <3>3. \A i : i \in base[2] .. Last => i \in base[2] .. Last'
      BY <1>0, <2>3
    <3>4. schedPc' = "calc" => schedPc = "calc"
      BY <2>1
    <3> QED BY <2>4, <3>1, <3>2, <3>3, <3>4, Zenon DEF CoverageSound, Last
  <2> QED BY <2>6, <2>7
<1>2. CASE SchedTick \/ SchedStop \/ SchedDone \/ SchedUnlock
  BY <1>2 DEF SchedTick, SchedStop, SchedDone, SchedUnlock, CoverInv, CoverageSound
<1>3. ASSUME NEW s \in Symbols, SchedLock(s) PROVE CoverInv' /\ CoverageSound'
  <2>1. /\ Cur' = s /\ calc' = 1 /\ it' = erased[s] + 1 /\ base' = <<erased[s], Len(pushed[s])>>
        /\ features'[s] = [c \in Calcs |-> Zero]
        /\ pushed' = pushed /\ erased' = erased
    BY <1>0, <1>3 DEF SchedLock, WalkTo, Cur, Walks, Walkers, SchedulerOnly, deques, Begin
  <2>2. erased[s] \in Nat /\ Len(pushed[s]) \in Nat /\ erased[s] <= Len(pushed[s])
    BY DEF TypeOK
  <2>3. First' = it' /\ Last' = Len(pushed[s]) /\ features'[s][calc'] = Zero
    BY <1>0, <2>1 DEF First, Last, Calcs
  <2>4. AtWork'
    BY <2>1, <2>2, <2>3 DEF AtWork
  <2>5. CoverInv'
    BY <2>1, <2>2, <2>3, <2>4 DEF CoverInv
  <2>6. CoverageSound'
    BY <2>1 DEF CoverageSound
  <2> QED BY <2>5, <2>6
<1>4. CASE ProcessEntry
  <2>1. /\ schedPc = "calc" /\ Cur \in Symbols /\ it < End(Cur) /\ it' = it + 1 /\ schedPc' = "calc"
        /\ UNCHANGED <<calc, base, pushed, erased>> /\ Cur' = Cur /\ First' = First /\ Last' = Last
    BY <1>4 DEF LockInv, ProcessEntry, SchedulerOnly, deques, Cur, First, Last
  <2>2. /\ features'[Cur][calc] = Processed(CalcTypes[calc], features[Cur][calc], Cur, it)
        /\ \A c \in Calcs : c # calc => features'[Cur][c] = features[Cur][c]
    BY <1>0, <1>4, <2>1 DEF ProcessEntry, Calcs
  <2>3. CoverInv'
    <3> SUFFICES ASSUME erased[Cur] = base[1]
                 PROVE  it' \in First .. Last + 1 /\ AtWork'
                        /\ \A c \in Calcs : c > calc => features'[Cur][c] = Zero
      BY <2>1 DEF CoverInv
    <3>1. Last \in Nat /\ First \in Nat /\ it \in First .. Last
      BY <1>0, <2>1 DEF CoverInv, End, First, Last, TypeOK
    <3>2. AtWork'
      BY <2>1, <2>2, <3>1, ProcessedCovers DEF AtWork
    <3>3. \A c \in Calcs : c > calc => features'[Cur][c] = Zero
      BY <1>0, <2>1, <2>2 DEF CoverInv, Calcs
    <3> QED BY <2>1, <3>1, <3>2, <3>3
  <2>4. CoverageSound'
    <3>1. \A c \in 1 .. calc - 1 : c \in Calcs /\ c # calc
      BY <1>0 DEF Calcs
    <3>2. \A c \in 1 .. calc - 1 : features'[Cur][c] = features[Cur][c]
      BY <2>2, <3>1
    <3>3. \A c \in 1 .. calc - 1 : \A d \in 1 .. c : d \in 1 .. calc - 1
      BY <1>0
    <3> QED BY <2>1, <3>2, <3>3 DEF CoverageSound
  <2> QED BY <2>3, <2>4
<1>5. CASE NextCalc
  <2>1. /\ schedPc = "calc" /\ Cur \in Symbols /\ it = Last + 1 /\ schedPc' = "calc"
        /\ calc' = calc + 1 /\ calc' \in Calcs /\ it' = erased[Cur] + 1
        /\ UNCHANGED <<base, pushed, erased, features>> /\ Cur' = Cur /\ First' = First /\ Last' = Last
    BY <1>0, <1>5 DEF LockInv, NextCalc, SchedulerOnly, deques, states, Cur, First, Last, End,
                      FirstEntry, Begin, Calcs
  <2>2. Last \in Nat /\ First \in Nat \ {0}
    BY <1>0, <2>1 DEF TypeOK, First, Last
  <2>3. ASSUME erased[Cur] = base[1]
        PROVE  \/ features[Cur][calc] = Zero /\ base[2] - base[1] < 2
               \/ features[Cur][calc][1] = First /\ features[Cur][calc][2] = Last
    BY <1>0, <2>1, <2>2, <2>3 DEF CoverInv, AtWork, First
  <2>4. CoverInv'
    BY <1>0, <2>1, <2>2 DEF CoverInv, AtWork, First, Calcs
  <2>5. CoverageSound'
    <3> SUFFICES ASSUME erased[Cur] = base[1] PROVE CoverageSound'
      BY <2>1 DEF CoverageSound
    <3>1. base[2] \in Nat /\ base[2] <= Last /\ Last = Len(pushed[Cur])
      BY <1>0, <2>1 DEF CoverInv, Last
    <3> DEFINE few(c) == features[Cur][c] = Zero /\ base[2] - base[1] < 2
               covered(c) == few(c) \/ /\ features[Cur][c][1] = First
                                       /\ features[Cur][c][2] \in base[2] .. Last
    <3>2. \A c \in 1 .. calc : covered(c)
      <4>1. covered(calc)
        BY <2>2, <2>3, <3>1
      <4>2. \A c \in 1 .. calc - 1 : covered(c)
        BY <2>1, <3>1 DEF CoverageSound, First
      <4>3. \A c \in 1 .. calc : c = calc \/ c \in 1 .. calc - 1
        BY <1>0
      <4> QED BY <4>1, <4>2, <4>3
    <3>3. \A c \in 1 .. calc : \A d \in 1 .. c :
            few(c) \/ few(d) \/ features[Cur][d][2] <= features[Cur][c][2]
      <4> SUFFICES ASSUME NEW c \in 1 .. calc, NEW d \in 1 .. c
                   PROVE  few(c) \/ few(d) \/ features[Cur][d][2] <= features[Cur][c][2]
        OBVIOUS
      <4>1. CASE c \in 1 .. calc - 1
        BY <2>1, <4>1 DEF CoverageSound
      <4>2. CASE c = calc
        <5>1. few(c) \/ features[Cur][c][2] = Last
          BY <2>3, <4>2
        <5>2. d \in 1 .. calc
          BY <1>0, <4>2
        <5>3. few(d) \/ features[Cur][d][2] \in base[2] .. Last
          BY <3>2, <5>2
        <5> QED BY <2>2, <3>1, <5>1, <5>3
      <4> QED BY <1>0, <4>1, <4>2
    <3>4. calc' - 1 = calc
      BY <1>0, <2>1
    <3> QED BY <2>1, <3>1, <3>2, <3>3, <3>4 DEF CoverageSound, First, Last
  <2> QED BY <2>4, <2>5
<1> QED BY <1>1, <1>2, <1>3, <1>4, <1>5 DEF Scheduler

(* A computation in whose course nothing is evicted covers the window it   *)
(* found, although trades are pushed behind its iterator without a lock;   *)
(* what a later calculator covers ends no earlier.                         *)
THEOREM ComputationsCover == Spec => []CoverageSound
<1>1. Init => CoverInv /\ CoverageSound
  BY DEF Init, CoverInv, CoverageSound
<1> QED BY <1>1, CoverStep, TypeCorrect, PTL DEF Spec

-----------------------------------------------------------------------------
(* The way of a trade from the queue into the window of its symbol and out *)
(* of it, and TradePipeline, the specification of that way which the       *)
(* stream processor implements.                                            *)

(* The trades of the queue are younger than the one the processor holds,   *)
(* which is younger than all it pushed.                                    *)
QueueInv ==
  /\ \A i \in 1 .. Len(q) : q[i].id <= enqueued
  /\ \A i, j \in 1 .. Len(q) : i < j => q[i].id < q[j].id
  /\ InHand => item.id <= enqueued /\ \A i \in 1 .. Len(q) : item.id < q[i].id
  /\ \A s \in Symbols : \A k \in 1 .. Len(pushed[s]) :
       /\ pushed[s][k].id <= enqueued
       /\ InHand => pushed[s][k].id < item.id
       /\ \A i \in 1 .. Len(q) : pushed[s][k].id < q[i].id

CutoffInv == procPc = "evict" => cutoff + Window <= clock

(* The steps that move no trade.                                           *)
NoTransfer ==
  /\ UNCHANGED <<q, enqueued, item, pushed>>
  /\ InHand' <=> InHand

(* What the three steps that move a trade do, field by field.              *)
Received ==
  /\ enqueued \in Nat /\ enqueued' = enqueued + 1
  /\ Len(q) \in Nat /\ Len(q') = Len(q) + 1
  /\ \A i \in 1 .. Len(q) : q'[i] = q[i]
  /\ q'[Len(q')].id = enqueued'
  /\ item' = item /\ pushed' = pushed /\ (InHand' <=> InHand)

Taken ==
  /\ Len(q) \in Nat /\ Len(q) > 0 /\ Len(q') = Len(q) - 1
  /\ \A i \in 1 .. Len(q') : q'[i] = q[i + 1]
  /\ item' = q[1] /\ pushed' = pushed /\ enqueued' = enqueued /\ ~InHand /\ InHand'

Stored ==
  /\ item.s \in Symbols /\ q' = q /\ enqueued' = enqueued /\ item' = item /\ InHand /\ ~InHand'
  /\ \A s \in Symbols : s # item.s => pushed'[s] = pushed[s]
  /\ Len(pushed[item.s]) \in Nat
  /\ Len(pushed'[item.s]) = Len(pushed[item.s]) + 1
  /\ \A i \in 1 .. Len(pushed[item.s]) : pushed'[item.s][i] = pushed[item.s][i]
  /\ pushed'[item.s][Len(pushed'[item.s])].id = item.id

LEMMA StepTransfers ==
  ASSUME TypeOK, [Next]_vars PROVE NoTransfer \/ Received \/ Taken \/ Stored
<1> USE DEF queueVars, procVars, mapVars, deques, states, loopVars
<1>1. CASE Tick \/ RequestStop
  BY <1>1 DEF Tick, RequestStop, EnvironmentOnly, NoTransfer, InHand
<1>2. CASE Lookup \/ PopFront \/ EvictDone \/ ProcStop
  BY <1>2 DEF Lookup, PopFront, EvictDone, ProcStop, ProcessorOnly, NoTransfer, InHand
<1>3. CASE Scheduler
  BY <1>3 DEF Scheduler, SchedTick, SchedStop, SchedLock, ProcessEntry, NextCalc, SchedUnlock,
              SchedDone, SchedulerOnly, NoTransfer, InHand
<1>4. CASE RaceCrash \/ UNCHANGED vars
  BY <1>4 DEF RaceCrash, vars, NoTransfer, InHand
<1>5. CASE Logger
  BY <1>5 DEF Logger, LogTick, LogStop, LogLock, LogCopy, LogDone, LoggerOnly, NoTransfer, InHand
<1>6. ASSUME NEW s \in Symbols, NEW t \in Times, Enqueue(s, t) PROVE Received
  <2>1. q \in Seq(Items) /\ enqueued \in Nat
    BY ConstantsOK DEF TypeOK
  <2>2. /\ enqueued' = enqueued + 1 /\ q' = Append(q, [id |-> enqueued + 1, s |-> s, t |-> t])
        /\ item' = item /\ pushed' = pushed /\ (InHand' <=> InHand)
    BY <1>6 DEF Enqueue, EnvironmentOnly, InHand
  <2> QED BY <2>1, <2>2 DEF Received
<1>7. CASE Dequeue
  <2>1. q \in Seq(Items) /\ q # << >>
    BY <1>7 DEF TypeOK, Dequeue
  <2>2. /\ item' = Head(q) /\ q' = Tail(q) /\ pushed' = pushed /\ enqueued' = enqueued
        /\ ~InHand /\ InHand'
    BY <1>7 DEF Dequeue, ProcessorOnly, InHand
  <2> QED BY <2>1, <2>2 DEF Taken
<1>8. CASE Push
  <2>1. item \in Items /\ item.s \in Symbols /\ pushed \in [Symbols -> Seq(Trades)]
    BY <1>8 DEF TypeOK, Push, Items
  <2>2. /\ pushed' = [pushed EXCEPT ![item.s] = Append(@, [id |-> item.id, t |-> item.t])]
        /\ q' = q /\ enqueued' = enqueued /\ item' = item /\ InHand /\ ~InHand'
    BY <1>8 DEF Push, PushBack, ProcessorOnly, InHand
  <2> QED BY <2>1, <2>2 DEF Stored
<1> QED BY <1>1, <1>2, <1>3, <1>4, <1>5, <1>6, <1>7, <1>8 DEF Next, Processor

-----------------------------------------------------------------------------
(* No trade is lost between the message handler and the window.            *)
THEOREM NoTradeIsLost == Spec => []NoTradeLost
<1>1. Init => NoTradeLost
  BY DEF Init, NoTradeLost
<1>2. TypeOK /\ NoTradeLost /\ [Next]_vars => NoTradeLost'
  <2> SUFFICES ASSUME TypeOK, NoTradeLost, [Next]_vars, NEW id \in 1 .. enqueued'
               PROVE  \/ \E i \in 1 .. Len(q') : q'[i].id = id
                      \/ InHand' /\ item'.id = id
                      \/ \E s \in Symbols : \E i \in 1 .. Len(pushed'[s]) : pushed'[s][i].id = id
    BY DEF NoTradeLost
  <2>1. CASE NoTransfer
    BY <2>1 DEF NoTradeLost, NoTransfer
  <2>2. CASE Received
    <3>1. CASE id = enqueued'
      BY <2>2, <3>1 DEF Received
    <3>2. CASE id # enqueued'
      <4>1. id \in 1 .. enqueued
        BY <2>2, <3>2 DEF Received
      <4>2. ASSUME NEW i \in 1 .. Len(q), q[i].id = id
            PROVE  i \in 1 .. Len(q') /\ q'[i].id = id
        BY <2>2, <4>2 DEF Received
      <4>3. item' = item /\ pushed' = pushed /\ (InHand' <=> InHand)
        BY <2>2 DEF Received
      <4> QED BY <4>1, <4>2, <4>3 DEF NoTradeLost
    <3> QED BY <3>1, <3>2
  <2>3. CASE Taken
    <3>1. id \in 1 .. enqueued
      BY <2>3 DEF Taken
    <3>2. ASSUME NEW i \in 1 .. Len(q), q[i].id = id
          PROVE  item'.id = id \/ (i - 1 \in 1 .. Len(q') /\ q'[i - 1].id = id)
      <4>1. CASE i = 1
        <5>1. item' = q[1]
          BY <2>3 DEF Taken
        <5> QED BY <3>2, <4>1, <5>1
      <4>2. CASE i # 1
        <5>1. i - 1 \in 1 .. Len(q') /\ (i - 1) + 1 = i
          BY <2>3, <3>2, <4>2 DEF Taken
        <5>2. q'[i - 1] = q[(i - 1) + 1]
          BY <2>3, <5>1 DEF Taken
        <5> QED BY <3>2, <5>1, <5>2
      <4> QED BY <4>1, <4>2
    <3>3. pushed' = pushed /\ ~InHand /\ InHand'
      BY <2>3 DEF Taken
    <3> QED BY <3>1, <3>2, <3>3 DEF NoTradeLost
  <2>4. CASE Stored
    <3>1. id \in 1 .. enqueued /\ q' = q
      BY <2>4 DEF Stored
    <3>2. CASE item.id = id
      BY <2>4, <3>2 DEF Stored
    <3>3. ASSUME NEW s \in Symbols, NEW i \in 1 .. Len(pushed[s]), pushed[s][i].id = id
          PROVE  i \in 1 .. Len(pushed'[s]) /\ pushed'[s][i].id = id
      <4>1. CASE s = item.s
        BY <2>4, <3>3, <4>1 DEF Stored
      <4>2. CASE s # item.s
        BY <2>4, <3>3, <4>2 DEF Stored
      <4> QED BY <4>1, <4>2
    <3> QED BY <3>1, <3>2, <3>3 DEF NoTradeLost
  <2> QED BY <2>1, <2>2, <2>3, <2>4, StepTransfers
<1> QED BY <1>1, <1>2, TypeCorrect, PTL DEF Spec

-----------------------------------------------------------------------------
(* The order of receipt, which Calc.hpp takes for granted, is the order of *)
(* the window of every symbol, and a trade is in one window only.          *)
LEMMA OrderStep ==
  TypeOK /\ QueueInv /\ ReceiptOrder /\ [Next]_vars => QueueInv' /\ ReceiptOrder'
<1> SUFFICES ASSUME TypeOK, QueueInv, ReceiptOrder, [Next]_vars
             PROVE  QueueInv' /\ ReceiptOrder'
  OBVIOUS
<1>0. /\ \A s \in Symbols : Len(pushed[s]) \in Nat
      /\ \A s \in Symbols : \A k \in 1 .. Len(pushed[s]) : pushed[s][k].id \in Nat
      /\ \A i \in 1 .. Len(q) : q[i].id \in Nat
      /\ enqueued \in Nat /\ (InHand => item.id \in Nat)
  <2>1. enqueued \in Nat
    BY ConstantsOK DEF TypeOK
  <2>2. \A i \in 1 .. Len(q) : q[i].id \in Nat
    <3>1. q \in Seq(Items)
      BY DEF TypeOK
    <3>2. \A i \in 1 .. Len(q) : q[i] \in Items
      BY <3>1
    <3> QED BY <3>2 DEF Items
  <2>3. \A s \in Symbols : pushed[s] \in Seq(Trades)
    BY DEF TypeOK
  <2>4. InHand => item.id \in Nat
    BY DEF TypeOK, Items, InHand
  <2>5. \A s \in Symbols : Len(pushed[s]) \in Nat
    BY <2>3
  <2>6. \A s \in Symbols : \A k \in 1 .. Len(pushed[s]) : pushed[s][k] \in Trades
    BY <2>3
  <2>7. \A s \in Symbols : \A k \in 1 .. Len(pushed[s]) : pushed[s][k].id \in Nat
    BY <2>6 DEF Trades
  <2> QED BY <2>1, <2>2, <2>4, <2>5, <2>7
<1>1. CASE NoTransfer
  BY <1>1 DEF QueueInv, ReceiptOrder, NoTransfer
<1>2. CASE Received
  <2>1. ReceiptOrder'
    <3>1. pushed' = pushed
      BY <1>2 DEF Received
    <3> QED BY <3>1 DEF ReceiptOrder
  <2>2. ASSUME NEW i \in 1 .. Len(q')
        PROVE  \/ i = Len(q') /\ q'[i].id = enqueued'
               \/ i \in 1 .. Len(q) /\ q'[i] = q[i]
    <3>1. CASE i = Len(q')
      <4>1. q'[Len(q')].id = enqueued'
        BY <1>2 DEF Received
      <4> QED BY <3>1, <4>1
    <3>2. CASE i # Len(q')
      BY <1>2, <2>2, <3>2 DEF Received
    <3> QED BY <3>1, <3>2
  <2>3. \A i \in 1 .. Len(q') : q'[i].id <= enqueued'
    BY <1>0, <1>2, <2>2 DEF Received, QueueInv
  <2>4. \A i, j \in 1 .. Len(q') : i < j => q'[i].id < q'[j].id
    <3> SUFFICES ASSUME NEW i \in 1 .. Len(q'), NEW j \in 1 .. Len(q'), i < j
                 PROVE  q'[i].id < q'[j].id
      OBVIOUS
    <3>1. i \in 1 .. Len(q) /\ q'[i] = q[i] /\ q[i].id <= enqueued
      BY <1>2 DEF Received, QueueInv
    <3> QED BY <1>0, <1>2, <2>2, <3>1 DEF Received, QueueInv
  <2>5. InHand' => item'.id <= enqueued' /\ \A i \in 1 .. Len(q') : item'.id < q'[i].id
    BY <1>0, <1>2, <2>2 DEF Received, QueueInv
  <2>6. ASSUME NEW r \in Symbols, NEW k \in 1 .. Len(pushed'[r])
        PROVE  /\ pushed'[r][k].id <= enqueued'
               /\ InHand' => pushed'[r][k].id < item'.id
               /\ \A i \in 1 .. Len(q') : pushed'[r][k].id < q'[i].id
    <3>1. /\ k \in 1 .. Len(pushed[r]) /\ pushed'[r][k] = pushed[r][k]
          /\ pushed[r][k].id \in Nat /\ pushed[r][k].id <= enqueued
      BY <1>0, <1>2, <2>6 DEF Received, QueueInv
    <3> QED BY <1>0, <1>2, <2>2, <3>1 DEF Received, QueueInv
  <2> QED BY <2>1, <2>3, <2>4, <2>5, <2>6 DEF QueueInv
<1>3. CASE Taken
  <2>1. ReceiptOrder'
    <3>1. pushed' = pushed
      BY <1>3 DEF Taken
    <3> QED BY <3>1 DEF ReceiptOrder
  <2>2. \A i \in 1 .. Len(q') : i + 1 \in 2 .. Len(q) /\ q'[i] = q[i + 1]
    BY <1>3 DEF Taken
  <2>3. \A i \in 1 .. Len(q') : q'[i].id <= enqueued' /\ item'.id < q'[i].id
    <3>1. enqueued' = enqueued /\ item'.id = q[1].id /\ 1 \in 1 .. Len(q)
      BY <1>3 DEF Taken
    <3>2. \A i \in 1 .. Len(q') : 1 < i + 1 /\ i + 1 \in 1 .. Len(q)
      BY <2>2
    <3> QED BY <2>2, <3>1, <3>2 DEF QueueInv
  <2>4. \A i, j \in 1 .. Len(q') : i < j => q'[i].id < q'[j].id
    <3>1. \A i, j \in 1 .. Len(q') :
            i < j => i + 1 < j + 1 /\ i + 1 \in 1 .. Len(q) /\ j + 1 \in 1 .. Len(q)
      BY <2>2
    <3> QED BY <2>2, <3>1 DEF QueueInv
  <2>5. ASSUME NEW s \in Symbols, NEW k \in 1 .. Len(pushed'[s])
        PROVE  /\ pushed'[s][k].id <= enqueued' /\ pushed'[s][k].id < item'.id
               /\ \A i \in 1 .. Len(q') : pushed'[s][k].id < q'[i].id
    BY <1>0, <1>3, <2>2, <2>5 DEF Taken, QueueInv
  <2>6. item'.id <= enqueued'
    BY <1>3 DEF Taken, QueueInv
  <2> QED BY <2>1, <2>3, <2>4, <2>5, <2>6 DEF QueueInv
<1>4. CASE Stored
  <2>1. ASSUME NEW s \in Symbols, NEW k \in 1 .. Len(pushed'[s])
        PROVE  \/ s = item.s /\ k = Len(pushed'[s]) /\ pushed'[s][k].id = item.id
               \/ k \in 1 .. Len(pushed[s]) /\ pushed'[s][k] = pushed[s][k]
    <3>1. CASE s = item.s /\ k = Len(pushed'[s])
      BY <1>4, <3>1 DEF Stored
    <3>2. CASE s = item.s /\ k # Len(pushed'[s])
      <4>1. k \in 1 .. Len(pushed[item.s])
        BY <1>4, <2>1, <3>2 DEF Stored
      <4> QED BY <1>4, <3>2, <4>1 DEF Stored
    <3>3. CASE s # item.s
      BY <1>4, <2>1, <3>3 DEF Stored
    <3> QED BY <3>1, <3>2, <3>3
  <2>2. ASSUME NEW s \in Symbols, NEW k \in 1 .. Len(pushed'[s])
        PROVE  pushed'[s][k].id <= enqueued' /\ \A i \in 1 .. Len(q') : pushed'[s][k].id < q'[i].id
    BY <1>4, <2>1, <2>2 DEF Stored, QueueInv
  <2>3. QueueInv'
    BY <1>4, <2>2 DEF Stored, QueueInv
  <2>4. ASSUME NEW s \in Symbols, NEW i \in 1 .. Len(pushed'[s]), NEW j \in 1 .. Len(pushed'[s]),
               i < j
        PROVE  pushed'[s][i].id < pushed'[s][j].id
    <3>1. i \in 1 .. Len(pushed[s]) /\ pushed'[s][i] = pushed[s][i]
      BY <1>0, <1>4, <2>1, <2>4 DEF Stored
    <3> QED BY <1>4, <2>1, <2>4, <3>1 DEF Stored, QueueInv, ReceiptOrder
  <2>5. ASSUME NEW s \in Symbols, NEW r \in Symbols, s # r,
               NEW i \in 1 .. Len(pushed'[s]), NEW j \in 1 .. Len(pushed'[r])
        PROVE  pushed'[s][i].id # pushed'[r][j].id
    <3>1. /\ \A k \in 1 .. Len(pushed[s]) : pushed[s][k].id # item.id
          /\ \A k \in 1 .. Len(pushed[r]) : pushed[r][k].id # item.id
      BY <1>0, <1>4 DEF Stored, QueueInv
    <3>2. CASE i \in 1 .. Len(pushed[s]) /\ pushed'[s][i] = pushed[s][i]
      <4>1. CASE j \in 1 .. Len(pushed[r]) /\ pushed'[r][j] = pushed[r][j]
        BY <2>5, <3>2, <4>1 DEF ReceiptOrder
      <4>2. CASE pushed'[r][j].id = item.id
        BY <3>1, <3>2, <4>2
      <4> QED BY <2>1, <4>1, <4>2
    <3>3. CASE s = item.s /\ pushed'[s][i].id = item.id
      <4>1. j \in 1 .. Len(pushed[r]) /\ pushed'[r][j] = pushed[r][j]
        BY <2>1, <2>5, <3>3
      <4> QED BY <3>1, <3>3, <4>1
    <3> QED BY <2>1, <3>2, <3>3
  <2> QED BY <2>3, <2>4, <2>5 DEF ReceiptOrder
<1> QED BY <1>1, <1>2, <1>3, <1>4, StepTransfers

THEOREM TradesInReceiptOrder == Spec => []ReceiptOrder
<1>1. Init => QueueInv /\ ReceiptOrder
  BY DEF Init, QueueInv, ReceiptOrder, InHand
<1> QED BY <1>1, OrderStep, TypeCorrect, PTL DEF Spec

-----------------------------------------------------------------------------
(* The window.  Only Push computes the cutoff and only PopFront erases.    *)
LEMMA CutoffStep == TypeOK /\ CutoffInv /\ [Next]_vars => CutoffInv'
<1> SUFFICES ASSUME TypeOK, CutoffInv, [Next]_vars PROVE CutoffInv'
  OBVIOUS
<1> USE ConstantsOK DEF CutoffInv, queueVars, procVars, mapVars, deques, states, loopVars
<1>1. clock \in Nat /\ cutoff \in Int
  BY DEF TypeOK, Times
<1>2. CASE Tick
  BY <1>1, <1>2 DEF Tick, EnvironmentOnly
<1>3. CASE RequestStop \/ \E s \in Symbols, t \in Times : Enqueue(s, t)
  BY <1>3 DEF RequestStop, Enqueue, EnvironmentOnly
<1>4. CASE Push
  BY <1>1, <1>4 DEF Push, Cutoff, ProcessorOnly
<1>5. CASE Dequeue \/ Lookup \/ PopFront \/ EvictDone \/ ProcStop
  BY <1>5 DEF Dequeue, Lookup, PopFront, EvictDone, ProcStop, ProcessorOnly
<1>6. CASE Scheduler
  BY <1>6 DEF Scheduler, SchedTick, SchedStop, SchedLock, ProcessEntry, NextCalc, SchedUnlock,
              SchedDone, SchedulerOnly
<1>7. CASE RaceCrash \/ UNCHANGED vars
  BY <1>7 DEF RaceCrash, vars
<1>8. CASE Logger
  BY <1>8 DEF Logger, LogTick, LogStop, LogLock, LogCopy, LogDone, LoggerOnly
<1> QED BY <1>2, <1>3, <1>4, <1>5, <1>6, <1>7, <1>8 DEF Next, Processor

LEMMA OnlyPopFrontErases ==
  ASSUME [Next]_vars PROVE PopFront \/ erased' = erased
<1> USE DEF queueVars, procVars, mapVars, deques, states, loopVars
<1>1. CASE Tick \/ RequestStop \/ RaceCrash \/ UNCHANGED vars
           \/ \E s \in Symbols, t \in Times : Enqueue(s, t)
  BY <1>1 DEF Tick, RequestStop, Enqueue, EnvironmentOnly, RaceCrash, vars
<1>2. CASE Processor
  BY <1>2 DEF Processor, Dequeue, Lookup, Push, EvictDone, ProcStop, ProcessorOnly
<1>3. CASE Scheduler
  BY <1>3 DEF Scheduler, SchedTick, SchedStop, SchedLock, ProcessEntry, NextCalc, SchedUnlock,
              SchedDone, SchedulerOnly
<1>4. CASE Logger
  BY <1>4 DEF Logger, LogTick, LogStop, LogLock, LogCopy, LogDone, LoggerOnly
<1> QED BY <1>1, <1>2, <1>3, <1>4 DEF Next

(* A trade within the window is never evicted, although the clock runs on  *)
(* between the computation of the cutoff and each pop_front.               *)
THEOREM EvictsExpired == Spec => EvictsOnlyExpired
<1> DEFINE Expired == \A s \in Symbols :
             erased'[s] > erased[s] => pushed[s][erased'[s]].t + Window < clock
<1>1. TypeOK /\ CutoffInv /\ [Next]_vars => [Expired]_vars
  <2> SUFFICES ASSUME TypeOK, CutoffInv, [Next]_vars PROVE Expired
    OBVIOUS
  <2>1. erased \in [Symbols -> Nat]
    BY DEF TypeOK
  <2>2. CASE erased' = erased
    BY <2>1, <2>2
  <2>3. CASE PopFront
    <3>1. /\ item.s \in Symbols /\ FrontExpired(item.s) /\ cutoff + Window <= clock
          /\ erased' = [erased EXCEPT ![item.s] = @ + 1]
      BY <2>3 DEF PopFront, TypeOK, Items, CutoffInv
    <3>2. pushed[item.s][erased[item.s] + 1] \in Trades
      BY <2>1, <3>1 DEF TypeOK, FrontExpired, Begin, End
    <3>3. pushed[item.s][erased'[item.s]].t + Window < clock
      <4>1. erased'[item.s] = Begin(item.s) /\ pushed[item.s][Begin(item.s)].t < cutoff
        BY <2>1, <3>1 DEF FrontExpired, Begin
      <4>2. pushed[item.s][Begin(item.s)].t \in Int /\ clock \in Int /\ cutoff \in Int
        BY <3>2 DEF TypeOK, Begin, Trades, Times
      <4> QED BY <3>1, <4>1, <4>2, ConstantsOK
    <3> QED BY <2>1, <3>1, <3>3
  <2> QED BY <2>2, <2>3, OnlyPopFrontErases
<1>2. Init => CutoffInv
  BY DEF Init, CutoffInv
<1> QED BY <1>1, <1>2, CutoffStep, TypeCorrect, PTL DEF Spec, EvictsOnlyExpired

(* When trades arrive in time order the processor leaves a window without  *)
(* a trade older than the cutoff.                                          *)
THEOREM WindowsAreFresh == Spec => []WindowFresh
<1> USE DEF queueVars, procVars, mapVars, deques, states, loopVars
<1>1. Init => WindowFresh
  BY DEF Init, WindowFresh
<1>2. TypeOK /\ WindowFresh /\ [Next]_vars => WindowFresh'
  <2> SUFFICES ASSUME TypeOK, WindowFresh, [Next]_vars PROVE WindowFresh'
    OBVIOUS
  <2>1. CASE EvictDone
    <3> SUFFICES ASSUME TimeOrdered(item.s), NEW i \in Begin(item.s) .. Len(pushed[item.s])
                 PROVE  pushed[item.s][i].t >= cutoff
      BY <2>1 DEF EvictDone, ProcessorOnly, WindowFresh, TimeOrdered, Begin
    <3>1. item.s \in Symbols /\ ~FrontExpired(item.s)
      BY <2>1 DEF EvictDone, TypeOK, Items
    <3>2. pushed[item.s] \in Seq(Trades) /\ erased[item.s] \in Nat /\ cutoff \in Int
      BY <3>1 DEF TypeOK
    <3>3. Begin(item.s) \in 1 .. Len(pushed[item.s]) /\ i \in 1 .. Len(pushed[item.s])
      BY <3>2 DEF Begin
    <3>4. pushed[item.s][Begin(item.s)].t \in Int /\ pushed[item.s][i].t \in Int
      <4>1. pushed[item.s][Begin(item.s)] \in Trades /\ pushed[item.s][i] \in Trades
        BY <3>2, <3>3
      <4> QED BY <4>1 DEF Trades, Times
    <3>5. pushed[item.s][Begin(item.s)].t >= cutoff
      BY <3>1, <3>2, <3>3, <3>4 DEF FrontExpired, End
    <3>6. i = Begin(item.s) \/ Begin(item.s) < i
      BY <3>3
    <3> QED BY <3>2, <3>3, <3>4, <3>5, <3>6 DEF TimeOrdered
  <2>2. ASSUME procPc' \in {"dequeue", "stopped"} => procPc \in {"dequeue", "stopped"},
               UNCHANGED <<item, cutoff, deques>>
        PROVE  WindowFresh'
    BY <2>2 DEF WindowFresh, TimeOrdered, Begin
  <2>3. CASE Dequeue \/ Lookup \/ Push \/ PopFront
    BY <2>3 DEF Dequeue, Lookup, Push, PopFront, ProcessorOnly, WindowFresh
  <2>4. CASE Tick \/ RequestStop \/ \E s \in Symbols, t \in Times : Enqueue(s, t)
    BY <2>2, <2>4 DEF Tick, RequestStop, Enqueue, EnvironmentOnly
  <2>5. CASE ProcStop \/ RaceCrash \/ UNCHANGED vars
    BY <2>2, <2>5 DEF ProcStop, ProcessorOnly, RaceCrash, vars
  <2>6. CASE Scheduler
    BY <2>2, <2>6 DEF Scheduler, SchedTick, SchedStop, SchedLock, ProcessEntry, NextCalc,
                      SchedUnlock, SchedDone, SchedulerOnly
  <2>7. CASE Logger
    BY <2>2, <2>7 DEF Logger, LogTick, LogStop, LogLock, LogCopy, LogDone, LoggerOnly
  <2> QED BY <2>1, <2>3, <2>4, <2>5, <2>6, <2>7 DEF Next, Processor
<1> QED BY <1>1, <1>2, TypeCorrect, PTL DEF Spec

-----------------------------------------------------------------------------
(* StreamProcessor implements TradePipeline: each step of its threads is a *)
(* step of the pipeline or changes nothing the pipeline speaks of.         *)
PipelineVars == <<clock, enqueued, Waiting, pushed, erased>>

LEMMA InitRefines == Init => Pipeline!Init
<1> SUFFICES ASSUME Init PROVE Pipeline!Init
  OBVIOUS
<1>1. Waiting = {}
  BY DEF Init, Waiting, InHand
<1> QED BY <1>1 DEF Init, Pipeline!Init

(* The set of waiting trades, as the three steps that move one change it.  *)
LEMMA EnqueueMaps ==
  ASSUME TypeOK, NEW s \in Symbols, NEW t \in Times, Enqueue(s, t)
  PROVE  Waiting' = Waiting \cup {[id |-> enqueued + 1, s |-> s, t |-> t]}
<1>0. q \in Seq(Items) /\ (InHand => item \in Items)
  BY DEF TypeOK, InHand
<1> DEFINE x == [id |-> enqueued + 1, s |-> s, t |-> t]
<1>1. q' = Append(q, x) /\ item' = item /\ (InHand' <=> InHand)
  BY DEF Enqueue, EnvironmentOnly, procVars, InHand
<1>2. /\ Len(q) \in Nat /\ Len(q') = Len(q) + 1 /\ q'[Len(q) + 1] = x
      /\ \A i \in 1 .. Len(q) : q'[i] = q[i]
  BY <1>0, <1>1
<1>3. {q'[i] : i \in 1 .. Len(q')} = {q[i] : i \in 1 .. Len(q)} \cup {x}
  <2> HIDE DEF x
  <2>1. 1 .. Len(q') = (1 .. Len(q)) \cup {Len(q) + 1}
    BY <1>2
  <2> QED BY <1>2, <2>1
<1> QED BY <1>1, <1>3 DEF Waiting

LEMMA DequeueMaps == ASSUME TypeOK, Dequeue PROVE Waiting' = Waiting
<1>0. q \in Seq(Items) /\ (InHand => item \in Items)
  BY DEF TypeOK, InHand
<1>1. q # << >> /\ item' = Head(q) /\ q' = Tail(q) /\ ~InHand /\ InHand'
  BY DEF Dequeue, InHand
<1>2. /\ Len(q) \in Nat /\ Len(q) > 0 /\ Len(q') = Len(q) - 1 /\ item' = q[1]
      /\ \A i \in 1 .. Len(q') : q'[i] = q[i + 1]
  BY <1>0, <1>1
<1>3. {q[i] : i \in 1 .. Len(q)} = {q'[i] : i \in 1 .. Len(q')} \cup {item'}
  <2>1. ASSUME NEW i \in 1 .. Len(q)
        PROVE  q[i] = item' \/ \E j \in 1 .. Len(q') : q[i] = q'[j]
    <3>1. CASE i = 1
      BY <1>2, <3>1
    <3>2. CASE i # 1
      <4>1. i - 1 \in 1 .. Len(q') /\ (i - 1) + 1 = i
        BY <1>2, <3>2
      <4>2. q'[i - 1] = q[(i - 1) + 1]
        BY <1>2, <4>1
      <4> QED BY <4>1, <4>2
    <3> QED BY <3>1, <3>2
  <2>2. ASSUME NEW j \in 1 .. Len(q') PROVE \E i \in 1 .. Len(q) : q'[j] = q[i]
    <3>1. j + 1 \in 1 .. Len(q)
      BY <1>2
    <3> QED BY <1>2, <3>1
  <2>3. 1 \in 1 .. Len(q) /\ item' = q[1]
    BY <1>2
  <2> QED BY <2>1, <2>2, <2>3
<1> QED BY <1>1, <1>3 DEF Waiting

LEMMA PushMaps ==
  ASSUME TypeOK, QueueInv, Push
  PROVE  /\ item \in Waiting /\ Waiting' = Waiting \ {item}
         /\ \A y \in Waiting : item.id <= y.id
<1>0. q \in Seq(Items) /\ (InHand => item \in Items)
  BY DEF TypeOK, InHand
<1>1. q' = q /\ item' = item /\ InHand /\ ~InHand'
  BY DEF Push, ProcessorOnly, InHand
<1>2. Waiting = {q[i] : i \in 1 .. Len(q)} \cup {item} /\ Waiting' = {q[i] : i \in 1 .. Len(q)}
  BY <1>1 DEF Waiting
<1>3. item \in Items /\ \A i \in 1 .. Len(q) : q[i] \in Items
  BY <1>0, <1>1
<1>4. \A i \in 1 .. Len(q) : item.id < q[i].id
  BY <1>1 DEF QueueInv
<1>5. \A i \in 1 .. Len(q) : q[i] # item
  BY <1>3, <1>4 DEF Items
<1>6. \A y \in Waiting : item.id <= y.id
  BY <1>2, <1>3, <1>4 DEF Items
<1> QED BY <1>2, <1>5, <1>6

LEMMA StepRefines ==
  TypeOK /\ QueueInv /\ CutoffInv /\ [Next]_vars => [Pipeline!Next]_PipelineVars
<1> SUFFICES ASSUME TypeOK, QueueInv, CutoffInv, [Next]_vars
             PROVE  Pipeline!Next \/ UNCHANGED PipelineVars
  OBVIOUS
<1> USE DEF queueVars, procVars, mapVars, deques, states, loopVars
<1>1. ASSUME UNCHANGED <<clock, queueVars, item, deques>>, InHand' <=> InHand
      PROVE  UNCHANGED PipelineVars
  BY <1>1 DEF PipelineVars, Waiting
<1>2. CASE Tick
  <2>1. Waiting' = Waiting
    BY <1>2 DEF Tick, EnvironmentOnly, Waiting, InHand
  <2> QED BY <1>2, <2>1 DEF Tick, EnvironmentOnly, Pipeline!Next, Pipeline!Advance
<1>3. ASSUME NEW s \in Symbols, NEW t \in Times, Enqueue(s, t) PROVE Pipeline!Receive
  <2>1. Waiting' = Waiting \cup {[id |-> enqueued + 1, s |-> s, t |-> t]}
    BY <1>3, EnqueueMaps
  <2>2. t \in 0 .. clock
    BY <1>3, ConstantsOK DEF Enqueue, Times, TypeOK
  <2> QED BY <1>3, <2>1, <2>2 DEF Enqueue, EnvironmentOnly, Pipeline!Receive
<1>4. CASE Dequeue
  <2>1. Waiting' = Waiting
    BY <1>4, DequeueMaps
  <2> QED BY <1>4, <2>1 DEF Dequeue, ProcessorOnly, PipelineVars
<1>5. CASE Push
  <2>1. item \in Waiting /\ Waiting' = Waiting \ {item} /\ \A y \in Waiting : item.id <= y.id
    BY <1>5, PushMaps
  <2>2. /\ pushed' = [pushed EXCEPT ![item.s] = Append(@, [id |-> item.id, t |-> item.t])]
        /\ UNCHANGED <<clock, enqueued, erased>>
    BY <1>5 DEF Push, PushBack, ProcessorOnly
  <2>3. Pipeline!Accept
    BY <2>1, <2>2 DEF Pipeline!Accept
  <2> QED BY <2>3 DEF Pipeline!Next
<1>6. CASE PopFront
  <2>1. /\ item.s \in Symbols /\ FrontExpired(item.s) /\ cutoff + Window <= clock
        /\ erased' = [erased EXCEPT ![item.s] = @ + 1]
    BY <1>6 DEF PopFront, TypeOK, Items, CutoffInv
  <2>2. erased[item.s] \in Nat /\ Len(pushed[item.s]) \in Nat
    BY <2>1 DEF TypeOK
  <2>3. erased[item.s] < Len(pushed[item.s])
    BY <2>1, <2>2 DEF FrontExpired, Begin, End
  <2>4. pushed[item.s][erased[item.s] + 1].t + Window < clock
    <3>1. pushed[item.s][erased[item.s] + 1] \in Trades
      <4>1. pushed[item.s] \in Seq(Trades) /\ erased[item.s] + 1 \in 1 .. Len(pushed[item.s])
        BY <2>1, <2>2, <2>3 DEF TypeOK
      <4> QED BY <4>1
    <3>2. pushed[item.s][erased[item.s] + 1].t < cutoff
      BY <2>1 DEF FrontExpired, Begin
    <3>3. pushed[item.s][erased[item.s] + 1].t \in Int /\ clock \in Int /\ cutoff \in Int
      BY <3>1 DEF TypeOK, Trades, Times
    <3> QED BY <2>1, <3>2, <3>3, ConstantsOK
  <2>5. UNCHANGED <<clock, enqueued, Waiting, pushed>>
    BY <1>6 DEF PopFront, ProcessorOnly, Waiting, InHand
  <2>6. Pipeline!Expire
    BY <2>1, <2>3, <2>4, <2>5 DEF Pipeline!Expire
  <2> QED BY <2>6 DEF Pipeline!Next
<1>7. CASE RequestStop \/ RaceCrash \/ UNCHANGED vars
  <2>1. UNCHANGED <<clock, queueVars, item, deques>> /\ (InHand' <=> InHand)
    BY <1>7 DEF RequestStop, EnvironmentOnly, RaceCrash, vars, InHand
  <2> QED BY <1>1, <2>1
<1>8. CASE Lookup \/ EvictDone \/ ProcStop
  <2>1. UNCHANGED <<clock, queueVars, item, deques>> /\ (InHand' <=> InHand)
    BY <1>8 DEF Lookup, EvictDone, ProcStop, ProcessorOnly, InHand
  <2> QED BY <1>1, <2>1
<1>9. CASE Scheduler
  <2>1. UNCHANGED <<clock, queueVars, item, deques>> /\ (InHand' <=> InHand)
    BY <1>9 DEF Scheduler, SchedTick, SchedStop, SchedLock, ProcessEntry, NextCalc, SchedUnlock,
                SchedDone, SchedulerOnly, InHand
  <2> QED BY <1>1, <2>1
<1>10. CASE Logger
  <2>1. UNCHANGED <<clock, queueVars, item, deques>> /\ (InHand' <=> InHand)
    BY <1>10 DEF Logger, LogTick, LogStop, LogLock, LogCopy, LogDone, LoggerOnly, InHand
  <2> QED BY <1>1, <2>1
<1> QED BY <1>2, <1>3, <1>4, <1>5, <1>6, <1>7, <1>8, <1>9, <1>10 DEF Next, Processor, Pipeline!Next

(* The detailed threads, with all their races, are an implementation of    *)
(* the pipeline, for every set of symbols, every window and every bound.   *)
THEOREM PipelineImplemented == Spec => ImplementsPipeline
<1>1. Init => QueueInv /\ ReceiptOrder /\ CutoffInv
  BY DEF Init, QueueInv, ReceiptOrder, InHand, CutoffInv
<1>2. Spec => []QueueInv /\ []CutoffInv
  BY <1>1, OrderStep, CutoffStep, TypeCorrect, PTL DEF Spec
<1>3. Spec => Pipeline!Init
  BY InitRefines DEF Spec
<1>4. TypeOK /\ QueueInv /\ CutoffInv /\ [Next]_vars => [Pipeline!Next]_(Pipeline!vars)
  BY StepRefines DEF PipelineVars, Pipeline!vars
<1> QED BY <1>2, <1>3, <1>4, TypeCorrect, PTL DEF Spec, ImplementsPipeline, Pipeline!Spec

==============================================================================
