---------------------------- MODULE ServiceProofs ----------------------------
(***************************************************************************)
(* Theorems about the life of the program, for all subscriptions and any   *)
(* number of trades; and about the parts that run beside the processor:    *)
(* the timer of Scheduler::run and queryPrices, in a system of all parts,  *)
(* for every interval, every list of symbols and any number of steps.      *)
(***************************************************************************)
EXTENDS MCServices, FiniteSetTheorems, TLAPS

-----------------------------------------------------------------------------
(* The threads main has started and not joined, and what it has not yet    *)
(* destroyed: the workers in their order, then the session.                *)
LifeInv ==
  /\ mainPc \in {"spawn", "wait", "waiting", "joinWs", "exited"} => workers = 0
  /\ mainPc = "spawn" => wsPc = "none"
  /\ mainPc = "start" => workers < 3 /\ alive = Objects
  /\ mainPc = "join" => workers > 0
  /\ "processor" \in running => workers >= 1
  /\ "scheduler" \in running => workers >= 2
  /\ "logger" \in running => workers = 3
  /\ workers >= 1 => {"map", "streamProcessor"} \subseteq alive
  /\ workers >= 2 => "scheduler" \in alive
  /\ mainPc # "exited" => {"condVar", "queue"} \subseteq alive
  /\ mainPc = "exited" => wsPc = "done"

(* The io_thread lives within the session thread, which leaves its loop    *)
(* only on a stop request.                                                 *)
IoInv ==
  /\ ioPc # "none" => wsPc \in {"watch", "close", "stopClient", "join", "done"}
  /\ wsPc = "done" => ioPc \in {"none", "done"}
  /\ wsPc \in {"close", "stopClient", "join"} => stop
  /\ ioPc = "subscribe" /\ ~stop => conn = "open" /\ toSend \cup sent = Subscriptions

-----------------------------------------------------------------------------
LEMMA InitLife == Init => TypeOK /\ LifeInv /\ IoInv
<1> SUFFICES ASSUME Init PROVE TypeOK /\ LifeInv /\ IoInv
  OBVIOUS
<1>1. SessionTypeOK
  <2>1. /\ stop \in BOOLEAN /\ terminated \in BOOLEAN /\ cvWaiting \in BOOLEAN
        /\ ioStop \in BOOLEAN /\ clientStopped \in BOOLEAN /\ opened \in BOOLEAN
    BY DEF Init, SessionInit
  <2>2. data \in Nat /\ enqueued \in Nat /\ data + enqueued <= MaxTrades
    BY SessionConstantsOK DEF Init, SessionInit
  <2>3. wsPc = "none" /\ ioPc = "none" /\ conn = "none" /\ toSend = {} /\ sent = {}
    BY DEF Init, SessionInit
  <2> QED BY <2>1, <2>2, <2>3 DEF SessionTypeOK
<1>2. TypeOK
  BY <1>1 DEF Init, TypeOK, Worker, Workers, Objects
<1>3. LifeInv
  BY DEF Init, SessionInit, LifeInv
<1>4. IoInv
  BY DEF Init, SessionInit, IoInv
<1> QED BY <1>2, <1>3, <1>4

LEMMA MainStep ==
  ASSUME TypeOK, LifeInv, IoInv, Main \/ SpuriousWakeup
  PROVE  TypeOK' /\ LifeInv' /\ IoInv'
<1> USE DEF MainOnly, MainGoes, connVars, ioVars
<1>0. Len(Workers) = 3 /\ Workers[1] = "processor" /\ Workers[2] = "scheduler" /\ Workers[3] = "logger"
  BY DEF Workers
<1>1. CASE SpawnSession
  <2>1. TypeOK'
    BY <1>1 DEF SpawnSession, TypeOK, SessionTypeOK
  <2>2. LifeInv'
    BY <1>1 DEF SpawnSession, LifeInv
  <2>3. IoInv'
    BY <1>1 DEF SpawnSession, IoInv, LifeInv
  <2> QED BY <2>1, <2>2, <2>3
<1>2. CASE Wait
  BY <1>2 DEF Wait, TypeOK, SessionTypeOK, LifeInv, IoInv
<1>3. CASE SpuriousWakeup
  <2>1. TypeOK'
    <3>1. mainPc' = mainPc /\ cvWaiting' \in BOOLEAN /\ UNCHANGED <<wsPc, workers, running, alive>>
          /\ UNCHANGED <<stop, terminated, ioStop, clientStopped, conn>>
          /\ UNCHANGED <<ioPc, toSend, sent, opened, data, enqueued>>
      BY <1>3 DEF SpuriousWakeup
    <3>2. SessionTypeOK'
      BY <3>1 DEF TypeOK, SessionTypeOK
    <3> QED BY <3>1, <3>2 DEF TypeOK
  <2>2. LifeInv' /\ IoInv'
    BY <1>3 DEF SpuriousWakeup, LifeInv, IoInv
  <2> QED BY <2>1, <2>2
<1>4. CASE Woken
  BY <1>4 DEF Woken, TypeOK, SessionTypeOK, LifeInv, IoInv, Objects
<1>5. CASE StartWorker
  <2>1. workers \in {0, 1, 2} /\ workers' = workers + 1 /\ mainPc = "start" /\ alive' = Objects
    BY <1>0, <1>5 DEF StartWorker, TypeOK, LifeInv
  <2>2. /\ running' = running \cup {Workers[workers + 1]}
        /\ mainPc' = IF workers = 2 THEN "join" ELSE "start"
    BY <1>0, <1>5, <2>1 DEF StartWorker
  <2>3. running' \subseteq Worker
    <3>1. Workers[workers + 1] \in Worker
      BY <1>0, <2>1 DEF Worker
    <3> QED BY <2>2, <3>1 DEF TypeOK
  <2>4. TypeOK'
    BY <1>0, <1>5, <2>1, <2>2, <2>3 DEF StartWorker, TypeOK, SessionTypeOK
  <2>5. LifeInv'
    BY <1>0, <2>1, <2>2 DEF LifeInv, Objects
  <2>6. IoInv'
    BY <1>5 DEF StartWorker, IoInv
  <2> QED BY <2>4, <2>5, <2>6
<1>6. CASE JoinWorker
  <2>1. workers \in {1, 2, 3} /\ workers' = workers - 1 /\ mainPc = "join"
    BY <1>0, <1>6 DEF JoinWorker, TypeOK
  <2>2. Workers[workers] \notin running /\ running' = running
    BY <1>6 DEF JoinWorker
  <2>3. alive' = alive \ Destroyed(Workers[workers])
    BY <1>6 DEF JoinWorker
  <2>4. mainPc' = IF workers = 1 THEN "joinWs" ELSE "join"
    BY <1>6 DEF JoinWorker
  <2>5. TypeOK'
    BY <1>0, <1>6, <2>1, <2>2, <2>3, <2>4 DEF JoinWorker, TypeOK, SessionTypeOK
  <2>6. LifeInv'
    <3>1. CASE workers = 1
      BY <1>0, <2>1, <2>2, <2>3, <2>4, <3>1 DEF LifeInv, Destroyed
    <3>2. CASE workers = 2
      BY <1>0, <2>1, <2>2, <2>3, <2>4, <3>2 DEF LifeInv, Destroyed
    <3>3. CASE workers = 3
      BY <1>0, <2>1, <2>2, <2>3, <2>4, <3>3 DEF LifeInv, Destroyed
    <3> QED BY <2>1, <3>1, <3>2, <3>3
  <2>7. IoInv'
    BY <1>6 DEF JoinWorker, IoInv
  <2> QED BY <2>5, <2>6, <2>7
<1>7. CASE JoinSession
  BY <1>7 DEF JoinSession, TypeOK, SessionTypeOK, LifeInv, IoInv
<1> QED BY <1>1, <1>2, <1>3, <1>4, <1>5, <1>6, <1>7 DEF Main

LEMMA SessionStep ==
  ASSUME TypeOK, LifeInv, IoInv, Session PROVE TypeOK' /\ LifeInv' /\ IoInv'
<1> USE DEF WsGoes, IoOnly, Polling, connVars, ioVars
<1>0. UNCHANGED <<mainPc, workers, running, alive>>
  BY DEF Session
<1>1. LifeInv'
  <2>1. wsPc \in {"none", "done"} => wsPc' = wsPc
    BY DEF Session, WsThread, Configure, ConnectError, Connect, SeeStop, Close, StopClient, JoinIo,
           IoThread, Subscribe, Notify, Enqueue, IoExit, Network, ConnectionEnds, OnOpen, OnMessage
  <2> QED BY <1>0, <2>1 DEF LifeInv
<1>2. CASE WsThread
  <2>1. SessionTypeOK'
    BY <1>2 DEF TypeOK, SessionTypeOK, WsThread, Configure, ConnectError, Connect, SeeStop, Close,
                StopClient, JoinIo
  <2>2. IoInv'
    BY <1>2 DEF IoInv, WsThread, Configure, ConnectError, Connect, SeeStop, Close, StopClient, JoinIo
  <2> QED BY <1>0, <1>1, <2>1, <2>2 DEF TypeOK
<1>3. CASE IoThread \/ ConnectionEnds \/ OnOpen
  <2>1. SessionTypeOK'
    <3>1. CASE Notify \/ IoExit
      BY <3>1 DEF TypeOK, SessionTypeOK, Notify, IoExit
    <3>4. ASSUME NEW s \in Subscriptions, Subscribe(s) PROVE SessionTypeOK'
      <4>1. toSend' \subseteq Subscriptions /\ sent' \subseteq Subscriptions
        BY <3>4 DEF TypeOK, SessionTypeOK, Subscribe
      <4> QED BY <3>4, <4>1 DEF TypeOK, SessionTypeOK, Subscribe
    <3>2. CASE Enqueue
      <4>1. /\ data' \in Nat /\ enqueued' \in Nat /\ data' + enqueued' <= MaxTrades
            /\ ioPc' \in {"enqueue", "poll"}
        BY <3>2, SessionConstantsOK DEF TypeOK, SessionTypeOK, Enqueue
      <4> QED BY <3>2, <4>1 DEF TypeOK, SessionTypeOK, Enqueue
    <3>3. CASE ConnectionEnds \/ OnOpen
      BY <3>3 DEF TypeOK, SessionTypeOK, ConnectionEnds, OnOpen
    <3> QED BY <1>3, <3>1, <3>2, <3>3, <3>4 DEF IoThread
  <2>2. IoInv'
    BY <1>3 DEF IoInv, IoThread, Subscribe, Notify, Enqueue, IoExit, ConnectionEnds, OnOpen,
                TypeOK, SessionTypeOK
  <2> QED BY <1>0, <1>1, <2>1, <2>2 DEF TypeOK
<1>4. ASSUME NEW trades \in 0 .. MaxTrades, OnMessage(trades) PROVE TypeOK' /\ LifeInv' /\ IoInv'
  <2>1. SessionTypeOK'
    BY <1>4, SessionConstantsOK DEF TypeOK, SessionTypeOK, OnMessage
  <2>2. IoInv'
    BY <1>4 DEF IoInv, OnMessage
  <2> QED BY <1>0, <1>1, <2>1, <2>2 DEF TypeOK
<1> QED BY <1>2, <1>3, <1>4 DEF Session, Network

LEMMA LifeStep == TypeOK /\ LifeInv /\ IoInv /\ [Next]_vars => TypeOK' /\ LifeInv' /\ IoInv'
<1> SUFFICES ASSUME TypeOK, LifeInv, IoInv, [Next]_vars PROVE TypeOK' /\ LifeInv' /\ IoInv'
  OBVIOUS
<1> USE DEF sessionVars, connVars, ioVars
<1>1. CASE Sigint
  BY <1>1 DEF Sigint, TypeOK, SessionTypeOK, LifeInv, IoInv
<1>2. ASSUME NEW w \in Worker, WorkerExit(w) PROVE TypeOK' /\ LifeInv' /\ IoInv'
  BY <1>2 DEF WorkerExit, TypeOK, SessionTypeOK, LifeInv, IoInv
<1>3. CASE UNCHANGED vars
  BY <1>3 DEF vars, TypeOK, SessionTypeOK, LifeInv, IoInv
<1> QED BY <1>1, <1>2, <1>3, MainStep, SessionStep DEF Next

(* The variables keep their types, and a thread lives no longer than what  *)
(* started it.                                                             *)
THEOREM LifeCorrect == Spec => [](TypeOK /\ LifeInv /\ IoInv)
BY InitLife, LifeStep, PTL DEF Spec

(* The order of main's locals is right: no thread outlives an object it    *)
(* refers to, at whatever moment the stop request comes.                   *)
THEOREM ObjectsOutliveThreads == Spec => []UsedObjectsAlive
<1>1. TypeOK /\ LifeInv /\ IoInv => UsedObjectsAlive
  <2> SUFFICES ASSUME TypeOK, LifeInv, IoInv PROVE UsedObjectsAlive
    OBVIOUS
  <2>1. running # {} => workers >= 1
    <3>1. running \subseteq Worker /\ workers \in {0, 1, 2, 3}
      BY DEF TypeOK, Workers
    <3>2. SUFFICES ASSUME NEW w \in running PROVE workers >= 1
      OBVIOUS
    <3> QED BY <3>1 DEF LifeInv, Worker
  <2>2. workers >= 1 => mainPc # "exited"
    BY DEF LifeInv
  <2>3. ioPc \notin {"none", "done"} => wsPc # "done"
    BY DEF IoInv
  <2> QED BY <2>1, <2>2, <2>3 DEF LifeInv, UsedObjectsAlive, TypeOK, Workers
<1> QED BY <1>1, LifeCorrect, PTL

(* Unless a shutdown is in progress, on_open ends with every subscription  *)
(* sent.                                                                   *)
THEOREM OpenSendsAll == Spec => []OpenSubscribes
<1>1. Init => OpenSubscribes
  BY DEF Init, SessionInit, OpenSubscribes
<1>2. TypeOK /\ IoInv /\ OpenSubscribes /\ [Next]_vars => OpenSubscribes'
  <2> SUFFICES ASSUME TypeOK, IoInv, OpenSubscribes, [Next]_vars PROVE OpenSubscribes'
    OBVIOUS
  <2> USE DEF sessionVars, connVars, ioVars, WsGoes, IoOnly, MainOnly, OpenSubscribes
  <2>1. CASE Main \/ SpuriousWakeup \/ Sigint \/ UNCHANGED vars
    BY <2>1 DEF Main, SpawnSession, Wait, SpuriousWakeup, Woken, StartWorker, JoinWorker,
                JoinSession, Sigint, vars
  <2>2. CASE \E w \in Worker : WorkerExit(w)
    BY <2>2 DEF WorkerExit
  <2>3. CASE WsThread
    BY <2>3 DEF WsThread, Configure, ConnectError, Connect, SeeStop, Close, StopClient, JoinIo
  <2>4. CASE Network
    BY <2>4 DEF Network, ConnectionEnds, OnOpen, OnMessage
  <2>5. CASE Notify
    <3>1. ioPc = "subscribe" /\ toSend = {} /\ UNCHANGED <<stop, sent>>
      BY <2>5 DEF Notify, AllSent
    <3> QED BY <3>1 DEF IoInv
  <2>6. CASE Enqueue \/ IoExit
    BY <2>6 DEF Enqueue, IoExit
  <2>7. ASSUME NEW s \in Subscriptions, Subscribe(s) PROVE OpenSubscribes'
    BY <2>7 DEF Subscribe, TypeOK, SessionTypeOK
  <2> QED BY <2>1, <2>2, <2>3, <2>4, <2>5, <2>6, <2>7 DEF Next, Session, IoThread
<1> QED BY <1>1, <1>2, LifeCorrect, PTL DEF Spec

-----------------------------------------------------------------------------
(* What a step of the system can be to one part of it.                     *)
LEMMA PartSteps ==
  ASSUME [ServicesNext]_services
  PROVE  /\ Timer!Next \/ UNCHANGED ofTimer
         /\ Poller!Next \/ UNCHANGED ofPoller
BY DEF ServicesNext, services, Program, Timers, Polls, Pools, Waits

-----------------------------------------------------------------------------
(* The deadline is on the grid of intervals: it is that of the computation *)
(* at work, or else of the next one.  Only one computation follows a stop  *)
(* request, and after it the thread waits no more.                         *)
OnGrid(k) == next_tick = began + k * Interval

TimerInv ==
  /\ steady \in Nat /\ began \in Nat /\ next_tick \in Int /\ computed \in Nat /\ extra \in {0, 1}
  /\ began <= steady
  /\ runPc = "starting" => computed = 0 /\ extra = 0
  /\ runPc \in {"loop", "armed", "waiting"} => OnGrid(computed + 1)
  /\ runPc = "computing" => OnGrid(computed)
  /\ extra = 1 => st /\ runPc \in {"loop", "computing", "stopped"}
  /\ Timer!NotTooOften

LEMMA Product ==
  ASSUME NEW k \in Int
  PROVE  k * Interval \in Int /\ (k + 1) * Interval = k * Interval + Interval
BY IntervalOK

LEMMA ComputeStep ==
  ASSUME TimerInv, Timer!Compute,
         extra = 0, runPc \in {"armed", "waiting"}, st \/ steady >= next_tick
  PROVE  TimerInv'
<1>1. /\ runPc' = "computing" /\ computed' = computed + 1
      /\ extra' = IF st THEN extra + 1 ELSE extra
      /\ UNCHANGED <<steady, st, began, next_tick>>
  BY DEF Timer!Compute
<1>2. /\ steady \in Nat /\ began \in Nat /\ next_tick \in Int /\ computed \in Nat
      /\ began <= steady /\ OnGrid(computed + 1)
      /\ computed * Interval <= steady - began
  BY DEF TimerInv, Timer!NotTooOften
<1>3. OnGrid(computed)'
  BY <1>1, <1>2 DEF OnGrid
<1>4. Timer!NotTooOften'
  <2>1. CASE st
    BY <1>1, <1>2, <2>1 DEF Timer!NotTooOften
  <2>2. CASE ~st
    <3>1. (computed + 1) * Interval \in Int /\ (computed + 1) * Interval <= steady - began
      BY <1>2, <2>2, Product DEF OnGrid
    <3> QED BY <1>1, <1>2, <2>2, <3>1 DEF Timer!NotTooOften
  <2> QED BY <2>1, <2>2
<1> QED BY <1>1, <1>2, <1>3, <1>4 DEF TimerInv

LEMMA TimerStep == TimerInv /\ Timer!Next => TimerInv'
<1> SUFFICES ASSUME TimerInv, Timer!Next PROVE TimerInv'
  OBVIOUS
<1>1. CASE Timer!Advance
  <2>1. (computed - extra) * Interval \in Int
    BY Product DEF TimerInv
  <2>2. Timer!NotTooOften'
    BY <1>1, <2>1 DEF Timer!Advance, TimerInv, Timer!NotTooOften
  <2> QED BY <1>1, <2>2 DEF Timer!Advance, TimerInv, OnGrid
<1>2. CASE Timer!RequestStop
  BY <1>2 DEF Timer!RequestStop, TimerInv, OnGrid, Timer!NotTooOften
<1>3. CASE Timer!Stop
  BY <1>3 DEF Timer!Stop, TimerInv, OnGrid, Timer!NotTooOften
<1>4. CASE Timer!Begin
  <2>1. computed = 0 /\ extra = 0 /\ began' = steady /\ next_tick' = steady + Interval
        /\ runPc' = "loop" /\ UNCHANGED <<steady, st, computed, extra>>
    BY <1>4 DEF Timer!Begin, TimerInv
  <2>2. 1 * Interval = Interval /\ 0 * Interval = 0
    BY IntervalOK
  <2>3. OnGrid(computed + 1)' /\ Timer!NotTooOften'
    BY <2>1, <2>2 DEF TimerInv, OnGrid, Timer!NotTooOften
  <2> QED BY <2>1, <2>3, IntervalOK DEF TimerInv
<1>5. CASE Timer!Test
  BY <1>5 DEF Timer!Test, TimerInv, OnGrid, Timer!NotTooOften
<1>6. CASE Timer!Arm
  <2>1. CASE st /\ Timer!Compute
    BY <1>6, <2>1, ComputeStep DEF Timer!Arm, TimerInv
  <2>2. CASE ~st /\ runPc' = "waiting" /\ UNCHANGED <<steady, st, worker_st, began, next_tick, computed, extra>>
    BY <1>6, <2>2 DEF Timer!Arm, TimerInv, OnGrid, Timer!NotTooOften
  <2> QED BY <1>6, <2>1, <2>2 DEF Timer!Arm
<1>7. CASE Timer!Timeout
  BY <1>7, ComputeStep DEF Timer!Timeout, TimerInv
<1>8. CASE Timer!StopWait
  BY <1>8 DEF Timer!StopWait, TimerInv, OnGrid, Timer!NotTooOften
<1>9. CASE Timer!Computed
  <2>1. /\ runPc = "computing" /\ runPc' = "loop" /\ next_tick' = next_tick + Interval
        /\ UNCHANGED <<steady, st, began, computed, extra>>
    BY <1>9 DEF Timer!Computed, Timer!NextTick
  <2>2. OnGrid(computed + 1)'
    BY <2>1, Product, IntervalOK DEF TimerInv, OnGrid
  <2>3. next_tick' \in Int
    BY <2>1, IntervalOK DEF TimerInv
  <2> QED BY <2>1, <2>2, <2>3 DEF TimerInv, Timer!NotTooOften
<1> QED
  BY <1>1, <1>2, <1>3, <1>4, <1>5, <1>6, <1>7, <1>8, <1>9 DEF Timer!Next, Timer!Run

(* NotTooOften: while no stop is requested the features are never computed *)
(* more often than intervals have passed since run() began, also when it   *)
(* catches up after a long computation; after a stop request at most one   *)
(* more computation begins (Scheduler::run).                               *)
THEOREM ComputationsRationed == ServicesFair => []NotTooOften
<1>1. ServicesInit => TimerInv
  <2>1. Timer!Init => TimerInv
    <3>1. 0 * Interval = 0
      BY IntervalOK
    <3> QED BY <3>1 DEF Timer!Init, TimerInv, OnGrid, Timer!NotTooOften
  <2> QED BY <2>1 DEF ServicesInit
<1>2. TimerInv /\ [ServicesNext]_services => TimerInv'
  <2> SUFFICES ASSUME TimerInv, [ServicesNext]_services PROVE TimerInv'
    OBVIOUS
  <2>1. CASE Timer!Next
    BY <2>1, TimerStep
  <2>2. CASE UNCHANGED ofTimer
    BY <2>2 DEF ofTimer, TimerInv, OnGrid, Timer!NotTooOften
  <2> QED BY <2>1, <2>2, PartSteps
<1>3. TimerInv => NotTooOften
  BY DEF TimerInv, NotTooOften
<1> QED BY <1>1, <1>2, <1>3, PTL DEF ServicesFair

-----------------------------------------------------------------------------
(* What is left in the stream has not spoiled its quote yet: there is a    *)
(* failure more than there are wrong quotes.                               *)
WrongQuotes == {k \in 1 .. Len(quotes) : Poller!Wrong(k)}
Quotes == [sym : Poller!Names, data : Poller!Pieces \cup {NoData}]

PollerTypes ==
  /\ at \in 1 .. Len(Symbols) /\ ss \in Seq(Poller!Pieces)
  /\ answer \in Poller!Pieces \cup {NoData} /\ quotes \in Seq(Quotes)
  /\ failures \in Nat

PollerInv ==
  /\ PollerTypes
  /\ Cardinality(WrongQuotes) + (IF ss = << >> THEN 0 ELSE 1) <= failures

LEMMA WrongCounted == quotes \in Seq(Quotes) => IsFiniteSet(WrongQuotes) /\ Cardinality(WrongQuotes) \in Nat
<1> SUFFICES ASSUME quotes \in Seq(Quotes)
             PROVE  IsFiniteSet(WrongQuotes) /\ Cardinality(WrongQuotes) \in Nat
  OBVIOUS
<1>1. Len(quotes) \in Nat
  OBVIOUS
<1>2. IsFiniteSet(1 .. Len(quotes)) /\ WrongQuotes \subseteq 1 .. Len(quotes)
  BY <1>1, FS_Interval DEF WrongQuotes
<1> QED BY <1>2, FS_Subset, FS_CardinalityType

(* A quote more is wrong or not; the others stay what they are.            *)
LEMMA QuoteAdded ==
  ASSUME quotes \in Seq(Quotes), NEW q \in Quotes, quotes' = Append(quotes, q)
  PROVE  /\ Cardinality(WrongQuotes') <= Cardinality(WrongQuotes) + 1
         /\ q.data = [of |-> q.sym, kind |-> "whole"] =>
              Cardinality(WrongQuotes') = Cardinality(WrongQuotes)
<1> DEFINE m == Len(quotes) + 1
<1>1. /\ Len(quotes) \in Nat /\ Len(quotes') = m /\ quotes'[m] = q
      /\ \A k \in 1 .. Len(quotes) : quotes'[k] = quotes[k]
  OBVIOUS
<1>2. \A k : k \in 1 .. m <=> k \in 1 .. Len(quotes) \/ k = m
  BY <1>1
<1>3. WrongQuotes' \subseteq WrongQuotes \cup {m} /\ WrongQuotes \subseteq WrongQuotes'
  BY <1>1, <1>2 DEF WrongQuotes, Poller!Wrong
<1>4. m \notin WrongQuotes
  BY <1>1 DEF WrongQuotes
<1>5. IsFiniteSet(WrongQuotes) /\ Cardinality(WrongQuotes) \in Nat
  BY WrongCounted
<1>6. Cardinality(WrongQuotes \cup {m}) = Cardinality(WrongQuotes) + 1
  BY <1>4, <1>5, FS_AddElement
<1>7. WrongQuotes' = WrongQuotes \/ WrongQuotes' = WrongQuotes \cup {m}
  BY <1>3
<1>8. q.data = [of |-> q.sym, kind |-> "whole"] => m \notin WrongQuotes'
  BY <1>1 DEF WrongQuotes, Poller!Wrong
<1>9. CASE WrongQuotes' = WrongQuotes
  BY <1>5, <1>9
<1>10. CASE WrongQuotes' = WrongQuotes \cup {m}
  <2> HIDE DEF m
  <2> QED BY <1>5, <1>6, <1>8, <1>10
<1> QED BY <1>7, <1>9, <1>10

LEMMA FailedStep == PollerInv /\ Poller!RequestFails => PollerInv'
<1> SUFFICES ASSUME PollerInv, Poller!RequestFails PROVE PollerInv'
  OBVIOUS
<1>1. failures' = failures + 1 /\ UNCHANGED <<answer, quotes>>
      /\ at' = (at % Len(Symbols)) + 1
  BY DEF Poller!RequestFails, Poller!Step
<1>2. at' \in 1 .. Len(Symbols)
  BY <1>1, SymbolsOK DEF PollerInv, PollerTypes
<1>3. ss' \in Seq(Poller!Pieces)
  <2>1. Symbols[at] \in Poller!Names
    BY DEF PollerInv, PollerTypes, Poller!Names
  <2>2. \A kind \in {"whole", "part"} : [of |-> Symbols[at], kind |-> kind] \in Poller!Pieces
    BY <2>1 DEF Poller!Pieces, Poller!Kinds
  <2>3. CASE ss' = ss
    BY <2>3 DEF PollerInv, PollerTypes
  <2>4. CASE \E kind \in {"whole", "part"} : ss' = Append(ss, [of |-> Symbols[at], kind |-> kind])
    BY <2>2, <2>4 DEF PollerInv, PollerTypes
  <2> QED BY <2>3, <2>4 DEF Poller!RequestFails
<1>4. PollerTypes'
  BY <1>1, <1>2, <1>3 DEF PollerInv, PollerTypes
<1>5. Cardinality(WrongQuotes) \in Nat /\ WrongQuotes' = WrongQuotes
  BY <1>1, WrongCounted DEF PollerInv, PollerTypes, WrongQuotes, Poller!Wrong
<1>6. Cardinality(WrongQuotes) <= failures /\ failures \in Nat
  BY <1>5 DEF PollerInv, PollerTypes
<1>7. Cardinality(WrongQuotes)' = Cardinality(WrongQuotes)
  BY <1>5
<1>8. Cardinality(WrongQuotes)' + (IF ss' = << >> THEN 0 ELSE 1) <= failures'
  BY <1>1, <1>5, <1>6, <1>7
<1> QED BY <1>4, <1>8 DEF PollerInv

LEMMA DoneStep == PollerInv /\ Poller!RequestDone => PollerInv'
<1> SUFFICES ASSUME PollerInv, Poller!RequestDone PROVE PollerInv'
  OBVIOUS
<1> DEFINE sym == Symbols[at]
           q   == [sym |-> sym, data |-> answer']
<1>1. PICK kind \in Poller!Kinds \ {"part"} :
        LET content == Append(ss, [of |-> sym, kind |-> kind])
        IN  /\ ss' = Poller!Swapped(content)
            /\ answer' \in Poller!Parsed(content)
            /\ failures' = IF kind = "whole" THEN failures ELSE failures + 1
  BY DEF Poller!RequestDone
<1> DEFINE content == Append(ss, [of |-> sym, kind |-> kind])
<1>2. sym \in Poller!Names /\ [of |-> sym, kind |-> kind] \in Poller!Pieces
  BY DEF PollerInv, PollerTypes, Poller!Names, Poller!Pieces
<1>3. content[1] \in Poller!Pieces
  BY <1>2 DEF PollerInv, PollerTypes
<1>4. ss' = << >> /\ answer' \in Poller!Parsed(content)
      /\ failures' = IF kind = "whole" THEN failures ELSE failures + 1
  BY <1>1 DEF Poller!Swapped
<1>5. answer' \in Poller!Pieces \cup {NoData}
  <2> HIDE DEF content
  <2> QED BY <1>3, <1>4 DEF Poller!Parsed, PollerInv, PollerTypes
<1>6. q \in Quotes
  BY <1>2, <1>5 DEF Quotes
<1>7. quotes' = quotes \/ quotes' = Append(quotes, q)
  BY DEF Poller!RequestDone
<1>8. at' \in 1 .. Len(Symbols)
  BY SymbolsOK DEF Poller!RequestDone, Poller!Step, PollerInv, PollerTypes
<1>9. quotes' \in Seq(Quotes) /\ quotes \in Seq(Quotes)
  <2>1. quotes \in Seq(Quotes)
    BY DEF PollerInv, PollerTypes
  <2> HIDE DEF q
  <2> QED BY <1>6, <1>7, <2>1
<1>10. failures \in Nat /\ failures' \in Nat /\ Cardinality(WrongQuotes) \in Nat
  BY <1>4, <1>9, WrongCounted DEF PollerInv, PollerTypes
<1>11. PollerTypes'
  BY <1>4, <1>5, <1>8, <1>9, <1>10 DEF PollerTypes
<1>12. Cardinality(WrongQuotes') <= failures'
  <2>1. CASE quotes' = quotes
    <3>1. WrongQuotes' = WrongQuotes
      BY <2>1 DEF WrongQuotes, Poller!Wrong
    <3> QED BY <1>4, <1>10, <3>1 DEF PollerInv
  <2>2. CASE quotes' = Append(quotes, q)
    <3>1. Cardinality(WrongQuotes') <= Cardinality(WrongQuotes) + 1
      BY <1>6, <1>9, <2>2, QuoteAdded
    <3>2. Cardinality(WrongQuotes') \in Nat
      <4>1. (quotes \in Seq(Quotes) => IsFiniteSet(WrongQuotes) /\ Cardinality(WrongQuotes) \in Nat)'
        BY WrongCounted, PTL
      <4> QED BY <1>9, <4>1
    <3>3. CASE ss = << >> /\ kind = "whole"
      <4>1. answer' = [of |-> sym, kind |-> "whole"]
        <5>1. content[1] = [of |-> sym, kind |-> "whole"]
          BY <3>3
        <5> HIDE DEF content
        <5> QED BY <1>4, <5>1 DEF Poller!Parsed
      <4>2. q.data = [of |-> q.sym, kind |-> "whole"]
        BY <4>1
      <4> HIDE DEF q
      <4>3. Cardinality(WrongQuotes') = Cardinality(WrongQuotes)
        BY <1>6, <1>9, <2>2, <4>2, QuoteAdded
      <4> QED BY <1>4, <1>10, <3>3, <4>3 DEF PollerInv
    <3>4. CASE ss # << >>
      BY <1>4, <1>10, <3>1, <3>2, <3>4 DEF PollerInv
    <3>5. CASE kind # "whole"
      BY <1>4, <1>10, <3>1, <3>2, <3>5 DEF PollerInv
    <3> QED BY <3>3, <3>4, <3>5
  <2> QED BY <1>7, <2>1, <2>2
<1>13. Cardinality(WrongQuotes)' + (IF ss' = << >> THEN 0 ELSE 1) <= failures'
  <2>1. Cardinality(WrongQuotes') \in Nat
    <3>1. (quotes \in Seq(Quotes) => IsFiniteSet(WrongQuotes) /\ Cardinality(WrongQuotes) \in Nat)'
      BY WrongCounted, PTL
    <3> QED BY <1>9, <3>1
  <2> QED BY <1>4, <1>12, <2>1
<1> QED BY <1>11, <1>13 DEF PollerInv

(* FailuresAreContained: however requests fail and whatever they leave in  *)
(* the stream, each failed request or useless answer spoils one quote at   *)
(* most, for any list of symbols and any number of rounds (queryPrices).   *)
THEOREM FailuresContained == ServicesFair => []FailuresAreContained
<1>1. ServicesInit => PollerInv
  <2>1. Poller!Init => PollerInv
    <3> SUFFICES ASSUME Poller!Init PROVE PollerInv
      OBVIOUS
    <3>1. PollerTypes
      BY SymbolsOK DEF Poller!Init, PollerTypes
    <3>2. WrongQuotes = {}
      BY DEF Poller!Init, WrongQuotes
    <3> QED BY <3>1, <3>2, FS_EmptySet DEF PollerInv, Poller!Init
  <2> QED BY <2>1 DEF ServicesInit
<1>2. PollerInv /\ [ServicesNext]_services => PollerInv'
  <2> SUFFICES ASSUME PollerInv, [ServicesNext]_services PROVE PollerInv'
    OBVIOUS
  <2>1. CASE Poller!Next
    BY <2>1, FailedStep, DoneStep DEF Poller!Next
  <2>2. CASE UNCHANGED ofPoller
    BY <2>2 DEF ofPoller, PollerInv, PollerTypes, WrongQuotes, Poller!Wrong
  <2> QED BY <2>1, <2>2, PartSteps
<1>3. PollerInv => FailuresAreContained
  <2> SUFFICES ASSUME PollerInv PROVE FailuresAreContained
    OBVIOUS
  <2>1. Cardinality(WrongQuotes) \in Nat /\ failures \in Nat
    BY WrongCounted DEF PollerInv, PollerTypes
  <2>2. Cardinality(WrongQuotes) <= failures
    BY <2>1 DEF PollerInv
  <2>3. Poller!Cardinality(WrongQuotes) = Cardinality(WrongQuotes)
    BY DEF Poller!Cardinality, Cardinality
  <2> QED BY <2>2, <2>3 DEF FailuresAreContained, Poller!FailuresAreContained, WrongQuotes
<1> QED BY <1>1, <1>2, <1>3, PTL DEF ServicesFair
=============================================================================
