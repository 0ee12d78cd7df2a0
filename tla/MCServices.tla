------------------------------ MODULE MCServices ------------------------------
(***************************************************************************)
(* The parts that run, wait and must end, for TLC, side by side: the life  *)
(* cycle of the program (RtdProcessor), Scheduler::run, queryPrices,       *)
(* parlay's work-stealing scheduler and its atomic wait.  They share       *)
(* nothing here, so a behaviour is one of a single part.                   *)
(***************************************************************************)
EXTENDS MCRtdProcessor

CONSTANTS
  Interval, MaxSteady,                  \* Scheduler
  Symbols, NoData, MaxQueries,          \* queryPrices
  Waiters, Notifiers, Strategies, Nobody, MaxNotifies,  \* atomic wait
  Absent

ASSUME IntervalOK == Interval \in Nat
ASSUME SymbolsOK  == Len(Symbols) \in Nat \ {0}

VARIABLES
  service,  \* the part
  steady, st, worker_st, runPc, began, next_tick, computed, extra,
  at, ss, answer, quotes, polling, queries, failures,
  bot, age, deq, frames, pc, reg, n, granularity, conservative, done, finished, num_awake,
  num_finished, changed, ran, ok,
  strategy, value, notifies, flag, version, mutex, wpc, expected, seen, npc

Timer  == INSTANCE Scheduler
Poller == INSTANCE QuotePoller WITH data <- answer, alive <- polling
Pool   == INSTANCE WorkStealing WITH P <- 2, Sizes <- {5}, Grains <- {0, 1}, QSize <- 4
Waiting  == INSTANCE AtomicWait WITH Versions <- 2

ofTimer  == <<steady, st, worker_st, runPc, began, next_tick, computed, extra>>
ofPoller == <<at, ss, answer, quotes, polling, queries, failures>>
ofPool   == <<bot, age, deq, frames, pc, reg, n, granularity, conservative, done, finished,
              num_awake, num_finished, changed, ran, ok>>
ofWait   == <<strategy, value, notifies, flag, version, mutex, wpc, expected, seen, npc>>
services == <<service, vars, ofTimer, ofPoller, ofPool, ofWait>>

NoPool == bot = Absent /\ age = Absent /\ deq = Absent /\ frames = Absent /\ pc = Absent
          /\ reg = Absent /\ n = Absent /\ granularity = Absent /\ conservative = Absent
          /\ done = Absent /\ finished = Absent /\ num_awake = Absent /\ num_finished = Absent
          /\ changed = Absent /\ ran = Absent /\ ok = Absent
NoWait == strategy = Absent /\ value = Absent /\ notifies = Absent /\ flag = Absent
          /\ version = Absent /\ mutex = Absent /\ wpc = Absent /\ expected = Absent
          /\ seen = Absent /\ npc = Absent

ServicesInit ==
  /\ Init /\ Timer!Init /\ Poller!Init
  /\ \/ service \in {"program", "timer", "poller"} /\ NoPool /\ NoWait
     \/ service = "pool" /\ Pool!Init /\ NoWait
     \/ service = "wait" /\ Waiting!Init /\ NoPool

(* A step of one part.                                                     *)
Program(A) == service = "program" /\ A /\ UNCHANGED <<service, ofTimer, ofPoller, ofPool, ofWait>>
Timers(A)  == service = "timer" /\ A /\ UNCHANGED <<service, vars, ofPoller, ofPool, ofWait>>
Polls(A)   == service = "poller" /\ A /\ UNCHANGED <<service, vars, ofTimer, ofPool, ofWait>>
Pools(A)   == service = "pool" /\ A /\ UNCHANGED <<service, vars, ofTimer, ofPoller, ofWait>>
Waits(A)   == service = "wait" /\ A /\ UNCHANGED <<service, vars, ofTimer, ofPoller, ofPool>>

ServicesNext ==
  Program(Next) \/ Timers(Timer!Next) \/ Polls(Poller!Next) \/ Pools(Pool!Next) \/ Waits(Waiting!Next)

(* The fairness of each part; that of the program is that of FairSpec.  In *)
(* a behaviour of one part the steps of another are never enabled, so that *)
(* a condition on a disjunction of them is one on each.                    *)
ServicesFair ==
  /\ ServicesInit /\ [][ServicesNext]_services
  /\ WF_services(Program(Main) \/ Timers(Timer!Run) \/ Pools(Pool!Step(0)))
  /\ WF_services(\/ Program(WsThread /\ UNCHANGED <<mainPc, workers, running, alive>>)
                 \/ Pools(Pool!Step(1)))
  /\ WF_services(Program(IoThread /\ UNCHANGED <<mainPc, workers, running, alive>>))
  /\ \A w \in Worker : WF_services(Program(WorkerExit(w)))
  /\ \A w \in Waiters : WF_services(Waits(Waiting!Wait(w))) /\ SF_services(Waits(Waiting!Lock(w)))
  /\ \A k \in Notifiers : WF_services(Waits(Waiting!Notify(k))) /\ SF_services(Waits(Waiting!PassMutex(k)))

-----------------------------------------------------------------------------
(* Scheduler: no more computations than intervals have passed, but for one *)
(* after a stop; missed ticks are made up for; a stop ends the thread.     *)
NotTooOften  == Timer!NotTooOften
TicksMadeUp  == service = "timer" => Timer!TicksMadeUp
StopEndsRun  == service = "timer" => Timer!StopEndsRun

(* Quote poller: a failure spoils one quote at most.                       *)
FailuresAreContained == Poller!FailuresAreContained

(* Work stealing: the loop returns and the scheduler can be destroyed.     *)
SchedulerEnds == <>(service # "pool" \/ Pool!Ended)

(* Atomic wait: a waiter whose value has changed returns.                  *)
ChangeIsNoticed ==
  \A w \in Waiters :
    (service = "wait" /\ Waiting!Changed(w)) ~> (service = "wait" /\ Waiting!Returned(w))

MCSymbols == <<"AMZN", "GOOG">>
=============================================================================
