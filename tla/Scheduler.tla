------------------------------- MODULE Scheduler -------------------------------
(***************************************************************************)
(* The timer of Scheduler::run: deadlines on a grid that starts when the   *)
(* thread does, the wait that a stop request or a notification interrupts, *)
(* and the computation, which runs without the lock and may outlast its    *)
(* interval.  StreamProcessor has the computation itself, and lets a tick  *)
(* come at any time.                                                       *)
(***************************************************************************)
EXTENDS Integers

CONSTANTS
  Interval,   \* between two ticks
  MaxSteady   \* bound: last value of the steady clock

VARIABLES
  steady,     \* steady_clock::now()
  st,         \* stop requested on the token run() was given
  worker_st,  \* stop requested on the jthread's own token, by stop()
  runPc,      \* run(): where the thread is
  began,      \* when run() computed its first deadline (history)
  next_tick,  \* the deadline
  computed,   \* computations begun (history)
  extra       \* of these, begun after the stop request (history)

vars == <<steady, st, worker_st, runPc, began, next_tick, computed, extra>>

TypeOK ==
  /\ steady \in 0 .. MaxSteady /\ st \in BOOLEAN /\ worker_st \in BOOLEAN
  /\ runPc \in {"starting", "loop", "armed", "waiting", "computing", "stopped"}
  /\ began \in Nat /\ next_tick \in Nat /\ computed \in Nat /\ extra \in Nat

Init ==
  /\ steady = 0 /\ st = FALSE /\ worker_st = FALSE
  /\ runPc = "starting" /\ began = 0 /\ next_tick = 0 /\ computed = 0 /\ extra = 0

Advance ==
  /\ steady < MaxSteady /\ steady' = steady + 1
  /\ UNCHANGED <<st, worker_st, runPc, began, next_tick, computed, extra>>

RequestStop ==
  /\ ~st /\ st' = TRUE
  /\ UNCHANGED <<steady, worker_st, runPc, began, next_tick, computed, extra>>

(* stop(): the worker's own token, which run() never looks at, and a       *)
(* notification, after which the wait tests its predicate and goes on.     *)
Stop ==
  /\ ~worker_st /\ worker_st' = TRUE
  /\ runPc' = IF runPc = "waiting" THEN "armed" ELSE runPc
  /\ UNCHANGED <<steady, st, began, next_tick, computed, extra>>

(* The first deadline.                                                     *)
Begin ==
  /\ runPc = "starting" /\ runPc' = "loop"
  /\ began' = steady /\ next_tick' = steady + Interval
  /\ UNCHANGED <<steady, st, worker_st, computed, extra>>

(* Fault: the loop does not look at the token.                             *)
Test_Never ==
  /\ runPc = "loop" /\ runPc' = "armed"
  /\ UNCHANGED <<steady, st, worker_st, began, next_tick, computed, extra>>

(* The condition of the loop, and the predicate that wait_until tests      *)
(* before it waits.                                                        *)
Test ==
  /\ runPc = "loop" /\ runPc' = IF st THEN "stopped" ELSE "armed"
  /\ UNCHANGED <<steady, st, worker_st, began, next_tick, computed, extra>>

(* The bound is never met: there are fewer intervals.                      *)
Compute ==
  /\ computed < MaxSteady
  /\ runPc' = "computing" /\ computed' = computed + 1
  /\ extra' = IF st THEN extra + 1 ELSE extra
  /\ UNCHANGED <<steady, st, worker_st, began, next_tick>>

(* wait_until looks at the token between the predicate and the wait: a     *)
(* stop request in between makes it return false.                          *)
Arm ==
  /\ runPc = "armed"
  /\ \/ st /\ Compute
     \/ /\ ~st /\ runPc' = "waiting"
        /\ UNCHANGED <<steady, st, worker_st, began, next_tick, computed, extra>>

(* The deadline has passed and the predicate is false: wait_until returns  *)
(* false.                                                                  *)
Timeout == runPc = "waiting" /\ steady >= next_tick /\ ~st /\ Compute

(* The wait ends and the predicate is true: break.                         *)
StopWait ==
  /\ runPc = "waiting" /\ st /\ runPc' = "stopped"
  /\ UNCHANGED <<steady, st, worker_st, began, next_tick, computed, extra>>

(* Faults: the deadline stays, or the ticks that were missed are skipped.  *)
NextTick_Kept == next_tick
NextTick_SkipMissed ==
  CHOOSE t \in 1 .. steady + Interval :
    t > steady /\ t - steady <= Interval /\ (t - began) % Interval = 0
NextTick == next_tick + Interval

(* computeFeatures returns.                                                *)
Computed ==
  /\ runPc = "computing" /\ runPc' = "loop"
  /\ next_tick' = NextTick
  /\ UNCHANGED <<steady, st, worker_st, began, computed, extra>>

Run == Begin \/ Test \/ Arm \/ Timeout \/ StopWait \/ Computed

Next == Advance \/ RequestStop \/ Stop \/ Run

Spec == Init /\ [][Next]_vars

(* The thread runs, and computeFeatures returns (StreamProcessor).         *)
FairSpec == Spec /\ WF_vars(Run)

-----------------------------------------------------------------------------
(* The features are never computed more often than intervals have passed,  *)
(* also while the thread catches up, but for one after a stop.             *)
NotTooOften == (computed - extra) * Interval <= steady - began /\ extra <= 1

(* Ticks missed during a long computation are made up for: as many         *)
(* computations take place as intervals have passed, unless stopped.  A    *)
(* stop of the own token only (stop()) does not count.                     *)
TicksMadeUp ==
  \A k \in 1 .. MaxSteady \div Interval :
    (runPc # "starting" /\ steady >= began + k * Interval) ~> (computed >= k \/ st)

(* A stop request on the token ends the thread, wherever it is.            *)
StopEndsRun == st ~> runPc = "stopped"
=============================================================================
