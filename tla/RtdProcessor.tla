---------------------------- MODULE RtdProcessor ----------------------------
(***************************************************************************)
(* The life of the program (rtdprocessor.cpp): main starts the session     *)
(* thread, waits on a condition variable for the subscription, starts the  *)
(* processor, the scheduler and the logger, and returns, which destroys    *)
(* its locals in reverse order, each jthread joining its thread.  What the *)
(* three worker threads do meanwhile is in StreamProcessor.                *)
(***************************************************************************)
EXTENDS WSSession, Sequences

VARIABLES
  mainPc,
  workers,  \* how many of the worker threads main has started and not joined
  running,  \* the worker threads that have not ended
  alive     \* the objects of main that the other threads refer to

vars == <<stop, terminated, sessionVars, mainPc, workers, running, alive>>

Worker  == {"processor", "scheduler", "logger"}
Workers == <<"processor", "scheduler", "logger">>
Objects == {"condVar", "queue", "map", "streamProcessor", "scheduler"}

Init ==
  /\ SessionInit
  /\ mainPc = "spawn" /\ workers = 0 /\ running = {} /\ alive = {"condVar", "queue"}

(* Types of the variables.                                                 *)
TypeOK ==
  /\ SessionTypeOK
  /\ mainPc \in {"spawn", "wait", "waiting", "start", "join", "joinWs", "exited"}
  /\ workers \in 0 .. Len(Workers)
  /\ running \subseteq Worker
  /\ alive \subseteq Objects

-----------------------------------------------------------------------------
MainGoes(from, to) == ~terminated /\ mainPc = from /\ mainPc' = to
MainOnly == UNCHANGED <<stop, terminated, ioStop, connVars, ioVars>>

SpawnSession ==
  /\ MainGoes("spawn", "wait") /\ wsPc' = "configure"
  /\ MainOnly /\ UNCHANGED <<cvWaiting, workers, running, alive>>

(* condVar.wait(lck), without a predicate                                  *)
Wait ==
  /\ MainGoes("wait", "waiting") /\ cvWaiting' = TRUE
  /\ MainOnly /\ UNCHANGED <<wsPc, workers, running, alive>>

SpuriousWakeup ==
  /\ MainGoes("waiting", "waiting") /\ cvWaiting /\ cvWaiting' = FALSE
  /\ MainOnly /\ UNCHANGED <<wsPc, workers, running, alive>>

(* The map, the stream processor and the scheduler are constructed.        *)
Woken ==
  /\ MainGoes("waiting", "start") /\ ~cvWaiting
  /\ alive' = Objects
  /\ MainOnly /\ UNCHANGED <<cvWaiting, wsPc, workers, running>>

(* sp.start, scheduler.start, and the construction of loggerThread         *)
StartWorker ==
  /\ workers < Len(Workers)
  /\ MainGoes("start", IF workers + 1 = Len(Workers) THEN "join" ELSE "start")
  /\ workers' = workers + 1 /\ running' = running \cup {Workers[workers + 1]}
  /\ MainOnly /\ UNCHANGED <<cvWaiting, wsPc, alive>>

(* What is destroyed when the thread of w has been joined.  Fault: the map *)
(* is declared last.                                                       *)
Destroyed_MapFirst(w) == CASE w = "logger"    -> {"map"}
                           [] w = "scheduler" -> {"scheduler"}
                           [] w = "processor" -> {"streamProcessor"}
Destroyed(w) == CASE w = "logger"    -> {}
                  [] w = "scheduler" -> {"scheduler"}
                  [] w = "processor" -> {"streamProcessor", "map"}

(* The destructors of loggerThread, scheduler, sp and symbolStateMap       *)
JoinWorker ==
  /\ workers > 0 /\ Workers[workers] \notin running
  /\ MainGoes("join", IF workers = 1 THEN "joinWs" ELSE "join")
  /\ workers' = workers - 1 /\ alive' = alive \ Destroyed(Workers[workers])
  /\ MainOnly /\ UNCHANGED <<cvWaiting, wsPc, running>>

(* The destructors of ws_thread, q and condVar                             *)
JoinSession ==
  /\ wsPc = "done" /\ MainGoes("joinWs", "exited") /\ alive' = {}
  /\ MainOnly /\ UNCHANGED <<cvWaiting, wsPc, workers, running>>

Main == SpawnSession \/ Wait \/ Woken \/ StartWorker \/ JoinWorker \/ JoinSession

-----------------------------------------------------------------------------
(* A worker thread leaves its loop when it sees the stop request.          *)
WorkerExit(w) ==
  /\ ~terminated /\ w \in running /\ stop
  /\ running' = running \ {w}
  /\ UNCHANGED <<stop, terminated, sessionVars, mainPc, workers, alive>>

(* handle_sigint                                                           *)
Sigint ==
  /\ ~terminated /\ ~stop /\ stop' = TRUE
  /\ UNCHANGED <<terminated, sessionVars, mainPc, workers, running, alive>>

Session == (WsThread \/ IoThread \/ Network) /\ UNCHANGED <<mainPc, workers, running, alive>>

Next ==
  \/ Main \/ SpuriousWakeup \/ Sigint \/ Session
  \/ \E w \in Worker : WorkerExit(w)

Spec == Init /\ [][Next]_vars

(* Every thread of the program runs again and again; nothing is assumed of *)
(* the network, the user or spurious wake-ups.                             *)
FairSpec ==
  /\ Spec /\ WF_vars(Main)
  /\ WF_vars(WsThread /\ UNCHANGED <<mainPc, workers, running, alive>>)
  /\ WF_vars(IoThread /\ UNCHANGED <<mainPc, workers, running, alive>>)
  /\ \A w \in Worker : WF_vars(WorkerExit(w))

-----------------------------------------------------------------------------
(* No thread runs past the life of an object it refers to: the order of    *)
(* the locals of main, and the joins of their destructors, keep the map,   *)
(* the queue, the condition variable, the stream processor and the session *)
(* alive for as long as a thread may use them.                             *)
UsedObjectsAlive ==
  /\ running # {} => "map" \in alive
  /\ "processor" \in running => {"streamProcessor", "queue"} \subseteq alive
  /\ "scheduler" \in running => {"streamProcessor", "scheduler"} \subseteq alive
  /\ "logger" \in running => "queue" \in alive
  /\ ioPc \notin {"none", "done"} => {"queue", "condVar"} \subseteq alive /\ wsPc # "done"

(* When on_open is over and no shutdown is in progress, every subscription *)
(* of the configuration has been sent.                                     *)
OpenSubscribes == opened /\ ~stop => sent = Subscriptions

(* A stop request ends the session thread and io_thread, in whatever state *)
(* the connection is.                                                      *)
StopEndsSession == stop /\ wsPc # "none" ~> terminated \/ (wsPc = "done" /\ ioPc \in {"none", "done"})

(* Once main has started its workers a stop request ends the program.      *)
StopEndsProgram == stop /\ mainPc \notin {"spawn", "wait", "waiting"}
                     ~> terminated \/ mainPc = "exited"

(* rtdprocessor.cpp:58: "we wait until we are subscribed before            *)
(* continuing": once we are subscribed, main continues.                    *)
SubscribedContinues == opened ~> terminated \/ mainPc \notin {"spawn", "wait", "waiting"}

(* WSSession.cpp:127: io_thread runs until a stop is requested "OR         *)
(* connection ends".                                                       *)
ConnectionEndEndsIo == conn = "closed" ~> terminated \/ ioPc = "done"
=============================================================================
