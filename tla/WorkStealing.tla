------------------------------ MODULE WorkStealing ------------------------------
(***************************************************************************)
(* Parlay's scheduler (scheduler.h, work_stealing_deque.h): parallel_for   *)
(* forks the halves of a range, the right half as a job on the worker's    *)
(* own deque, from which other workers steal; workers that find nothing go *)
(* to sleep, and the destructor wakes them until all have finished.        *)
(*                                                                         *)
(* One action is one access to shared memory, with the local work around   *)
(* it.  Memory is sequentially consistent: the fence of pop_bottom and the *)
(* compare-exchanges are what the code relies on for that.                 *)
(***************************************************************************)
EXTENDS Integers, Sequences, FiniteSets

CONSTANTS
  P,       \* num_threads; worker 0 is the thread that made the scheduler
  Sizes,   \* the loops to run: the number of iterations
  Grains,  \* the granularity arguments, 0 for "let the scheduler decide"
  QSize    \* bound: slots of a deque (q_size is 1000)

(* There is a worker and a slot; loops and grains are of any size.         *)
Params == P \in Nat \ {0} /\ QSize \in Nat \ {0} /\ Sizes \subseteq Nat /\ Grains \subseteq Nat

Workers == 0 .. P - 1
NoJob   == << >>  \* nullptr; a job is the range <<start, end>> it is for

VARIABLES
  bot, age, deq,  \* the deques
  frames,         \* the calls of each worker's stack, innermost first
  pc, reg,        \* where a worker is, and its local variables
  n, granularity, conservative,  \* of the loop
  done,           \* jobs that are finished
  finished,       \* finished_flag
  num_awake, num_finished,
  changed,        \* workers whose value of wake_up_counter is outdated
  ran,            \* calls of f(i) (history)
  ok              \* no assertion has failed (history)

deques == <<bot, age, deq>>
loop   == <<n, granularity, conservative>>
sleep  == <<num_awake, changed>>
hist   == <<ran, ok>>
vars   == <<deques, frames, pc, reg, loop, done, finished, num_finished, sleep, hist>>

NoReg == [who |-> 0, age |-> [tag |-> 0, top |-> 0], bot |-> 0, job |-> NoJob]

(* A call of parfor_ on <<start, end>>; job is the job whose execution it  *)
(* is, if it is one.                                                       *)
Frame(range, job) == [range |-> range, at |-> "enter", job |-> job]

Init ==
  /\ bot = [w \in Workers |-> 0]
  /\ age = [w \in Workers |-> [tag |-> 0, top |-> 0]]
  /\ deq = [w \in Workers |-> [k \in 0 .. QSize - 1 |-> NoJob]]
  /\ frames = [w \in Workers |-> << >>]
  /\ pc = [w \in Workers |-> IF w = 0 THEN "parallel_for" ELSE "sleep"]
  /\ reg = [w \in Workers |-> NoReg]
  /\ n \in Sizes /\ granularity \in Grains /\ conservative \in BOOLEAN
  /\ done = {} /\ finished = FALSE
  /\ num_awake = P /\ num_finished = 0 /\ changed = {}
  /\ ran = [i \in 0 .. n - 1 |-> 0] /\ ok = TRUE

Top(w)     == Head(frames[w])
Goto(w, l) == pc' = [pc EXCEPT ![w] = l]
Enter(w, range, job) ==
  frames' = [frames EXCEPT ![w] = <<Frame(range, job)>> \o @]
Ran(from, to) == ran' = [i \in DOMAIN ran |-> IF i \in from .. to - 1 THEN ran[i] + 1 ELSE ran[i]]

Mid(r)   == r[1] + (9 * (r[2] - r[1] + 1)) \div 16
Left(r)  == <<r[1], Mid(r)>>
Right(r) == <<Mid(r), r[2]>>

(* get_granularity: batches of 1, 2, 4, ... iterations until one takes a   *)
(* microsecond.                                                            *)
Batches == {b \in 1 .. n : b = n \/ \E k \in 1 .. n : b = 2 ^ k - 1}
BiggerOf(a, b) == IF a > b THEN a ELSE b

(* parallel_for and parfor: a loop that is no longer than the granularity  *)
(* runs at once; else the first iterations measure the granularity, unless *)
(* it is given.                                                            *)
ParallelFor(w) ==
  /\ pc[w] = "parallel_for"
  /\ \/ /\ n = 1 \/ n <= granularity
        /\ Ran(0, n) /\ Goto(w, "shutdown")
        /\ UNCHANGED <<frames, granularity>>
     \/ /\ n > 1 /\ n > granularity /\ granularity > 0
        /\ Enter(w, <<0, n>>, NoJob) /\ Goto(w, "run")
        /\ UNCHANGED <<ran, granularity>>
     \/ /\ n > 1 /\ granularity = 0
        /\ \E batch \in Batches :
             /\ Ran(0, batch)
             /\ granularity' = BiggerOf(batch, n \div (128 * P))
             /\ Enter(w, <<batch, n>>, NoJob) /\ Goto(w, "run")
  /\ UNCHANGED <<deques, reg, n, conservative, done, finished, num_finished, sleep, ok>>

(* The innermost call returns: to the loop that runs jobs if it was a job, *)
(* which is finished then; else to the pardo that called it as its left    *)
(* half, or to the caller of parallel_for, who drops the scheduler.        *)
Return(w) ==
  /\ frames' = [frames EXCEPT ![w] = Tail(@)]
  /\ done' = IF Top(w).job = NoJob THEN done ELSE done \cup {Top(w).job}
  /\ Goto(w, IF Top(w).job # NoJob THEN "find"
             ELSE IF Len(frames[w]) > 1 THEN "pop" ELSE "shutdown")

(* parfor_ on a range not above the granularity.                           *)
Iterate(w) ==
  /\ pc[w] = "run" /\ Top(w).range[2] - Top(w).range[1] <= granularity
  /\ Ran(Top(w).range[1], Top(w).range[2])
  /\ Return(w)
  /\ UNCHANGED <<deques, reg, loop, finished, num_finished, sleep, ok>>

(* pardo, spawn, push_bottom: the slot, then bot; the first job of a deque *)
(* wakes a worker.  A deque that is full aborts the program.               *)
Spawn(w) ==
  /\ pc[w] = "run" /\ Top(w).range[2] - Top(w).range[1] > granularity
  /\ deq' = [deq EXCEPT ![w][bot[w]] = Right(Top(w).range)]
  /\ Goto(w, "publish")
  /\ UNCHANGED <<bot, age, frames, reg, loop, done, finished, num_finished, sleep, hist>>

Publish(w) ==
  /\ pc[w] = "publish" /\ bot[w] + 1 < QSize
  /\ bot' = [bot EXCEPT ![w] = @ + 1]
  /\ frames' = [frames EXCEPT ![w] =
       <<Frame(Left(Top(w).range), NoJob), [Top(w) EXCEPT !.at = "left"]>> \o Tail(@)]
  /\ Goto(w, IF bot[w] = 0 THEN "wake" ELSE "run")
  /\ UNCHANGED <<age, deq, reg, loop, done, finished, num_finished, sleep, hist>>

(* wake_up_a_worker: only if one sleeps; the counter, then notify_one,     *)
(* which wakes at least one.  Then the left half, or the stolen job.       *)
AfterWake(w) == IF frames[w] # << >> /\ Top(w).at = "enter" THEN "run" ELSE "stolen"

Awaken(w) ==
  /\ pc[w] = "wake"
  /\ Goto(w, IF num_awake < P THEN "count" ELSE AfterWake(w))
  /\ UNCHANGED <<deques, frames, reg, loop, done, finished, num_finished, sleep, hist>>

Sleepers == {w \in Workers : pc[w] = "asleep"}
Waiting  == {w \in Workers : pc[w] \in {"block", "asleep"}}

Count(w) ==
  /\ pc[w] \in {"count", "count_all"}
  /\ changed' = changed \cup Waiting
  /\ Goto(w, IF pc[w] = "count" THEN "notify" ELSE "notify_all")
  /\ UNCHANGED <<deques, frames, reg, loop, done, finished, num_finished, num_awake, hist>>

Notify(w) ==
  /\ pc[w] = "notify"
  /\ \E woken \in SUBSET Sleepers :
       /\ woken = {} <=> Sleepers = {}
       /\ pc' = [v \in Workers |-> IF v \in woken THEN "woken" ELSE IF v = w THEN AfterWake(w) ELSE pc[v]]
  /\ UNCHANGED <<deques, frames, reg, loop, done, finished, num_finished, sleep, hist>>

(* What pardo does with the answer of get_own_job: it runs its right half  *)
(* if it got a job, which must be that half's, else it waits for it.       *)
(* And what the loops of worker and do_work_until do with the answer of    *)
(* get_job's first try: they run the job, else they try to steal one.      *)
InPardo(w) == frames[w] # << >> /\ Top(w).at = "left"
Run(w, job) ==
  /\ Enter(w, job, job) /\ Goto(w, "run") /\ ok' = (ok /\ job \notin done)
Popped(w, job) ==
  /\ reg' = [reg EXCEPT ![w] = NoReg]
  /\ \/ /\ InPardo(w) /\ job # NoJob
        /\ frames' = [frames EXCEPT ![w] = <<Frame(Right(Top(w).range), Top(w).job)>> \o Tail(@)]
        /\ ok' = (ok /\ job = Right(Top(w).range))
        /\ Goto(w, "run")
     \/ /\ InPardo(w) /\ job = NoJob
        /\ frames' = [frames EXCEPT ![w] = <<[Top(w) EXCEPT !.at = "join"]>> \o Tail(@)]
        /\ Goto(w, "find") /\ UNCHANGED ok
     \/ ~InPardo(w) /\ job # NoJob /\ Run(w, job)
     \/ ~InPardo(w) /\ job = NoJob /\ Goto(w, "steal") /\ UNCHANGED <<frames, ok>>

(* pop_bottom, from the decrement of bot to the answer.                    *)
PopBottom(w) ==
  /\ pc[w] = "pop"
  /\ \/ bot[w] = 0 /\ Popped(w, NoJob) /\ UNCHANGED bot
     \/ /\ bot[w] # 0 /\ bot' = [bot EXCEPT ![w] = @ - 1] /\ Goto(w, "pop_age")
        /\ UNCHANGED <<frames, reg, ok>>
  /\ UNCHANGED <<age, deq, loop, done, finished, num_finished, sleep, ran>>

PopAge(w) ==
  /\ pc[w] = "pop_age"
  /\ \/ bot[w] > age[w].top /\ Popped(w, deq[w][bot[w]])
     \/ /\ bot[w] <= age[w].top
        /\ reg' = [reg EXCEPT ![w] = [who |-> w, age |-> age[w], bot |-> bot[w], job |-> deq[w][bot[w]]]]
        /\ Goto(w, "pop_reset") /\ UNCHANGED <<frames, ok>>
  /\ UNCHANGED <<deques, loop, done, finished, num_finished, sleep, ran>>

PopReset(w) ==
  /\ pc[w] = "pop_reset"
  /\ bot' = [bot EXCEPT ![w] = 0]
  /\ Goto(w, IF reg[w].bot = reg[w].age.top THEN "pop_last" ELSE "pop_tag")
  /\ UNCHANGED <<age, deq, frames, reg, loop, done, finished, num_finished, sleep, hist>>

(* Fault: the tag stays.                                                   *)
NextAge_SameTag(old) == [tag |-> old.tag, top |-> 0]
NextAge(old) == [tag |-> old.tag + 1, top |-> 0]

PopLast(w) ==
  /\ pc[w] = "pop_last"
  /\ \/ /\ age[w] = reg[w].age
        /\ age' = [age EXCEPT ![w] = NextAge(reg[w].age)]
        /\ Popped(w, reg[w].job)
     \/ age[w] # reg[w].age /\ Goto(w, "pop_tag") /\ UNCHANGED <<age, frames, reg, ok>>
  /\ UNCHANGED <<bot, deq, loop, done, finished, num_finished, sleep, ran>>

PopTag(w) ==
  /\ pc[w] = "pop_tag"
  /\ age' = [age EXCEPT ![w] = NextAge(reg[w].age)]
  /\ Popped(w, NoJob)
  /\ UNCHANGED <<bot, deq, loop, done, finished, num_finished, sleep, ran>>

(* break_early: the job pardo waits for is finished, or the scheduler is.  *)
Done(w) == IF frames[w] = << >> THEN finished ELSE Right(Top(w).range) \in done

(* get_job of do_work_until and of worker, up to the own deque; or the     *)
(* busy wait of a conservative join.  When the wait is over pardo returns, *)
(* or the worker leaves its loop.  Fault: a join gives up after a while.    *)
Find_TimesOut(w) ==
  /\ pc[w] \in {"find", "steal"} /\ (Done(w) \/ (pc[w] = "steal" /\ frames[w] # << >>))
  /\ \/ /\ frames[w] # << >> /\ Return(w)
        /\ ok' = (ok /\ Right(Top(w).range) \in done)
     \/ /\ frames[w] = << >> /\ Goto(w, "exit") /\ UNCHANGED <<frames, done, ok>>
  /\ UNCHANGED <<deques, reg, loop, finished, num_finished, sleep, ran>>
Find(w) ==
  /\ pc[w] \in {"find", "steal"} /\ Done(w)
  /\ \/ /\ frames[w] # << >> /\ Return(w)
        /\ ok' = (ok /\ Right(Top(w).range) \in done)
     \/ /\ frames[w] = << >> /\ Goto(w, "exit") /\ UNCHANGED <<frames, done, ok>>
  /\ UNCHANGED <<deques, reg, loop, finished, num_finished, sleep, ran>>

TryOwn(w) ==
  /\ pc[w] = "find" /\ ~Done(w) /\ (frames[w] = << >> \/ ~conservative)
  /\ Goto(w, "pop")
  /\ UNCHANGED <<deques, frames, reg, loop, done, finished, num_finished, sleep, hist>>

(* steal_job, try_steal: pop_top on some deque, the own one included.      *)
Steal(w) ==
  /\ pc[w] = "steal" /\ ~Done(w)
  /\ \E who \in Workers : reg' = [reg EXCEPT ![w] = [NoReg EXCEPT !.who = who, !.age = age[who]]]
  /\ Goto(w, "steal_bot")
  /\ UNCHANGED <<deques, frames, loop, done, finished, num_finished, sleep, hist>>

StealBot(w) ==
  LET r == reg[w] IN
  /\ pc[w] = "steal_bot"
  /\ \/ /\ bot[r.who] > r.age.top
        /\ reg' = [reg EXCEPT ![w].bot = bot[r.who]] /\ Goto(w, "steal_slot")
     \/ /\ bot[r.who] <= r.age.top
        /\ reg' = [reg EXCEPT ![w] = NoReg] /\ Goto(w, "steal")
  /\ UNCHANGED <<deques, frames, loop, done, finished, num_finished, sleep, hist>>

StealSlot(w) ==
  /\ pc[w] = "steal_slot"
  /\ reg' = [reg EXCEPT ![w].job = deq[reg[w].who][reg[w].age.top]]
  /\ Goto(w, "steal_age")
  /\ UNCHANGED <<deques, frames, loop, done, finished, num_finished, sleep, hist>>

(* If the deque looks as if it held more than that job, another worker is  *)
(* woken before the job is run.                                            *)
Stole(w, job, top) ==
  LET more == reg[w].bot # top + 1 IN
  /\ reg' = [reg EXCEPT ![w] = IF more THEN [NoReg EXCEPT !.job = job] ELSE NoReg]
  /\ \/ more /\ Goto(w, "wake") /\ UNCHANGED <<frames, ok>>
     \/ ~more /\ job # NoJob /\ Run(w, job)
     \/ ~more /\ job = NoJob /\ Goto(w, "steal") /\ UNCHANGED <<frames, ok>>

StealAge(w) ==
  LET r == reg[w] IN
  /\ pc[w] = "steal_age"
  /\ \/ /\ age[r.who] = r.age
        /\ age' = [age EXCEPT ![r.who].top = @ + 1]
        /\ Stole(w, r.job, r.age.top)
     \/ age[r.who] # r.age /\ Stole(w, NoJob, age[r.who].top) /\ UNCHANGED age
  /\ UNCHANGED <<bot, deq, loop, done, finished, num_finished, sleep, ran>>

Stolen(w) ==
  /\ pc[w] = "stolen"
  /\ reg' = [reg EXCEPT ![w] = NoReg]
  /\ \/ reg[w].job # NoJob /\ Run(w, reg[w].job)
     \/ reg[w].job = NoJob /\ Goto(w, "steal") /\ UNCHANGED <<frames, ok>>
  /\ UNCHANGED <<deques, loop, done, finished, num_finished, sleep, ran>>

(* steal_job times out for a worker, never for a join: the worker sleeps.  *)
(* Fault: without taking itself off the count.                             *)
GiveUp(w) == pc[w] = "steal" /\ frames[w] = << >> /\ ~finished
Sleep_Uncounted(w) ==
  /\ pc[w] = "sleep" \/ GiveUp(w)
  /\ Goto(w, "wait")
  /\ UNCHANGED <<deques, frames, reg, loop, done, finished, num_finished, sleep, hist>>
Sleep(w) ==
  /\ pc[w] = "sleep" \/ GiveUp(w)
  /\ num_awake' = num_awake - 1 /\ Goto(w, "wait")
  /\ UNCHANGED <<deques, frames, reg, loop, done, finished, num_finished, changed, hist>>

(* atomic_wait on the value loaded here.                                   *)
Load(w) ==
  /\ pc[w] = "wait" /\ Goto(w, "block") /\ changed' = changed \ {w}
  /\ UNCHANGED <<deques, frames, reg, loop, done, finished, num_finished, num_awake, hist>>

Block(w) ==
  /\ pc[w] = "block" /\ Goto(w, IF w \in changed THEN "woken" ELSE "asleep")
  /\ UNCHANGED <<deques, frames, reg, loop, done, finished, num_finished, sleep, hist>>

Woken(w) ==
  /\ pc[w] = "woken" /\ Goto(w, "find")
  /\ num_awake' = num_awake + 1 /\ changed' = changed \ {w}
  /\ UNCHANGED <<deques, frames, reg, loop, done, finished, num_finished, hist>>

Exit(w) ==
  /\ pc[w] = "exit" /\ Goto(w, "end")
  /\ num_finished' = num_finished + 1
  /\ UNCHANGED <<deques, frames, reg, loop, done, finished, sleep, hist>>

(* ~scheduler: the flag, and wake_up_all_workers until all have finished.  *)
Shutdown(w) ==
  /\ pc[w] = "shutdown" /\ finished' = TRUE /\ Goto(w, "spam")
  /\ UNCHANGED <<deques, frames, reg, loop, done, num_finished, sleep, hist>>

Spam(w) ==
  /\ pc[w] = "spam"
  /\ Goto(w, IF num_finished < P - 1 THEN "wake_all" ELSE "end")
  /\ UNCHANGED <<deques, frames, reg, loop, done, finished, num_finished, sleep, hist>>

WakeAll(w) ==
  /\ pc[w] = "wake_all" /\ Goto(w, IF num_awake < P THEN "count_all" ELSE "spam")
  /\ UNCHANGED <<deques, frames, reg, loop, done, finished, num_finished, sleep, hist>>

NotifyAll(w) ==
  /\ pc[w] = "notify_all"
  /\ pc' = [v \in Workers |-> IF v \in Sleepers THEN "woken" ELSE IF v = w THEN "spam" ELSE pc[v]]
  /\ UNCHANGED <<deques, frames, reg, loop, done, finished, num_finished, sleep, hist>>

Own(w)   == PopBottom(w) \/ PopAge(w) \/ PopReset(w) \/ PopLast(w) \/ PopTag(w)
Theft(w) == Steal(w) \/ StealBot(w) \/ StealSlot(w) \/ StealAge(w) \/ Stolen(w)
Rest(w)  == Sleep(w) \/ Load(w) \/ Block(w) \/ Woken(w) \/ Exit(w)
Wakes(w) == Awaken(w) \/ Count(w) \/ Notify(w) \/ WakeAll(w) \/ NotifyAll(w)
Work(w)  == ParallelFor(w) \/ Iterate(w) \/ Spawn(w) \/ Publish(w) \/ Find(w) \/ TryOwn(w)

Step(w) == Work(w) \/ Own(w) \/ Theft(w) \/ Rest(w) \/ Wakes(w) \/ Shutdown(w) \/ Spam(w)

Next == \E w \in Workers : Step(w)

Spec == Init /\ [][Next]_vars

(* Each thread runs.                                                       *)
FairSpec == Spec /\ \A w \in Workers : WF_vars(Step(w))

-----------------------------------------------------------------------------
(* Each iteration runs once: never twice, and all have when the loop       *)
(* returns to its caller.                                                  *)
IterationsOnce ==
  \A i \in 0 .. n - 1 :
    ran[i] <= 1 /\ (pc[0] \in {"shutdown", "spam", "end"} => ran[i] = 1)

(* The assertions of scheduler.h and work_stealing_job.h: a job got back   *)
(* from the own deque is the right half's, no job runs twice, and a join   *)
(* ends only when the job is finished.                                     *)
AssertionsHold == ok

(* The object of a job that runs, or that a worker has won, is on the      *)
(* stack of a pardo that waits for it.                                     *)
JobsOutlived ==
  \A w \in Workers :
    \A job \in {frames[w][k].job : k \in 1 .. Len(frames[w])}
              \cup (IF pc[w] = "stolen" THEN {reg[w].job} ELSE {}) :
      job # NoJob => \E v \in Workers : \E k \in 1 .. Len(frames[v]) :
        frames[v][k].at # "enter" /\ Right(frames[v][k].range) = job

(* Under fair threads the loop returns and the destructor too, with every  *)
(* worker finished, also those just about to sleep.                        *)
Ended == \A w \in Workers : pc[w] = "end"
SchedulerEnds == <>Ended
=============================================================================
