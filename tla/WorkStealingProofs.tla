------------------------- MODULE WorkStealingProofs -------------------------
(***************************************************************************)
(* Proofs about WorkStealing for any number of workers, any loop and any   *)
(* granularity: each iteration runs exactly once, and a job runs once,     *)
(* while its object is on the stack of the pardo that waits for it.        *)
(***************************************************************************)
EXTENDS WorkStealing, TLAPS

Ranges == Nat \X Nat
Tasks  == Ranges \cup {NoJob}
Ages   == [tag : Nat, top : Nat]
Calls  == [range : Ranges, at : {"enter", "left", "join"}, job : Tasks]
Regs   == [who : Workers, age : Ages, bot : Nat, job : Tasks]

TypeOK ==
  /\ Params
  /\ n \in Nat /\ granularity \in Nat
  /\ bot \in [Workers -> 0 .. QSize - 1]
  /\ age \in [Workers -> Ages]
  /\ deq \in [Workers -> [0 .. QSize - 1 -> Tasks]]
  /\ frames \in [Workers -> Seq(Calls)]
  /\ reg \in [Workers -> Regs]
  /\ DOMAIN pc = Workers
  /\ done \subseteq Ranges
  /\ ran \in [0 .. n - 1 -> Nat]

(* Where a worker can be, by the innermost call of its stack.              *)
MainPcs  == {"parallel_for", "shutdown", "spam", "wake_all", "count_all", "notify_all", "end"}
WakePcs  == {"wake", "count", "notify"}
StealPcs == {"find", "pop", "steal", "steal_bot", "steal_slot", "steal_age", "stolen"}
IdlePcs  == StealPcs \cup WakePcs \cup {"sleep", "wait", "block", "asleep", "woken", "exit", "end"}
ResetPcs == {"pop_reset", "pop_last", "pop_tag"}

Idle(w) == frames[w] = << >>
At(w)   == IF Idle(w) THEN "idle" ELSE Top(w).at
MayBe(w, p) ==
  /\ At(w) = "enter" => p \in {"run", "publish"} \cup WakePcs
  /\ At(w) = "left"  => p \in {"pop", "pop_age"} \cup ResetPcs
  /\ At(w) = "join"  => p \in StealPcs \cup WakePcs
  /\ At(w) = "idle"  => p \in IF w = 0 THEN MainPcs ELSE IdlePcs
PcOK == \A w \in Workers : MayBe(w, pc[w])

(* The stack of a worker: a call whose left half runs is under that half,  *)
(* one that waits for its right half is under a stolen job.                *)
StackOf(w) ==
  \A k \in 1 .. Len(frames[w]) :
    LET f == frames[w][k] IN
    /\ granularity >= 1
    /\ f.range[1] <= f.range[2] /\ f.range[2] <= n
    /\ f.at = "enter" => k = 1
    /\ f.at # "enter" => f.range[2] - f.range[1] > granularity
    /\ k < Len(frames[w]) => (f.job = NoJob <=> frames[w][k + 1].at = "left")
    /\ k = Len(frames[w]) => (f.job = NoJob <=> w = 0)
StackOK == \A w \in Workers : StackOf(w)

(* The end of the deque of a worker: while it pops, the slot it pops is    *)
(* still in.                                                               *)
Bottom(w) == IF pc[w] = "pop_age" THEN bot[w] + 1
             ELSE IF pc[w] \in ResetPcs THEN reg[w].bot + 1 ELSE bot[w]
Height(w) == IF At(w) = "enter" THEN 1 ELSE 0

(* The slots hold the right halves of the calls whose left half runs, the  *)
(* last that of the innermost.                                             *)
DequeOf(w) ==
  \A s \in 0 .. Bottom(w) - 1 :
    LET k == Height(w) + Bottom(w) - s IN
    /\ k <= Len(frames[w]) /\ frames[w][k].at = "left"
    /\ deq[w][s] = Right(frames[w][k].range)
DequeOK == \A w \in Workers : DequeOf(w)

(* What an owner knows of its deque.                                       *)
OwnerOf(w) ==
  /\ At(w) = "enter" \/ pc[w] = "parallel_for" => reg[w].job = NoJob
  /\ pc[w] = "publish" => /\ deq[w][bot[w]] = Right(Top(w).range)
                          /\ Top(w).range[2] - Top(w).range[1] > granularity
  /\ pc[w] \in {"pop_reset", "pop_last"} =>
       /\ reg[w].age.tag = age[w].tag /\ reg[w].age.top <= age[w].top
       /\ reg[w].bot <= reg[w].age.top /\ reg[w].bot < QSize
       /\ reg[w].job = deq[w][reg[w].bot]
  /\ pc[w] = "pop_reset" => bot[w] = reg[w].bot
  /\ pc[w] = "pop_last" => reg[w].bot = reg[w].age.top
  /\ pc[w] = "pop_tag" => reg[w].age.tag = age[w].tag /\ age[w].top > reg[w].bot
  /\ pc[w] \in {"pop_last", "pop_tag"} => bot[w] = 0
OwnerOK == \A w \in Workers : OwnerOf(w)

(* What a thief knows of the deque of its victim: its age is old or right, *)
(* and then there is a job at the top, the one it read.                    *)
NotAfter(a, b) == a.tag < b.tag \/ (a.tag = b.tag /\ a.top <= b.top)
ThiefOf(w) ==
  /\ pc[w] \in {"steal_bot", "steal_slot", "steal_age"} => NotAfter(reg[w].age, age[reg[w].who])
  /\ pc[w] \in {"steal_slot", "steal_age"} =>
       /\ reg[w].age.top < QSize
       /\ reg[w].age = age[reg[w].who] => reg[w].age.top < Bottom(reg[w].who)
  /\ pc[w] = "steal_age" /\ reg[w].age = age[reg[w].who] =>
       reg[w].job = deq[reg[w].who][reg[w].age.top]
ThiefOK == \A w \in Workers : ThiefOf(w)

(* Who has an iteration that has not run: the loop that has not begun, a   *)
(* call, a job in a deque, or a job a worker has won and not begun.        *)
Live(w, s) == age[w].top <= s /\ s < Bottom(w)
Won(w)     == pc[w] \in WakePcs \cup {"stolen"} /\ reg[w].job # NoJob
In(i, r)   == r[1] <= i /\ i < r[2]
Holds(c, w, s, i) ==
  \/ c = "loop" /\ w = 0 /\ s = 0 /\ pc[0] = "parallel_for"
  \/ c = "call" /\ s = 0 /\ At(w) = "enter" /\ In(i, Top(w).range)
  \/ c = "slot" /\ Live(w, s) /\ In(i, deq[w][s])
  \/ c = "won" /\ s = 0 /\ Won(w) /\ In(i, reg[w].job)

Hands == {"loop", "call", "slot", "won"}

(* One has it, and it has not run; it runs once.                           *)
HoldOK ==
  /\ \A i \in 0 .. n - 1 : ran[i] <= 1
  /\ \A i \in 0 .. n - 1 : \A v, w \in Workers : \A s, u \in Nat : \A c, d \in Hands :
       Holds(c, w, s, i) =>
         /\ ran[i] = 0
         /\ Holds(d, v, u, i) => c = d /\ w = v /\ s = u

(* No call has the ends of its halves in one hand.                         *)
Cut(i) == \E v \in Workers : \E k \in 1 .. Len(frames[v]) :
  frames[v][k].at # "enter" /\ Mid(frames[v][k].range) = i + 1
Whole(i) == \E w \in Workers : \E s \in Nat : \E c \in Hands : Holds(c, w, s, i) /\ Holds(c, w, s, i + 1)
SplitOK == \A i \in Nat : ~(Cut(i) /\ Whole(i))

(* A job that is won or runs has a pardo that waits for it; one that runs  *)
(* is not finished, runs on one worker and is in no deque or other hand.   *)
HasParent(job) == \E v \in Workers : \E k \in 1 .. Len(frames[v]) :
  frames[v][k].at # "enter" /\ Right(frames[v][k].range) = job
Queued(job) == \E w \in Workers : \E s \in Nat : Live(w, s) /\ deq[w][s] = job
Taken(job)  == \E w \in Workers : Won(w) /\ reg[w].job = job
Runs(job)   == \E w \in Workers : \E k \in 1 .. Len(frames[w]) : frames[w][k].job = job
RunsOnce(job) == \A v, w \in Workers : \A k \in 1 .. Len(frames[v]) : \A u \in 1 .. Len(frames[w]) :
  frames[v][k].job = job /\ frames[w][u].job = job => v = w /\ k = u
JobOK ==
  \A job \in Ranges :
    /\ Taken(job) \/ Runs(job) => HasParent(job)
    /\ Runs(job) => RunsOnce(job) /\ job \notin done /\ ~Taken(job) /\ ~Queued(job)

(* What has run: of a finished job all; of a job that runs, and of a left  *)
(* half, what the calls inside do not have; of the loop likewise.          *)
Past(i) == ran[i] >= 1
AfterLoop == {"shutdown", "spam", "wake_all", "count_all", "notify_all", "end"}
Covered(i, w, k) ==
  LET f == frames[w][k] IN
  /\ f.job # NoJob /\ In(i, f.job) => Past(i) \/ In(i, f.range)
  /\ w = 0 /\ k = Len(frames[w]) => Past(i) \/ In(i, f.range)
  /\ f.at # "enter" /\ In(i, Left(f.range)) =>
       Past(i) \/ (f.at = "left" /\ k > 1 /\ In(i, frames[w][k - 1].range))
CoverOK ==
  \A i \in 0 .. n - 1 :
    /\ \A job \in done : In(i, job) => Past(i)
    /\ pc[0] \in AfterLoop => Past(i)
    /\ \A w \in Workers : \A k \in 1 .. Len(frames[w]) : Covered(i, w, k)

Inv ==
  TypeOK /\ PcOK /\ StackOK /\ DequeOK /\ OwnerOK /\ ThiefOK /\ HoldOK /\ SplitOK /\ JobOK /\ CoverOK /\ ok = TRUE

-----------------------------------------------------------------------------
(* Ranges and stacks.                                                      *)

(* A range of two or more is split inside.                                 *)
LEMMA MidInside ==
  ASSUME NEW r \in Ranges, r[2] - r[1] >= 2
  PROVE  /\ Mid(r) \in Nat /\ r[1] < Mid(r) /\ Mid(r) < r[2]
         /\ Left(r) \in Ranges /\ Right(r) \in Ranges
         /\ Left(r)[1] = r[1] /\ Left(r)[2] = Mid(r)
         /\ Right(r)[1] = Mid(r) /\ Right(r)[2] = r[2]
<1>1. r[1] \in Nat /\ r[2] \in Nat
  BY DEF Ranges
<1>2. Mid(r) \in Nat /\ r[1] < Mid(r) /\ Mid(r) < r[2]
  BY <1>1 DEF Mid
<1> QED BY <1>1, <1>2 DEF Left, Right, Ranges

LEMMA RangeIsTask == \A r \in Ranges : r \in Tasks /\ r # NoJob
BY DEF Ranges, Tasks, NoJob

LEMMA TaskIsRange == \A job \in Tasks : job # NoJob => job \in Ranges
BY DEF Tasks

LEMMA Pushed ==
  ASSUME NEW stack \in Seq(Calls), NEW x \in Calls
  PROVE  LET t == <<x>> \o stack IN
         /\ t \in Seq(Calls) /\ Len(t) = Len(stack) + 1 /\ t # << >> /\ Head(t) = x /\ t[1] = x
         /\ \A k \in 1 .. Len(stack) : t[k + 1] = stack[k]
OBVIOUS

LEMMA Popping ==
  ASSUME NEW stack \in Seq(Calls), stack # << >>
  PROVE  LET t == Tail(stack) IN
         /\ Len(stack) >= 1 /\ Head(stack) = stack[1]
         /\ t \in Seq(Calls) /\ Len(t) = Len(stack) - 1
         /\ \A k \in 1 .. Len(t) : t[k] = stack[k + 1]
OBVIOUS

LEMMA Replaced ==
  ASSUME NEW stack \in Seq(Calls), stack # << >>, NEW x \in Calls
  PROVE  LET t == <<x>> \o Tail(stack) IN
         /\ t \in Seq(Calls) /\ Len(t) = Len(stack) /\ t # << >> /\ Head(t) = x /\ t[1] = x
         /\ \A k \in 2 .. Len(stack) : t[k] = stack[k]
<1> DEFINE u == Tail(stack)
           t == <<x>> \o u
<1>1. u \in Seq(Calls) /\ Len(u) = Len(stack) - 1 /\ \A k \in 1 .. Len(u) : u[k] = stack[k + 1]
  BY Popping
<1> HIDE DEF u
<1>2. t \in Seq(Calls) /\ Len(t) = Len(u) + 1 /\ t # << >> /\ Head(t) = x /\ t[1] = x
      /\ \A k \in 1 .. Len(u) : t[k + 1] = u[k]
  BY <1>1, Pushed
<1> HIDE DEF t
<1>3. ASSUME NEW k \in 2 .. Len(stack) PROVE t[k] = stack[k]
  <2>1. k - 1 \in 1 .. Len(u) /\ (k - 1) + 1 = k
    BY <1>1
  <2>2. t[(k - 1) + 1] = u[k - 1] /\ u[k - 1] = stack[(k - 1) + 1]
    BY <1>1, <1>2, <2>1
  <2> QED BY <2>1, <2>2
<1>4. Len(t) = Len(stack)
  BY <1>1, <1>2
<1> QED BY <1>2, <1>3, <1>4 DEF t, u

LEMMA SplitStack ==
  ASSUME NEW stack \in Seq(Calls), stack # << >>, NEW x \in Calls, NEW y \in Calls
  PROVE  LET t == <<y, x>> \o Tail(stack) IN
         /\ t \in Seq(Calls) /\ Len(t) = Len(stack) + 1 /\ t # << >> /\ Head(t) = y
         /\ t[1] = y /\ t[2] = x
         /\ \A k \in 2 .. Len(stack) : t[k + 1] = stack[k]
<1> DEFINE u == Tail(stack)
           t == <<y, x>> \o u
<1>1. u \in Seq(Calls) /\ Len(u) = Len(stack) - 1 /\ \A k \in 1 .. Len(u) : u[k] = stack[k + 1]
  BY Popping
<1> HIDE DEF u
<1>2. t \in Seq(Calls) /\ Len(t) = Len(u) + 2 /\ t # << >> /\ Head(t) = y /\ t[1] = y /\ t[2] = x
      /\ \A k \in 1 .. Len(u) : t[k + 2] = u[k]
  BY <1>1
<1> HIDE DEF t
<1>3. ASSUME NEW k \in 2 .. Len(stack) PROVE t[k + 1] = stack[k]
  <2>1. k - 1 \in 1 .. Len(u) /\ (k - 1) + 1 = k /\ (k - 1) + 2 = k + 1
    BY <1>1
  <2>2. t[(k - 1) + 2] = u[k - 1] /\ u[k - 1] = stack[(k - 1) + 1]
    BY <1>1, <1>2, <2>1
  <2> QED BY <2>1, <2>2
<1>4. Len(t) = Len(stack) + 1
  BY <1>1, <1>2
<1> QED BY <1>2, <1>3, <1>4 DEF t, u

(* The parts of a state of the right type.                                 *)
LEMMA Types ==
  ASSUME TypeOK, NEW w \in Workers
  PROVE  /\ bot[w] \in Nat /\ bot[w] < QSize
         /\ age[w] \in Ages /\ age[w].tag \in Nat /\ age[w].top \in Nat
         /\ frames[w] \in Seq(Calls) /\ Len(frames[w]) \in Nat
         /\ reg[w] \in Regs /\ reg[w].who \in Workers /\ reg[w].age \in Ages
         /\ reg[w].age.tag \in Nat /\ reg[w].age.top \in Nat /\ reg[w].bot \in Nat
         /\ reg[w].job \in Tasks /\ QSize \in Nat /\ n \in Nat /\ granularity \in Nat
         /\ w \in Nat /\ 0 \in Workers
<1>1. P \in Nat \ {0} /\ QSize \in Nat /\ n \in Nat /\ granularity \in Nat
  BY DEF TypeOK, Params
<1>2. bot[w] \in 0 .. QSize - 1 /\ age[w] \in Ages /\ frames[w] \in Seq(Calls) /\ reg[w] \in Regs
  BY DEF TypeOK
<1>3. /\ reg[w].who \in Workers /\ reg[w].age \in Ages /\ reg[w].bot \in Nat /\ reg[w].job \in Tasks
  BY <1>2 DEF Regs
<1>4. age[w].tag \in Nat /\ age[w].top \in Nat /\ reg[w].age.tag \in Nat /\ reg[w].age.top \in Nat
  BY <1>2, <1>3 DEF Ages
<1>5. w \in Nat /\ 0 \in Workers
  BY <1>1 DEF Workers
<1>6. Len(frames[w]) \in Nat
  BY <1>2
<1> QED BY <1>1, <1>2, <1>3, <1>4, <1>5, <1>6

LEMMA CallTypes ==
  ASSUME TypeOK, NEW w \in Workers, NEW k \in 1 .. Len(frames[w])
  PROVE  /\ frames[w][k] \in Calls /\ frames[w][k].range \in Ranges /\ frames[w][k].job \in Tasks
         /\ frames[w][k].at \in {"enter", "left", "join"}
         /\ frames[w][k].range[1] \in Nat /\ frames[w][k].range[2] \in Nat
<1>1. frames[w] \in Seq(Calls)
  BY Types
<1>2. frames[w][k] \in Calls
  BY <1>1
<1> QED BY <1>2 DEF Calls, Ranges

LEMMA TopIs ==
  ASSUME TypeOK, NEW w \in Workers, ~Idle(w)
  PROVE  /\ Len(frames[w]) >= 1 /\ 1 \in 1 .. Len(frames[w]) /\ Top(w) = frames[w][1]
         /\ At(w) = frames[w][1].at /\ At(w) \in {"enter", "left", "join"} /\ At(w) # "idle"
         /\ Top(w) \in Calls /\ Top(w).range \in Ranges
<1>1. frames[w] \in Seq(Calls) /\ frames[w] # << >>
  BY Types DEF Idle
<1>2. Len(frames[w]) >= 1 /\ 1 \in 1 .. Len(frames[w]) /\ Top(w) = frames[w][1]
  BY <1>1, Popping DEF Top
<1> QED BY <1>2, CallTypes DEF At

LEMMA SlotTypes ==
  ASSUME TypeOK, NEW w \in Workers, NEW s \in 0 .. QSize - 1
  PROVE  deq[w][s] \in Tasks
BY DEF TypeOK

-----------------------------------------------------------------------------
(* Steps that only move a worker, or change what it knows.                 *)

(* A worker has nothing that it did not have before.                       *)
Keeps(v) ==
  /\ Won(v)' => Won(v) /\ reg'[v].job = reg[v].job
  /\ \A s \in Nat : Live(v, s)' => Live(v, s) /\ deq'[v][s] = deq[v][s]

LEMMA HoldsKept ==
  ASSUME UNCHANGED frames, pc'[0] = "parallel_for" => pc[0] = "parallel_for",
         NEW v \in Workers, Keeps(v), NEW s \in Nat, NEW c \in Hands, NEW i, Holds(c, v, s, i)'
  PROVE  Holds(c, v, s, i)
<1>1. At(v)' = At(v) /\ Top(v)' = Top(v)
  BY DEF At, Idle, Top
<1> QED BY <1>1 DEF Holds, Keeps

LEMMA QuietShared ==
  ASSUME Inv, UNCHANGED <<frames, n, granularity, ran, done, ok>>,
         pc'[0] = "parallel_for" => pc[0] = "parallel_for",
         pc'[0] \in AfterLoop => pc[0] \in AfterLoop,
         \A v \in Workers : Keeps(v)
  PROVE  StackOK' /\ HoldOK' /\ SplitOK' /\ JobOK' /\ CoverOK' /\ ok' = TRUE
<1>1. StackOK'
  BY DEF StackOK, StackOf, Inv
<1>2. \A v \in Workers : \A s \in Nat : \A c \in Hands : \A i : Holds(c, v, s, i)' => Holds(c, v, s, i)
  BY HoldsKept
<1>3. HoldOK'
  BY <1>2 DEF HoldOK, Hands, Inv
<1>4. SplitOK'
  <2>1. ASSUME NEW i \in Nat PROVE (Cut(i)' => Cut(i)) /\ (Whole(i)' => Whole(i))
    BY <1>2 DEF Cut, Whole
  <2> QED BY <2>1 DEF SplitOK, Inv
<1>5. JobOK'
  <2>1. ASSUME NEW job \in Ranges
        PROVE  /\ Taken(job)' => Taken(job)
               /\ Queued(job)' => Queued(job)
               /\ Runs(job)' <=> Runs(job)
               /\ HasParent(job)' <=> HasParent(job)
               /\ RunsOnce(job)' <=> RunsOnce(job)
    BY DEF Taken, Queued, Runs, HasParent, RunsOnce, Keeps
  <2> QED BY <2>1 DEF JobOK, Inv
<1>6. CoverOK'
  BY DEF CoverOK, Covered, Past, Inv
<1> QED BY <1>1, <1>3, <1>4, <1>5, <1>6 DEF Inv

(* A move between places where nothing is known of a deque.                *)
DequePcs == {"parallel_for", "publish", "pop_age", "steal_bot", "steal_slot", "steal_age"} \cup ResetPcs
Moves(v) ==
  \/ pc'[v] = pc[v]
  \/ /\ MayBe(v, pc'[v]) /\ pc[v] \notin DequePcs \ {"parallel_for"} /\ pc'[v] \notin DequePcs
     /\ (pc'[v] \in WakePcs \cup {"stolen"} => pc[v] \in WakePcs \cup {"stolen"} \/ reg[v].job = NoJob)
     /\ (v = 0 /\ pc'[0] \in AfterLoop => pc[0] \in AfterLoop)

LEMMA MoveStep ==
  ASSUME Inv, UNCHANGED <<deques, frames, reg, loop, done, hist>>,
         DOMAIN pc' = Workers, \A v \in Workers : Moves(v)
  PROVE  Inv'
<1> USE DEF Inv
<1>1. TypeOK'
  BY DEF TypeOK, Params, deques, loop, hist, Workers, Regs, Ages, Calls, Tasks, Ranges
<1>2. \A v \in Workers : At(v)' = At(v) /\ Top(v)' = Top(v)
  BY DEF At, Idle, Top
<1>3. PcOK'
  BY <1>2 DEF PcOK, MayBe, Moves
<1>4. \A v \in Workers : Bottom(v)' = Bottom(v) /\ Height(v)' = Height(v)
  <2> SUFFICES ASSUME NEW v \in Workers PROVE Bottom(v)' = Bottom(v) /\ Height(v)' = Height(v)
    OBVIOUS
  <2>1. Height(v)' = Height(v)
    BY <1>2 DEF Height
  <2>2. /\ pc'[v] = "pop_age" <=> pc[v] = "pop_age"
        /\ pc'[v] \in ResetPcs <=> pc[v] \in ResetPcs
    BY DEF Moves, DequePcs, ResetPcs
  <2> QED BY <2>1, <2>2 DEF Bottom, deques
<1>5. DequeOK'
  BY <1>4 DEF DequeOK, DequeOf, deques
<1>6. OwnerOK'
  BY <1>2 DEF OwnerOK, OwnerOf, Moves, DequePcs, ResetPcs, deques, loop
<1>7. ThiefOK'
  <2>1. \A v \in Workers : reg[v].who \in Workers
    BY Types
  <2> QED BY <1>4, <2>1 DEF ThiefOK, ThiefOf, NotAfter, Moves, DequePcs, ResetPcs, deques, loop
<1>8. ASSUME NEW v \in Workers PROVE Keeps(v)
  <2>1. Won(v)' => Won(v) /\ reg'[v].job = reg[v].job
    BY DEF Won, Moves
  <2>2. \A s \in Nat : Live(v, s)' => Live(v, s) /\ deq'[v][s] = deq[v][s]
    BY <1>4 DEF Live, deques
  <2> QED BY <2>1, <2>2 DEF Keeps
<1>9. 0 \in Workers
  BY Types DEF TypeOK, Params, Workers
<1>10. (pc'[0] = "parallel_for" => pc[0] = "parallel_for") /\ (pc'[0] \in AfterLoop => pc[0] \in AfterLoop)
  BY <1>9 DEF Moves, DequePcs
<1>11. UNCHANGED <<frames, n, granularity, ran, done, ok>>
  BY DEF deques, loop, hist
<1>12. StackOK' /\ HoldOK' /\ SplitOK' /\ JobOK' /\ CoverOK' /\ ok' = TRUE
  BY <1>8, <1>10, <1>11, QuietShared
<1> QED BY <1>1, <1>3, <1>5, <1>6, <1>7, <1>12

LEMMA PcIsFunction ==
  ASSUME TypeOK, NEW w \in Workers, NEW l, Goto(w, l)
  PROVE  DOMAIN pc' = Workers /\ pc'[w] = l /\ \A v \in Workers \ {w} : pc'[v] = pc[v]
BY DEF TypeOK, Goto

(* The steps that are such a move.                                         *)
LEMMA GotoMoves ==
  ASSUME Inv, NEW w \in Workers, NEW l, Goto(w, l),
         MayBe(w, l), pc[w] \notin DequePcs \ {"parallel_for"}, l \notin DequePcs,
         l \in WakePcs \cup {"stolen"} => pc[w] \in WakePcs \cup {"stolen"} \/ reg[w].job = NoJob,
         w = 0 /\ l \in AfterLoop => pc[0] \in AfterLoop
  PROVE  DOMAIN pc' = Workers /\ \A v \in Workers : Moves(v)
<1>1. DOMAIN pc' = Workers /\ pc'[w] = l /\ \A v \in Workers \ {w} : pc'[v] = pc[v]
  BY PcIsFunction DEF Inv
<1> QED BY <1>1 DEF Moves

Quiet == UNCHANGED <<deques, frames, reg, loop, done, hist>>

LEMMA GotoStep ==
  ASSUME Inv, Quiet, NEW w \in Workers, NEW l, Goto(w, l),
         MayBe(w, l), pc[w] \notin DequePcs \ {"parallel_for"}, l \notin DequePcs,
         l \in WakePcs \cup {"stolen"} => pc[w] \in WakePcs \cup {"stolen"} \/ reg[w].job = NoJob,
         w = 0 /\ l \in AfterLoop => pc[0] \in AfterLoop
  PROVE  Inv'
<1>1. DOMAIN pc' = Workers /\ \A v \in Workers : Moves(v)
  BY GotoMoves
<1> QED BY <1>1, MoveStep DEF Quiet

LEMMA Placed == ASSUME Inv, NEW w \in Workers PROVE MayBe(w, pc[w]) /\ At(w) \in {"enter", "left", "join", "idle"}
<1>1. MayBe(w, pc[w])
  BY DEF Inv, PcOK
<1>2. CASE Idle(w)
  BY <1>1, <1>2 DEF At
<1>3. CASE ~Idle(w)
  BY <1>1, <1>3, TopIs DEF Inv
<1> QED BY <1>2, <1>3

LEMMA AwakenStep == ASSUME Inv, NEW w \in Workers, Awaken(w) PROVE Inv'
<1> DEFINE l == IF num_awake < P THEN "count" ELSE AfterWake(w)
<1>1. pc[w] = "wake" /\ Goto(w, l) /\ Quiet
  BY DEF Awaken, Quiet
<1>2. MayBe(w, pc[w]) /\ At(w) \in {"enter", "left", "join", "idle"}
  BY Placed
<1>3. AfterWake(w) = IF At(w) = "enter" THEN "run" ELSE "stolen"
  BY DEF AfterWake, At, Idle
<1>4. l \in {"count", "run", "stolen"} /\ (l = "run" => At(w) = "enter") /\ (l = "stolen" => At(w) # "enter")
  BY <1>3
<1> HIDE DEF l
<1>5. /\ l \notin DequePcs /\ MayBe(w, l) /\ ~(w = 0 /\ l \in AfterLoop)
      /\ pc[w] \in WakePcs /\ pc[w] \notin DequePcs
  BY <1>1, <1>2, <1>4 DEF MayBe, DequePcs, ResetPcs, WakePcs, StealPcs, IdlePcs, MainPcs, AfterLoop
<1> QED BY <1>1, <1>5, GotoStep

LEMMA CountStep == ASSUME Inv, NEW w \in Workers, Count(w) PROVE Inv'
<1> DEFINE l == IF pc[w] = "count" THEN "notify" ELSE "notify_all"
<1>1. pc[w] \in {"count", "count_all"} /\ Goto(w, l) /\ Quiet
  BY DEF Count, Quiet
<1>2. MayBe(w, pc[w]) /\ At(w) \in {"enter", "left", "join", "idle"}
  BY Placed
<1>3. (pc[w] = "count" /\ l = "notify") \/ (pc[w] = "count_all" /\ l = "notify_all")
  BY <1>1
<1> HIDE DEF l
<1>4. /\ l \notin DequePcs /\ MayBe(w, l) /\ (w = 0 /\ l \in AfterLoop => pc[0] \in AfterLoop)
      /\ (l \in WakePcs \cup {"stolen"} => pc[w] \in WakePcs) /\ pc[w] \notin DequePcs
  BY <1>2, <1>3 DEF MayBe, DequePcs, ResetPcs, WakePcs, StealPcs, IdlePcs, MainPcs, AfterLoop
<1> QED BY <1>1, <1>4, GotoStep

LEMMA NotifyStep == ASSUME Inv, NEW w \in Workers, Notify(w) PROVE Inv'
<1>1. pc[w] = "notify" /\ Quiet
  BY DEF Notify, Quiet
<1>2. PICK woken \in SUBSET Sleepers :
        pc' = [v \in Workers |-> IF v \in woken THEN "woken" ELSE IF v = w THEN AfterWake(w) ELSE pc[v]]
  BY DEF Notify
<1>3. AfterWake(w) = IF At(w) = "enter" THEN "run" ELSE "stolen"
  BY DEF AfterWake, At, Idle
<1>4. DOMAIN pc' = Workers
  BY <1>2, <1>3 DEF Inv, TypeOK
<1>5. ASSUME NEW v \in Workers PROVE Moves(v)
  <2>1. MayBe(v, pc[v]) /\ At(v) \in {"enter", "left", "join", "idle"}
    BY Placed
  <2>2. CASE v \in woken
    <3>1. pc[v] = "asleep" /\ pc'[v] = "woken"
      BY <1>2, <2>2 DEF Sleepers
    <3> QED
      BY <3>1, <2>1 DEF Moves, MayBe, DequePcs, ResetPcs, WakePcs, StealPcs, IdlePcs, MainPcs, AfterLoop
  <2>3. CASE v \notin woken /\ v = w
    <3>1. pc'[v] = AfterWake(w)
      BY <1>2, <2>3
    <3> QED
      BY <3>1, <2>1, <2>3, <1>1, <1>3
         DEF Moves, MayBe, DequePcs, ResetPcs, WakePcs, StealPcs, IdlePcs, MainPcs, AfterLoop
  <2>4. CASE v \notin woken /\ v # w
    BY <1>2, <2>4 DEF Moves
  <2> QED BY <2>2, <2>3, <2>4
<1> QED BY <1>1, <1>4, <1>5, MoveStep DEF Quiet

LEMMA NotifyAllStep == ASSUME Inv, NEW w \in Workers, NotifyAll(w) PROVE Inv'
<1>1. pc[w] = "notify_all" /\ Quiet
  BY DEF NotifyAll, Quiet
<1>2. pc' = [v \in Workers |-> IF v \in Sleepers THEN "woken" ELSE IF v = w THEN "spam" ELSE pc[v]]
  BY DEF NotifyAll
<1>3. DOMAIN pc' = Workers
  BY <1>2 DEF Inv, TypeOK
<1>4. ASSUME NEW v \in Workers PROVE Moves(v)
  <2>1. MayBe(v, pc[v]) /\ At(v) \in {"enter", "left", "join", "idle"}
    BY Placed
  <2>2. CASE pc[v] = "asleep"
    <3>1. pc'[v] = "woken"
      BY <1>2, <2>2 DEF Sleepers
    <3> QED
      BY <3>1, <2>1, <2>2 DEF Moves, MayBe, DequePcs, ResetPcs, WakePcs, StealPcs, IdlePcs, MainPcs, AfterLoop
  <2>3. CASE pc[v] # "asleep" /\ v = w
    <3>1. pc'[v] = "spam"
      BY <1>2, <2>3 DEF Sleepers
    <3> QED
      BY <3>1, <2>1, <2>3, <1>1
         DEF Moves, MayBe, DequePcs, ResetPcs, WakePcs, StealPcs, IdlePcs, MainPcs, AfterLoop
  <2>4. CASE pc[v] # "asleep" /\ v # w
    BY <1>2, <2>4 DEF Moves, Sleepers
  <2> QED BY <2>2, <2>3, <2>4
<1> QED BY <1>1, <1>3, <1>4, MoveStep DEF Quiet

(* The steps of a worker that rests, looks for work, or ends.              *)
Ways(w, l) ==
  \/ pc[w] \in {"sleep", "steal"} /\ At(w) = "idle" /\ l = "wait"
  \/ pc[w] = "wait" /\ l = "block"
  \/ pc[w] = "block" /\ l \in {"woken", "asleep"}
  \/ pc[w] = "woken" /\ l = "find"
  \/ pc[w] = "exit" /\ l = "end"
  \/ pc[w] \in {"find", "steal"} /\ At(w) = "idle" /\ l = "exit"
  \/ pc[w] = "find" /\ l = "pop"
  \/ pc[w] = "shutdown" /\ l = "spam"
  \/ pc[w] = "spam" /\ l \in {"wake_all", "end"}
  \/ pc[w] = "wake_all" /\ l \in {"count_all", "spam"}

LEMMA WayStep == ASSUME Inv, Quiet, NEW w \in Workers, NEW l, Goto(w, l), Ways(w, l) PROVE Inv'
<1>1. MayBe(w, pc[w]) /\ At(w) \in {"enter", "left", "join", "idle"}
  BY Placed
<1>2. /\ l \notin DequePcs /\ MayBe(w, l) /\ (w = 0 /\ l \in AfterLoop => pc[0] \in AfterLoop)
      /\ l \notin WakePcs \cup {"stolen"} /\ pc[w] \notin DequePcs
  BY <1>1 DEF Ways, MayBe, DequePcs, ResetPcs, WakePcs, StealPcs, IdlePcs, MainPcs, AfterLoop
<1> QED BY <1>2, GotoStep

LEMMA RestStep ==
  ASSUME Inv, NEW w \in Workers, Rest(w) \/ TryOwn(w) \/ Shutdown(w) \/ Spam(w) \/ WakeAll(w) PROVE Inv'
<1>1. CASE Sleep(w)
  <2>1. Quiet /\ Goto(w, "wait") /\ Ways(w, "wait")
    <3>1. pc[w] = "sleep" => At(w) = "idle"
      BY Placed DEF MayBe, StealPcs, WakePcs, ResetPcs
    <3> QED BY <1>1, <3>1 DEF Sleep, GiveUp, Quiet, Ways, At, Idle
  <2> QED BY <2>1, WayStep
<1>2. CASE Load(w)
  <2>1. Quiet /\ Goto(w, "block") /\ Ways(w, "block")
    BY <1>2 DEF Load, Quiet, Ways
  <2> QED BY <2>1, WayStep
<1>3. CASE Block(w)
  <2>1. PICK l \in {"woken", "asleep"} : Goto(w, l)
    BY <1>3 DEF Block
  <2>2. Quiet /\ Ways(w, l)
    BY <1>3, <2>1 DEF Block, Quiet, Ways
  <2> QED BY <2>1, <2>2, WayStep
<1>4. CASE Woken(w)
  <2>1. Quiet /\ Goto(w, "find") /\ Ways(w, "find")
    BY <1>4 DEF Woken, Quiet, Ways
  <2> QED BY <2>1, WayStep
<1>5. CASE Exit(w)
  <2>1. Quiet /\ Goto(w, "end") /\ Ways(w, "end")
    BY <1>5 DEF Exit, Quiet, Ways
  <2> QED BY <2>1, WayStep
<1>6. CASE TryOwn(w)
  <2>1. Quiet /\ Goto(w, "pop") /\ Ways(w, "pop")
    BY <1>6 DEF TryOwn, Quiet, Ways
  <2> QED BY <2>1, WayStep
<1>7. CASE Shutdown(w)
  <2>1. Quiet /\ Goto(w, "spam") /\ Ways(w, "spam")
    BY <1>7 DEF Shutdown, Quiet, Ways
  <2> QED BY <2>1, WayStep
<1>8. CASE Spam(w)
  <2>1. PICK l \in {"wake_all", "end"} : Goto(w, l)
    BY <1>8 DEF Spam
  <2>2. Quiet /\ Ways(w, l)
    BY <1>8, <2>1 DEF Spam, Quiet, Ways
  <2> QED BY <2>1, <2>2, WayStep
<1>9. CASE WakeAll(w)
  <2>1. PICK l \in {"count_all", "spam"} : Goto(w, l)
    BY <1>9 DEF WakeAll
  <2>2. Quiet /\ Ways(w, l)
    BY <1>9, <2>1 DEF WakeAll, Quiet, Ways
  <2> QED BY <2>1, <2>2, WayStep
<1> QED BY <1>1, <1>2, <1>3, <1>4, <1>5, <1>6, <1>7, <1>8, <1>9 DEF Rest

-----------------------------------------------------------------------------
(* Steps in which a worker changes what is its own, and shows nothing.     *)

LEMMA PrivateStep ==
  ASSUME Inv, TypeOK', NEW w \in Workers, UNCHANGED <<frames, age, n, granularity, ran, done, ok>>,
         \A v \in Workers \ {w} :
           pc'[v] = pc[v] /\ reg'[v] = reg[v] /\ bot'[v] = bot[v] /\ deq'[v] = deq[v],
         Bottom(w)' = Bottom(w), \A s \in 0 .. Bottom(w) - 1 : deq'[w][s] = deq[w][s],
         MayBe(w, pc'[w]), pc'[w] \notin {"parallel_for"} \cup AfterLoop, ~Won(w)',
         OwnerOf(w)', ThiefOf(w)'
  PROVE  Inv'
<1> USE DEF Inv
<1>1. \A v \in Workers : At(v)' = At(v) /\ Top(v)' = Top(v) /\ Height(v)' = Height(v)
  BY DEF At, Idle, Top, Height
<1>2. PcOK'
  BY <1>1 DEF PcOK, MayBe
<1>3. \A v \in Workers : Bottom(v)' = Bottom(v) /\ \A s \in 0 .. Bottom(v) - 1 : deq'[v][s] = deq[v][s]
  BY DEF Bottom
<1>4. DequeOK'
  <2>1. ASSUME NEW v \in Workers PROVE DequeOf(v)'
    BY <1>1, <1>3 DEF DequeOK, DequeOf
  <2> QED BY <2>1 DEF DequeOK
<1>5. OwnerOK'
  BY <1>1 DEF OwnerOK, OwnerOf
<1>6. ThiefOK'
  <2>1. ASSUME NEW v \in Workers \ {w} PROVE ThiefOf(v)'
    <3>1. ThiefOf(v) /\ reg[v].who \in Workers /\ reg[v].age.top \in Nat
      BY Types DEF ThiefOK
    <3>2. pc'[v] = pc[v] /\ reg'[v] = reg[v] /\ Bottom(reg[v].who)' = Bottom(reg[v].who)
      BY <1>3, <3>1
    <3>3. ASSUME reg[v].age.top < Bottom(reg[v].who)
          PROVE  deq'[reg[v].who][reg[v].age.top] = deq[reg[v].who][reg[v].age.top]
      <4>1. Bottom(reg[v].who) \in Int
        BY <3>1, Types DEF Bottom
      <4> QED BY <1>3, <3>1, <3>3, <4>1
    <3> QED BY <3>1, <3>2, <3>3 DEF ThiefOf, NotAfter
  <2> QED BY <2>1 DEF ThiefOK
<1>7. ASSUME NEW v \in Workers PROVE Keeps(v)
  <2>1. Won(v)' => Won(v) /\ reg'[v].job = reg[v].job
    BY DEF Won
  <2>2. Bottom(v) \in Int
    BY Types DEF Bottom
  <2>3. \A s \in Nat : Live(v, s)' => Live(v, s) /\ deq'[v][s] = deq[v][s]
    BY <1>3, <2>2 DEF Live
  <2> QED BY <2>1, <2>3 DEF Keeps
<1>8. 0 \in Workers
  BY Types
<1>9. (pc'[0] = "parallel_for" => pc[0] = "parallel_for") /\ (pc'[0] \in AfterLoop => pc[0] \in AfterLoop)
  BY <1>8
<1>10. StackOK' /\ HoldOK' /\ SplitOK' /\ JobOK' /\ CoverOK' /\ ok' = TRUE
  BY <1>7, <1>9, QuietShared
<1> QED BY <1>2, <1>4, <1>5, <1>6, <1>10

Seeking == {"steal", "steal_bot", "steal_slot", "steal_age", "stolen"}

LEMMA SeekerPlaced ==
  ASSUME Inv, NEW w \in Workers, pc[w] \in Seeking
  PROVE  /\ At(w) = "join" \/ (At(w) = "idle" /\ w # 0)
         /\ \A l \in StealPcs \cup WakePcs : MayBe(w, l)
         /\ pc[w] \notin {"pop_age"} \cup ResetPcs /\ Bottom(w) = bot[w]
<1>1. MayBe(w, pc[w]) /\ At(w) \in {"enter", "left", "join", "idle"}
  BY Placed
<1>2. pc[w] \notin {"pop_age"} \cup ResetPcs \cup {"run", "publish", "pop"} \cup WakePcs \cup MainPcs
  BY DEF Seeking, ResetPcs, WakePcs, MainPcs
<1>3. At(w) = "join" \/ (At(w) = "idle" /\ w # 0)
  BY <1>1, <1>2 DEF MayBe
<1> QED BY <1>2, <1>3 DEF MayBe, IdlePcs, Bottom

LEMMA RegTypes ==
  ASSUME TypeOK
  PROVE  /\ NoReg \in Regs /\ NoReg.job = NoJob
         /\ \A job \in Tasks : [NoReg EXCEPT !.job = job] \in Regs /\ [NoReg EXCEPT !.job = job].job = job
<1>1. 0 \in Workers
  BY DEF TypeOK, Params, Workers
<1>2. NoReg \in Regs /\ NoReg.job = NoJob
  BY <1>1 DEF NoReg, Regs, Ages, Tasks
<1>3. ASSUME NEW job \in Tasks
      PROVE  [NoReg EXCEPT !.job = job] \in Regs /\ [NoReg EXCEPT !.job = job].job = job
  BY <1>2 DEF Regs
<1> QED BY <1>2, <1>3

(* A thief changes what it knows, and nothing of its own deque.            *)
LEMMA SeekStep ==
  ASSUME Inv, NEW w \in Workers, pc[w] \in Seeking, NEW r \in Regs, NEW l,
         UNCHANGED <<deques, frames, loop, done, hist>>,
         reg' = [reg EXCEPT ![w] = r], Goto(w, l),
         l \in {"steal", "steal_bot", "steal_slot", "steal_age"} \/ (l = "wake" /\ r.job = NoJob),
         ThiefOf(w)'
  PROVE  Inv'
<1> USE DEF Inv
<1>1. /\ DOMAIN pc' = Workers /\ pc'[w] = l /\ reg'[w] = r /\ reg' \in [Workers -> Regs]
      /\ \A v \in Workers \ {w} : pc'[v] = pc[v] /\ reg'[v] = reg[v] /\ bot'[v] = bot[v] /\ deq'[v] = deq[v]
  BY PcIsFunction DEF TypeOK, deques
<1>2. TypeOK'
  BY <1>1 DEF TypeOK, Params, deques, loop, hist, Workers, Regs, Ages, Calls, Tasks, Ranges
<1>3. /\ At(w) = "join" \/ (At(w) = "idle" /\ w # 0)
      /\ \A p \in StealPcs \cup WakePcs : MayBe(w, p)
      /\ pc[w] \notin {"pop_age"} \cup ResetPcs /\ Bottom(w) = bot[w]
  BY SeekerPlaced
<1>4. At(w)' = At(w)
  BY DEF At, Idle, Top
<1>5. l \in StealPcs \cup WakePcs /\ l \notin {"parallel_for", "publish", "pop_age"} \cup AfterLoop \cup ResetPcs
  BY DEF StealPcs, WakePcs, AfterLoop, ResetPcs
<1>6. Bottom(w)' = Bottom(w)
  BY <1>1, <1>3, <1>5 DEF Bottom, deques
<1>7. OwnerOf(w)'
  BY <1>1, <1>3, <1>4, <1>5 DEF OwnerOf, ResetPcs
<1>8. ~Won(w)'
  BY <1>1 DEF Won, WakePcs
<1>9. MayBe(w, pc'[w]) /\ pc'[w] \notin {"parallel_for"} \cup AfterLoop
  BY <1>1, <1>3, <1>5
<1>10. UNCHANGED <<frames, age, n, granularity, ran, done, ok>> /\ \A s \in 0 .. Bottom(w) - 1 : deq'[w][s] = deq[w][s]
  BY DEF deques, loop, hist
<1> QED BY <1>1, <1>2, <1>6, <1>7, <1>8, <1>9, <1>10, PrivateStep

LEMMA StealStep == ASSUME Inv, NEW w \in Workers, Steal(w) PROVE Inv'
<1>1. PICK victim \in Workers : reg' = [reg EXCEPT ![w] = [NoReg EXCEPT !.who = victim, !.age = age[victim]]]
  BY DEF Steal
<1> DEFINE r == [NoReg EXCEPT !.who = victim, !.age = age[victim]]
<1>2. TypeOK /\ age[victim] \in Ages
  BY Types DEF Inv
<1>3. r \in Regs /\ r.who = victim /\ r.age = age[victim]
  BY <1>2, RegTypes DEF Regs, NoReg
<1>4. /\ pc[w] \in Seeking /\ UNCHANGED <<deques, frames, loop, done, hist>> /\ Goto(w, "steal_bot")
      /\ reg' = [reg EXCEPT ![w] = r]
  BY <1>1 DEF Steal, Seeking
<1>5. pc'[w] = "steal_bot" /\ reg'[w] = r
  BY <1>2, <1>4, PcIsFunction DEF TypeOK
<1> HIDE DEF r
<1>6. ThiefOf(w)'
  <2>1. age' = age /\ age[victim].tag \in Nat /\ age[victim].top \in Nat
    BY <1>2, <1>4, Types DEF deques
  <2> QED BY <1>3, <1>5, <2>1 DEF ThiefOf, NotAfter
<1> QED BY <1>3, <1>4, <1>6, SeekStep

LEMMA StealBotStep == ASSUME Inv, NEW w \in Workers, StealBot(w) PROVE Inv'
<1> DEFINE q == reg[w]
<1>1. TypeOK /\ q \in Regs /\ q.who \in Workers /\ bot[q.who] \in Nat /\ bot[q.who] < QSize /\ q.age.top \in Nat
  BY Types DEF Inv
<1>2. pc[w] \in Seeking /\ pc[w] = "steal_bot" /\ UNCHANGED <<deques, frames, loop, done, hist>>
  BY DEF StealBot, Seeking
<1>3. CASE bot[q.who] <= q.age.top
  <2>1. reg' = [reg EXCEPT ![w] = NoReg] /\ Goto(w, "steal")
    BY <1>1, <1>3 DEF StealBot
  <2>2. pc'[w] = "steal"
    BY <1>1, <2>1, PcIsFunction
  <2>3. ThiefOf(w)'
    BY <2>2 DEF ThiefOf
  <2> QED BY <1>1, <1>2, <2>1, <2>3, RegTypes, SeekStep
<1>4. CASE bot[q.who] > q.age.top
  <2> DEFINE r == [q EXCEPT !.bot = bot[q.who]]
  <2>1. reg' = [reg EXCEPT ![w] = r] /\ Goto(w, "steal_slot")
    BY <1>1, <1>4 DEF StealBot
  <2>2. r \in Regs /\ r.who = q.who /\ r.age = q.age
    BY <1>1 DEF Regs
  <2>3. pc'[w] = "steal_slot" /\ reg'[w] = r /\ \A v \in Workers \ {w} : pc'[v] = pc[v] /\ reg'[v] = reg[v]
    BY <1>1, <2>1, PcIsFunction DEF TypeOK
  <2> HIDE DEF r
  <2>4. q.age = age[q.who] => q.age.top < Bottom(q.who)
    <3>1. OwnerOf(q.who)
      BY <1>1 DEF Inv, OwnerOK
    <3>2. Bottom(q.who) \in {bot[q.who], bot[q.who] + 1} \/ bot[q.who] = 0
      BY <3>1 DEF Bottom, OwnerOf, ResetPcs
    <3> QED BY <1>1, <1>4, <3>2
  <2>5. \A v \in Workers : Bottom(v)' = Bottom(v)
    BY <1>2, <2>3 DEF Bottom, deques, ResetPcs
  <2>6. NotAfter(q.age, age[q.who])
    BY <1>2 DEF Inv, ThiefOK, ThiefOf
  <2>7. ThiefOf(w)'
    <3>1. age' = age
      BY <1>2 DEF deques
    <3>2. q.age.top < QSize
      BY <1>1, <1>4, Types
    <3>3. NotAfter(reg[w].age, age[reg[w].who])'
      BY <2>2, <2>3, <2>6, <3>1 DEF NotAfter
    <3>4. (reg[w].age = age[reg[w].who] => reg[w].age.top < Bottom(reg[w].who))'
      BY <1>1, <2>2, <2>3, <2>4, <2>5, <3>1
    <3> QED BY <2>2, <2>3, <3>2, <3>3, <3>4 DEF ThiefOf
  <2> QED BY <1>2, <2>1, <2>2, <2>7, SeekStep
<1> QED BY <1>1, <1>3, <1>4

LEMMA StealSlotStep == ASSUME Inv, NEW w \in Workers, StealSlot(w) PROVE Inv'
<1> DEFINE q == reg[w]
           r == [q EXCEPT !.job = deq[q.who][q.age.top]]
<1>1. TypeOK /\ q \in Regs /\ q.who \in Workers /\ q.age.top \in Nat
  BY Types DEF Inv
<1>2. /\ pc[w] \in Seeking /\ pc[w] = "steal_slot" /\ UNCHANGED <<deques, frames, loop, done, hist>>
      /\ Goto(w, "steal_age") /\ reg' = [reg EXCEPT ![w] = r]
  BY DEF StealSlot, Seeking
<1>3. ThiefOf(w)
  BY DEF Inv, ThiefOK
<1>4. q.age.top \in 0 .. QSize - 1
  BY <1>1, <1>2, <1>3, Types DEF ThiefOf
<1>5. deq[q.who][q.age.top] \in Tasks
  BY <1>1, <1>4, SlotTypes
<1>6. r \in Regs /\ r.who = q.who /\ r.age = q.age /\ r.job = deq[q.who][q.age.top]
  BY <1>1, <1>5 DEF Regs
<1>7. pc'[w] = "steal_age" /\ reg'[w] = r /\ \A v \in Workers \ {w} : pc'[v] = pc[v] /\ reg'[v] = reg[v]
  BY <1>1, <1>2, PcIsFunction DEF TypeOK
<1> HIDE DEF r
<1>8. \A v \in Workers : Bottom(v)' = Bottom(v)
  BY <1>2, <1>7 DEF Bottom, deques, ResetPcs
<1>9. ThiefOf(w)'
  BY <1>1, <1>2, <1>3, <1>6, <1>7, <1>8 DEF ThiefOf, NotAfter, deques
<1> QED BY <1>2, <1>6, <1>9, SeekStep

(* A theft that came too late, and one that brought nothing.               *)
LEMMA NoTheftStep ==
  ASSUME Inv, NEW w \in Workers, StealAge(w), age[reg[w].who] # reg[w].age
  PROVE  Inv'
<1> DEFINE r == IF reg[w].bot # age[reg[w].who].top + 1 THEN [NoReg EXCEPT !.job = NoJob] ELSE NoReg
           l == IF reg[w].bot # age[reg[w].who].top + 1 THEN "wake" ELSE "steal"
<1>1. TypeOK /\ NoJob \in Tasks
  BY DEF Inv, Tasks
<1>2. /\ pc[w] \in Seeking /\ UNCHANGED <<deques, frames, loop, done, hist>>
      /\ Goto(w, l) /\ reg' = [reg EXCEPT ![w] = r]
  BY DEF StealAge, Stole, Seeking, deques, hist
<1>3. r \in Regs /\ r.job = NoJob /\ l \in {"wake", "steal"}
  BY <1>1, RegTypes
<1>4. pc'[w] = l
  BY <1>1, <1>2, PcIsFunction
<1> HIDE DEF r, l
<1>5. ThiefOf(w)'
  BY <1>3, <1>4 DEF ThiefOf
<1> QED BY <1>2, <1>3, <1>5, SeekStep

LEMMA NothingStolenStep ==
  ASSUME Inv, NEW w \in Workers, Stolen(w), reg[w].job = NoJob
  PROVE  Inv'
<1>1. TypeOK
  BY DEF Inv
<1>2. /\ pc[w] \in Seeking /\ UNCHANGED <<deques, frames, loop, done, hist>>
      /\ Goto(w, "steal") /\ reg' = [reg EXCEPT ![w] = NoReg]
  BY DEF Stolen, Seeking, hist
<1>3. pc'[w] = "steal"
  BY <1>1, <1>2, PcIsFunction
<1>4. ThiefOf(w)'
  BY <1>3 DEF ThiefOf
<1> QED BY <1>1, <1>2, <1>4, RegTypes, SeekStep

-----------------------------------------------------------------------------
(* The owner of a deque.                                                   *)

LEMMA OwnerPlaced ==
  ASSUME Inv, NEW w \in Workers
  PROVE  /\ pc[w] \in {"run", "publish"} => At(w) = "enter" /\ Bottom(w) = bot[w] /\ Height(w) = 1
         /\ pc[w] \in {"pop_age"} \cup ResetPcs => At(w) = "left" /\ Height(w) = 0
         /\ pc[w] = "pop" => Bottom(w) = bot[w] /\ Height(w) = 0
         /\ At(w) = "left" <=> InPardo(w)
         /\ At(w) = "idle" <=> Idle(w)
<1>1. MayBe(w, pc[w]) /\ At(w) \in {"enter", "left", "join", "idle"}
  BY Placed
<1>2. At(w) = "left" <=> InPardo(w)
  BY DEF InPardo, At, Idle
<1>3. At(w) = "idle" <=> Idle(w)
  BY TopIs DEF At, Inv
<1>4. pc[w] \in {"run", "publish"} => At(w) = "enter" /\ Bottom(w) = bot[w] /\ Height(w) = 1
  BY <1>1 DEF MayBe, ResetPcs, WakePcs, StealPcs, IdlePcs, MainPcs, Bottom, Height
<1>5. pc[w] \in {"pop_age"} \cup ResetPcs => At(w) = "left" /\ Height(w) = 0
  BY <1>1 DEF MayBe, ResetPcs, WakePcs, StealPcs, IdlePcs, MainPcs, Height
<1>6. pc[w] = "pop" => Bottom(w) = bot[w] /\ Height(w) = 0
  BY <1>1 DEF MayBe, ResetPcs, WakePcs, Bottom, Height
<1> QED BY <1>2, <1>3, <1>4, <1>5, <1>6

(* The innermost call of a worker.                                         *)
LEMMA TopCall ==
  ASSUME Inv, NEW w \in Workers, ~Idle(w)
  PROVE  /\ granularity >= 1 /\ Top(w).range \in Ranges
         /\ Top(w).range[1] \in Nat /\ Top(w).range[2] \in Nat
         /\ Top(w).range[1] <= Top(w).range[2] /\ Top(w).range[2] <= n
         /\ Top(w).at # "enter" => Top(w).range[2] - Top(w).range[1] > granularity
<1>1. /\ 1 \in 1 .. Len(frames[w]) /\ Top(w) = frames[w][1]
      /\ Top(w).range \in Ranges /\ Top(w).range[1] \in Nat /\ Top(w).range[2] \in Nat
  BY TopIs, CallTypes DEF Inv
<1> QED BY <1>1 DEF Inv, StackOK, StackOf

LEMMA SpawnStep == ASSUME Inv, NEW w \in Workers, Spawn(w) PROVE Inv'
<1> DEFINE half == Right(Top(w).range)
<1>1. pc[w] = "run" /\ At(w) = "enter" /\ Bottom(w) = bot[w] /\ Height(w) = 1 /\ ~Idle(w)
  BY OwnerPlaced DEF Spawn
<1>2. TypeOK /\ bot[w] \in 0 .. QSize - 1 /\ granularity \in Nat /\ QSize \in Nat
  BY Types DEF Inv
<1>3. Top(w).range[2] - Top(w).range[1] > granularity
  BY DEF Spawn
<1>4. half \in Tasks
  BY <1>1, <1>2, <1>3, TopCall, MidInside, RangeIsTask
<1>5. /\ deq' = [deq EXCEPT ![w][bot[w]] = half] /\ Goto(w, "publish")
      /\ UNCHANGED <<bot, age, frames, reg, loop, done, hist>>
  BY DEF Spawn
<1> HIDE DEF half
<1>6. /\ deq' \in [Workers -> [0 .. QSize - 1 -> Tasks]]
      /\ deq'[w][bot[w]] = half
      /\ \A s \in 0 .. QSize - 1 : s # bot[w] => deq'[w][s] = deq[w][s]
      /\ \A v \in Workers \ {w} : deq'[v] = deq[v]
  BY <1>2, <1>4, <1>5 DEF TypeOK
<1>7. DOMAIN pc' = Workers /\ pc'[w] = "publish" /\ \A v \in Workers \ {w} : pc'[v] = pc[v]
  BY <1>2, <1>5, PcIsFunction
<1>8. TypeOK'
  BY <1>2, <1>5, <1>6, <1>7 DEF TypeOK, Params, loop, hist, Workers, Regs, Ages, Calls, Tasks, Ranges
<1>9. At(w)' = At(w) /\ Top(w)' = Top(w)
  BY <1>5 DEF At, Idle, Top
<1>10. Bottom(w)' = Bottom(w) /\ \A s \in 0 .. Bottom(w) - 1 : deq'[w][s] = deq[w][s]
  BY <1>1, <1>2, <1>5, <1>6, <1>7 DEF Bottom, ResetPcs
<1>11. OwnerOf(w)'
  <2>1. OwnerOf(w)
    BY DEF Inv, OwnerOK
  <2> QED BY <1>1, <1>3, <1>5, <1>6, <1>7, <1>9, <2>1 DEF OwnerOf, loop, half
<1>12. ThiefOf(w)' /\ ~Won(w)' /\ MayBe(w, pc'[w]) /\ pc'[w] \notin {"parallel_for"} \cup AfterLoop
  BY <1>1, <1>7 DEF ThiefOf, Won, MayBe, WakePcs, AfterLoop
<1>13. UNCHANGED <<frames, age, n, granularity, ran, done, ok>>
  BY <1>5 DEF loop, hist
<1>14. \A v \in Workers \ {w} : pc'[v] = pc[v] /\ reg'[v] = reg[v] /\ bot'[v] = bot[v] /\ deq'[v] = deq[v]
  BY <1>5, <1>6, <1>7
<1> QED BY <1>8, <1>10, <1>11, <1>12, <1>13, <1>14, PrivateStep

(* Steps of pop_bottom that move on.                                       *)
LEMMA OwnStep ==
  ASSUME Inv, NEW w \in Workers, At(w) # "enter", NEW l, Goto(w, l), MayBe(w, l),
         l \in {"pop_age", "steal"} \cup ResetPcs,
         NEW b \in 0 .. QSize - 1, bot' = [bot EXCEPT ![w] = b],
         NEW r \in Regs, reg' = [reg EXCEPT ![w] = r],
         UNCHANGED <<age, deq, frames, loop, done, hist>>,
         Bottom(w)' = Bottom(w),
         OwnerOf(w)'
  PROVE  Inv'
<1>1. TypeOK
  BY DEF Inv
<1>2. /\ DOMAIN pc' = Workers /\ pc'[w] = l
      /\ bot' \in [Workers -> 0 .. QSize - 1] /\ reg' \in [Workers -> Regs]
      /\ \A v \in Workers \ {w} : pc'[v] = pc[v] /\ reg'[v] = reg[v] /\ bot'[v] = bot[v] /\ deq'[v] = deq[v]
  BY <1>1, PcIsFunction DEF TypeOK
<1>3. TypeOK'
  BY <1>1, <1>2 DEF TypeOK, Params, loop, hist, Workers, Regs, Ages, Calls, Tasks, Ranges
<1>4. ThiefOf(w)' /\ ~Won(w)' /\ pc'[w] \notin {"parallel_for"} \cup AfterLoop
  BY <1>2 DEF ThiefOf, Won, WakePcs, AfterLoop, ResetPcs
<1>5. UNCHANGED <<frames, age, n, granularity, ran, done, ok>> /\ \A s \in 0 .. Bottom(w) - 1 : deq'[w][s] = deq[w][s]
  BY DEF loop, hist
<1> QED BY <1>2, <1>3, <1>4, <1>5, PrivateStep

LEMMA PopDownStep == ASSUME Inv, NEW w \in Workers, PopBottom(w), bot[w] # 0 PROVE Inv'
<1> DEFINE b == bot[w] - 1
<1>1. TypeOK /\ bot[w] \in 0 .. QSize - 1 /\ reg[w] \in Regs /\ QSize \in Nat
  BY Types DEF Inv
<1>2. /\ pc[w] = "pop" /\ Goto(w, "pop_age") /\ bot' = [bot EXCEPT ![w] = b] /\ UNCHANGED reg
      /\ UNCHANGED <<age, deq, frames, loop, done, hist>>
  BY DEF PopBottom, hist
<1>3. reg' = [reg EXCEPT ![w] = reg[w]] /\ b \in 0 .. QSize - 1
  BY <1>1, <1>2 DEF TypeOK
<1>4. Bottom(w) = bot[w] /\ Height(w) = 0 /\ MayBe(w, pc[w]) /\ At(w) \in {"enter", "left", "join", "idle"}
  BY <1>2, OwnerPlaced, Placed
<1>5. At(w) = "left"
  <2>1. DequeOf(w)
    BY DEF Inv, DequeOK
  <2>2. bot[w] - 1 \in 0 .. Bottom(w) - 1
    BY <1>1, <1>4
  <2>3. 0 + bot[w] - (bot[w] - 1) = 1
    BY <1>1
  <2>4. 1 <= Len(frames[w]) /\ frames[w][1].at = "left"
    BY <1>4, <2>1, <2>2, <2>3 DEF DequeOf
  <2>5. ~Idle(w)
    BY <2>4 DEF Idle
  <2> QED BY <1>1, <2>4, <2>5, TopIs
<1>6. pc'[w] = "pop_age" /\ bot'[w] = b
  BY <1>1, <1>2, PcIsFunction DEF TypeOK
<1>7. Bottom(w)' = Bottom(w)
  BY <1>1, <1>4, <1>6 DEF Bottom
<1>8. At(w)' = At(w)
  BY <1>2 DEF At, Idle, Top
<1>9. OwnerOf(w)'
  BY <1>5, <1>6, <1>8 DEF OwnerOf
<1>10. MayBe(w, "pop_age")
  BY <1>5 DEF MayBe
<1> HIDE DEF b
<1> QED BY <1>1, <1>2, <1>3, <1>5, <1>7, <1>9, <1>10, OwnStep

LEMMA PopResetStep == ASSUME Inv, NEW w \in Workers, PopReset(w) PROVE Inv'
<1> DEFINE l == IF reg[w].bot = reg[w].age.top THEN "pop_last" ELSE "pop_tag"
<1>1. TypeOK /\ reg[w] \in Regs /\ QSize \in Nat /\ 0 \in 0 .. QSize - 1
  BY Types DEF Inv
<1>2. /\ pc[w] = "pop_reset" /\ Goto(w, l) /\ bot' = [bot EXCEPT ![w] = 0] /\ UNCHANGED reg
      /\ UNCHANGED <<age, deq, frames, loop, done, hist>>
  BY DEF PopReset
<1>3. reg' = [reg EXCEPT ![w] = reg[w]]
  BY <1>1, <1>2 DEF TypeOK
<1>4. At(w) = "left" /\ OwnerOf(w)
  BY <1>2, OwnerPlaced DEF ResetPcs, Inv, OwnerOK
<1>5. pc'[w] = l /\ bot'[w] = 0
  BY <1>1, <1>2, PcIsFunction DEF TypeOK
<1>6. \/ l = "pop_last" /\ reg[w].bot = reg[w].age.top
      \/ l = "pop_tag" /\ reg[w].bot # reg[w].age.top
  OBVIOUS
<1> HIDE DEF l
<1>7. Bottom(w)' = Bottom(w) /\ MayBe(w, l) /\ l \in ResetPcs
  BY <1>2, <1>4, <1>5, <1>6 DEF Bottom, ResetPcs, MayBe
<1>8. At(w)' = At(w)
  BY <1>2 DEF At, Idle, Top
<1>9. OwnerOf(w)'
  <2>1. reg[w].bot \in Nat /\ reg[w].age.top \in Nat /\ age[w].top \in Nat
    BY <1>1, Types
  <2> QED BY <1>2, <1>4, <1>5, <1>6, <1>8, <2>1 DEF OwnerOf
<1> QED BY <1>1, <1>2, <1>3, <1>4, <1>7, <1>9, OwnStep

LEMMA PopLateStep == ASSUME Inv, NEW w \in Workers, PopLast(w), age[w] # reg[w].age PROVE Inv'
<1>1. TypeOK /\ reg[w] \in Regs /\ bot[w] \in 0 .. QSize - 1
  BY Types DEF Inv, TypeOK
<1>2. /\ pc[w] = "pop_last" /\ Goto(w, "pop_tag") /\ UNCHANGED <<bot, reg>>
      /\ UNCHANGED <<age, deq, frames, loop, done, hist>>
  BY DEF PopLast, hist
<1>3. reg' = [reg EXCEPT ![w] = reg[w]] /\ bot' = [bot EXCEPT ![w] = bot[w]]
  BY <1>1, <1>2 DEF TypeOK
<1>4. At(w) = "left" /\ OwnerOf(w)
  BY <1>2, OwnerPlaced DEF ResetPcs, Inv, OwnerOK
<1>5. pc'[w] = "pop_tag"
  BY <1>1, <1>2, PcIsFunction
<1>6. Bottom(w)' = Bottom(w) /\ MayBe(w, "pop_tag")
  BY <1>2, <1>4, <1>5 DEF Bottom, ResetPcs, MayBe
<1>7. At(w)' = At(w)
  BY <1>2 DEF At, Idle, Top
<1>8. age[w].top > reg[w].bot
  <2>1. age[w] \in Ages /\ reg[w].age \in Ages /\ reg[w].bot \in Nat
    BY <1>1, Types
  <2>2. age[w].top # reg[w].age.top \/ age[w].tag # reg[w].age.tag
    BY <2>1 DEF Ages
  <2>3. age[w].top \in Nat /\ reg[w].age.top \in Nat
    BY <2>1 DEF Ages
  <2> QED BY <1>2, <1>4, <2>1, <2>2, <2>3 DEF OwnerOf
<1>9. OwnerOf(w)'
  BY <1>2, <1>4, <1>5, <1>7, <1>8 DEF OwnerOf
<1> QED BY <1>1, <1>2, <1>3, <1>4, <1>6, <1>9, OwnStep DEF ResetPcs

LEMMA PopToResetStep == ASSUME Inv, NEW w \in Workers, PopAge(w), bot[w] <= age[w].top PROVE Inv'
<1> DEFINE r == [who |-> w, age |-> age[w], bot |-> bot[w], job |-> deq[w][bot[w]]]
<1>1. /\ TypeOK /\ bot[w] \in 0 .. QSize - 1 /\ bot[w] \in Nat /\ age[w] \in Ages
      /\ age[w].top \in Nat /\ deq[w][bot[w]] \in Tasks /\ QSize \in Nat
  BY Types, SlotTypes DEF Inv, TypeOK
<1>2. /\ pc[w] = "pop_age" /\ Goto(w, "pop_reset") /\ reg' = [reg EXCEPT ![w] = r] /\ UNCHANGED bot
      /\ UNCHANGED <<age, deq, frames, loop, done, hist>>
  BY <1>1 DEF PopAge, deques, hist
<1>3. bot' = [bot EXCEPT ![w] = bot[w]] /\ r \in Regs
  BY <1>1, <1>2 DEF TypeOK, Regs
<1>4. At(w) = "left"
  BY <1>2, OwnerPlaced
<1>5. pc'[w] = "pop_reset" /\ reg'[w] = r /\ bot'[w] = bot[w]
  BY <1>1, <1>2, PcIsFunction DEF TypeOK
<1>6. Bottom(w)' = Bottom(w) /\ MayBe(w, "pop_reset")
  BY <1>2, <1>4, <1>5 DEF Bottom, ResetPcs, MayBe
<1>7. At(w)' = At(w)
  BY <1>2 DEF At, Idle, Top
<1>8. OwnerOf(w)'
  BY <1>1, <1>2, <1>4, <1>5, <1>7 DEF OwnerOf
<1> HIDE DEF r
<1> QED BY <1>1, <1>2, <1>3, <1>4, <1>6, <1>8, OwnStep DEF ResetPcs

(* A deque with nothing in it: a worker that looked there tries to steal.  *)
LEMMA PopNothingStep == ASSUME Inv, NEW w \in Workers, PopBottom(w), bot[w] = 0, ~InPardo(w) PROVE Inv'
<1>1. TypeOK /\ bot[w] \in 0 .. QSize - 1 /\ NoReg \in Regs /\ NoReg.job = NoJob
  BY RegTypes DEF Inv, TypeOK
<1>2. /\ pc[w] = "pop" /\ Goto(w, "steal") /\ reg' = [reg EXCEPT ![w] = NoReg] /\ UNCHANGED bot
      /\ UNCHANGED <<age, deq, frames, loop, done, hist>>
  BY DEF PopBottom, Popped, hist
<1>3. bot' = [bot EXCEPT ![w] = bot[w]]
  BY <1>1, <1>2 DEF TypeOK
<1>4. MayBe(w, pc[w]) /\ At(w) \in {"join", "idle"}
  BY <1>2, Placed, OwnerPlaced DEF MayBe, WakePcs
<1>5. pc'[w] = "steal" /\ reg'[w] = NoReg
  BY <1>1, <1>2, PcIsFunction DEF TypeOK
<1>6. Bottom(w)' = Bottom(w)
  BY <1>2, <1>5 DEF Bottom, ResetPcs
<1>7. MayBe(w, "steal")
  BY <1>2, <1>4 DEF MayBe, StealPcs, IdlePcs, MainPcs
<1>8. OwnerOf(w)'
  BY <1>1, <1>5 DEF OwnerOf
<1> QED BY <1>1, <1>2, <1>3, <1>4, <1>6, <1>7, <1>8, OwnStep

-----------------------------------------------------------------------------
(* Jobs that wait to be run.                                               *)

LEMMA BottomType == ASSUME Inv, NEW w \in Workers PROVE Bottom(w) \in Nat /\ Height(w) \in {0, 1}
BY Types DEF Inv, Bottom, Height

(* A call whose halves have parted.                                        *)
LEMMA PartedCall ==
  ASSUME Inv, NEW v \in Workers, NEW k \in 1 .. Len(frames[v]), frames[v][k].at # "enter"
  PROVE  LET r == frames[v][k].range IN
         /\ r \in Ranges /\ r[1] \in Nat /\ r[2] \in Nat /\ r[2] <= n
         /\ Mid(r) \in Nat /\ r[1] < Mid(r) /\ Mid(r) < r[2]
         /\ Left(r) \in Ranges /\ Left(r)[1] = r[1] /\ Left(r)[2] = Mid(r)
         /\ Right(r) \in Ranges /\ Right(r)[1] = Mid(r) /\ Right(r)[2] = r[2]
<1> DEFINE r == frames[v][k].range
<1>1. r \in Ranges /\ r[1] \in Nat /\ r[2] \in Nat
  BY CallTypes DEF Inv
<1>2. granularity >= 1 /\ r[2] <= n /\ r[2] - r[1] > granularity
  BY DEF Inv, StackOK, StackOf
<1>3. granularity \in Nat
  BY DEF Inv, TypeOK
<1> HIDE DEF r
<1>4. r[2] - r[1] >= 2
  BY <1>1, <1>2, <1>3
<1> QED BY <1>1, <1>2, <1>4, MidInside DEF r

LEMMA ParentOf ==
  ASSUME Inv, NEW job, HasParent(job)
  PROVE  job \in Ranges /\ job # NoJob /\ job[1] \in Nat /\ job[2] \in Nat /\ job[1] < job[2] /\ job[2] <= n
<1>1. PICK v \in Workers : \E k \in 1 .. Len(frames[v]) :
        frames[v][k].at # "enter" /\ Right(frames[v][k].range) = job
  BY DEF HasParent
<1>2. PICK k \in 1 .. Len(frames[v]) : frames[v][k].at # "enter" /\ Right(frames[v][k].range) = job
  BY <1>1
<1>3. n \in Nat
  BY DEF Inv, TypeOK
<1> QED BY <1>2, <1>3, PartedCall, RangeIsTask DEF Ranges

LEMMA LiveSlot ==
  ASSUME Inv, NEW w \in Workers, NEW s \in Nat, s < Bottom(w)
  PROVE  LET k == Height(w) + Bottom(w) - s IN
         /\ k \in 1 .. Len(frames[w]) /\ frames[w][k].at = "left"
         /\ deq[w][s] = Right(frames[w][k].range) /\ HasParent(deq[w][s])
<1> DEFINE k == Height(w) + Bottom(w) - s
<1>1. Bottom(w) \in Nat /\ Height(w) \in {0, 1} /\ Len(frames[w]) \in Nat
  BY BottomType, Types DEF Inv
<1>2. s \in 0 .. Bottom(w) - 1
  BY <1>1
<1>3. k <= Len(frames[w]) /\ frames[w][k].at = "left" /\ deq[w][s] = Right(frames[w][k].range)
  BY <1>2 DEF Inv, DequeOK, DequeOf
<1>4. k \in 1 .. Len(frames[w])
  BY <1>1, <1>2, <1>3
<1> HIDE DEF k
<1>5. HasParent(deq[w][s])
  BY <1>3, <1>4 DEF HasParent
<1> QED BY <1>3, <1>4, <1>5 DEF k

(* What is known of a job in a hand: nobody else has it.                   *)
Fresh(job, c, w, s) ==
  /\ job \in Ranges /\ job # NoJob /\ job[1] \in Nat /\ job[2] \in Nat /\ job[1] < job[2] /\ job[2] <= n
  /\ HasParent(job) /\ ~Runs(job) /\ job \notin done
  /\ \A v \in Workers : Won(v) /\ reg[v].job = job => c = "won" /\ v = w /\ s = 0
  /\ \A v \in Workers : \A u \in Nat : Live(v, u) /\ deq[v][u] = job => c = "slot" /\ v = w /\ s = u

LEMMA HeldJobFresh ==
  ASSUME Inv, NEW job, HasParent(job), ~Runs(job), NEW c \in {"slot", "won"}, NEW w \in Workers, NEW s \in Nat,
         Holds(c, w, s, job[1])
  PROVE  Fresh(job, c, w, s)
<1> DEFINE i == job[1]
<1>1. job \in Ranges /\ job # NoJob /\ i \in Nat /\ job[2] \in Nat /\ i < job[2] /\ job[2] <= n
  BY ParentOf
<1>2. n \in Nat /\ i \in 0 .. n - 1 /\ In(i, job)
  BY <1>1 DEF Inv, TypeOK, In
<1>3. ran[i] = 0 /\ \A v \in Workers : \A u \in Nat : \A d \in Hands : Holds(d, v, u, i) => c = d /\ w = v /\ s = u
  BY <1>2 DEF Inv, HoldOK, Hands
<1>4. job \notin done
  BY <1>2, <1>3 DEF Inv, CoverOK, Past
<1>5. ASSUME NEW v \in Workers, Won(v), reg[v].job = job PROVE c = "won" /\ v = w /\ s = 0
  <2>1. Holds("won", v, 0, i)
    BY <1>2, <1>5 DEF Holds
  <2> QED BY <2>1, <1>3 DEF Hands
<1>6. ASSUME NEW v \in Workers, NEW u \in Nat, Live(v, u), deq[v][u] = job PROVE c = "slot" /\ v = w /\ s = u
  <2>1. Holds("slot", v, u, i)
    BY <1>2, <1>6 DEF Holds
  <2> QED BY <2>1, <1>3 DEF Hands
<1> QED BY <1>1, <1>4, <1>5, <1>6 DEF Fresh

LEMMA WonJob ==
  ASSUME Inv, NEW w \in Workers, Won(w) PROVE Fresh(reg[w].job, "won", w, 0)
<1>1. reg[w].job \in Ranges /\ Taken(reg[w].job)
  BY Types, TaskIsRange DEF Inv, Won, Taken
<1>2. HasParent(reg[w].job) /\ ~Runs(reg[w].job)
  BY <1>1 DEF Inv, JobOK
<1>3. reg[w].job[1] \in Nat /\ reg[w].job[2] \in Nat /\ reg[w].job[1] < reg[w].job[2]
  BY <1>2, ParentOf
<1>4. Holds("won", w, 0, reg[w].job[1])
  BY <1>3 DEF Holds, In
<1> QED BY <1>2, <1>4, HeldJobFresh

LEMMA LiveJob ==
  ASSUME Inv, NEW w \in Workers, NEW s \in Nat, Live(w, s) PROVE Fresh(deq[w][s], "slot", w, s)
<1>1. HasParent(deq[w][s])
  BY LiveSlot DEF Live
<1>2. deq[w][s] \in Ranges /\ deq[w][s][1] \in Nat /\ deq[w][s][2] \in Nat /\ deq[w][s][1] < deq[w][s][2]
  BY <1>1, ParentOf
<1>3. ~Runs(deq[w][s])
  BY <1>2 DEF Inv, JobOK, Queued
<1>4. Holds("slot", w, s, deq[w][s][1])
  BY <1>2 DEF Holds, In
<1> QED BY <1>1, <1>3, <1>4, HeldJobFresh

(* A hand passes what it has to another.                                   *)
Passes(c0, w0, s0, c1, w1, s1) ==
  \A v \in Workers : \A s \in Nat : \A c \in Hands : \A i \in Nat :
    Holds(c, v, s, i)' =>
      \/ Holds(c, v, s, i) /\ ~(c = c0 /\ v = w0 /\ s = s0) /\ ~(c = c1 /\ v = w1 /\ s = s1)
      \/ c = c1 /\ v = w1 /\ s = s1 /\ Holds(c0, w0, s0, i)

LEMMA PassStep ==
  ASSUME Inv, UNCHANGED <<ran, n>>,
         NEW c0 \in Hands, NEW w0 \in Workers, NEW s0 \in Nat,
         NEW c1 \in Hands, NEW w1 \in Workers, NEW s1 \in Nat,
         Passes(c0, w0, s0, c1, w1, s1)
  PROVE  HoldOK' /\ \A i \in Nat : Whole(i)' => Whole(i)
<1>1. n \in Nat /\ HoldOK
  BY DEF Inv, TypeOK
<1>2. HoldOK'
  <2> SUFFICES ASSUME NEW i \in 0 .. n - 1, NEW v \in Workers, NEW w \in Workers, NEW s \in Nat, NEW u \in Nat,
                      NEW c \in Hands, NEW d \in Hands, Holds(c, w, s, i)'
               PROVE  ran[i] = 0 /\ (Holds(d, v, u, i)' => c = d /\ w = v /\ s = u)
    BY <1>1 DEF HoldOK
  <2>1. i \in Nat
    BY <1>1
  <2>2. /\ \A p \in Workers : \A q \in Nat : \A b \in Hands : Holds(b, p, q, i) => ran[i] = 0
        /\ \A p, o \in Workers : \A q, r \in Nat : \A a, b \in Hands :
             Holds(a, o, r, i) /\ Holds(b, p, q, i) => a = b /\ o = p /\ r = q
    BY <1>1 DEF HoldOK
  <2> QED BY <2>1, <2>2 DEF Passes
<1>3. ASSUME NEW i \in Nat, Whole(i)' PROVE Whole(i)
  <2>1. PICK w \in Workers, s \in Nat, c \in Hands : Holds(c, w, s, i)' /\ Holds(c, w, s, i + 1)'
    BY <1>3 DEF Whole
  <2>2. i + 1 \in Nat
    OBVIOUS
  <2> QED BY <2>1, <2>2 DEF Passes, Whole
<1> QED BY <1>2, <1>3

-----------------------------------------------------------------------------
(* Changes of a stack.                                                     *)

LEMMA OthersStacks ==
  ASSUME NEW v, frames'[v] = frames[v]
  PROVE  At(v)' = At(v) /\ Top(v)' = Top(v) /\ Height(v)' = Height(v) /\ (Idle(v)' <=> Idle(v))
BY DEF At, Idle, Top, Height

LEMMA TopReplaced ==
  ASSUME TypeOK, NEW w \in Workers, ~Idle(w), NEW x \in Calls,
         frames' = [frames EXCEPT ![w] = <<x>> \o Tail(@)]
  PROVE  /\ frames' \in [Workers -> Seq(Calls)] /\ Len(frames'[w]) = Len(frames[w])
         /\ frames'[w][1] = x /\ \A k \in 2 .. Len(frames[w]) : frames'[w][k] = frames[w][k]
         /\ At(w)' = x.at /\ Top(w)' = x
         /\ \A v \in Workers \ {w} : frames'[v] = frames[v] /\ At(v)' = At(v) /\ Top(v)' = Top(v) /\ Height(v)' = Height(v)
<1> DEFINE t == <<x>> \o Tail(frames[w])
<1>1. frames \in [Workers -> Seq(Calls)] /\ frames[w] \in Seq(Calls) /\ frames[w] # << >>
  BY DEF TypeOK, Idle
<1>2. /\ t \in Seq(Calls) /\ Len(t) = Len(frames[w]) /\ t # << >> /\ Head(t) = x /\ t[1] = x
      /\ \A k \in 2 .. Len(frames[w]) : t[k] = frames[w][k]
  BY <1>1, Replaced
<1>3. frames' = [frames EXCEPT ![w] = t]
  OBVIOUS
<1> HIDE DEF t
<1>4. frames' \in [Workers -> Seq(Calls)] /\ frames'[w] = t /\ \A v \in Workers \ {w} : frames'[v] = frames[v]
  BY <1>1, <1>2, <1>3
<1>5. At(w)' = x.at /\ Top(w)' = x
  BY <1>2, <1>4 DEF At, Idle, Top
<1> QED BY <1>2, <1>4, <1>5, OthersStacks

LEMMA TopPushed ==
  ASSUME TypeOK, NEW w \in Workers, NEW x \in Calls,
         frames' = [frames EXCEPT ![w] = <<x>> \o @]
  PROVE  /\ frames' \in [Workers -> Seq(Calls)] /\ Len(frames'[w]) = Len(frames[w]) + 1
         /\ frames'[w][1] = x /\ \A k \in 1 .. Len(frames[w]) : frames'[w][k + 1] = frames[w][k]
         /\ At(w)' = x.at /\ Top(w)' = x
         /\ \A v \in Workers \ {w} : frames'[v] = frames[v] /\ At(v)' = At(v) /\ Top(v)' = Top(v) /\ Height(v)' = Height(v)
<1> DEFINE t == <<x>> \o frames[w]
<1>1. frames \in [Workers -> Seq(Calls)] /\ frames[w] \in Seq(Calls)
  BY DEF TypeOK
<1>2. /\ t \in Seq(Calls) /\ Len(t) = Len(frames[w]) + 1 /\ t # << >> /\ Head(t) = x /\ t[1] = x
      /\ \A k \in 1 .. Len(frames[w]) : t[k + 1] = frames[w][k]
  BY <1>1, Pushed
<1>3. frames' = [frames EXCEPT ![w] = t]
  OBVIOUS
<1> HIDE DEF t
<1>4. frames' \in [Workers -> Seq(Calls)] /\ frames'[w] = t /\ \A v \in Workers \ {w} : frames'[v] = frames[v]
  BY <1>1, <1>2, <1>3
<1>5. At(w)' = x.at /\ Top(w)' = x
  BY <1>2, <1>4 DEF At, Idle, Top
<1> QED BY <1>2, <1>4, <1>5, OthersStacks

LEMMA TopSplit ==
  ASSUME TypeOK, NEW w \in Workers, ~Idle(w), NEW x \in Calls, NEW y \in Calls,
         frames' = [frames EXCEPT ![w] = <<y, x>> \o Tail(@)]
  PROVE  /\ frames' \in [Workers -> Seq(Calls)] /\ Len(frames'[w]) = Len(frames[w]) + 1
         /\ frames'[w][1] = y /\ frames'[w][2] = x
         /\ \A k \in 2 .. Len(frames[w]) : frames'[w][k + 1] = frames[w][k]
         /\ At(w)' = y.at /\ Top(w)' = y
         /\ \A v \in Workers \ {w} : frames'[v] = frames[v] /\ At(v)' = At(v) /\ Top(v)' = Top(v) /\ Height(v)' = Height(v)
<1> DEFINE t == <<y, x>> \o Tail(frames[w])
<1>1. frames \in [Workers -> Seq(Calls)] /\ frames[w] \in Seq(Calls) /\ frames[w] # << >>
  BY DEF TypeOK, Idle
<1>2. /\ t \in Seq(Calls) /\ Len(t) = Len(frames[w]) + 1 /\ t # << >> /\ Head(t) = y /\ t[1] = y /\ t[2] = x
      /\ \A k \in 2 .. Len(frames[w]) : t[k + 1] = frames[w][k]
  BY <1>1, SplitStack
<1>3. frames' = [frames EXCEPT ![w] = t]
  OBVIOUS
<1> HIDE DEF t
<1>4. frames' \in [Workers -> Seq(Calls)] /\ frames'[w] = t /\ \A v \in Workers \ {w} : frames'[v] = frames[v]
  BY <1>1, <1>2, <1>3
<1>5. At(w)' = y.at /\ Top(w)' = y
  BY <1>2, <1>4 DEF At, Idle, Top
<1> QED BY <1>2, <1>4, <1>5, OthersStacks

LEMMA TopPopped ==
  ASSUME TypeOK, NEW w \in Workers, ~Idle(w), frames' = [frames EXCEPT ![w] = Tail(@)]
  PROVE  /\ frames' \in [Workers -> Seq(Calls)] /\ Len(frames'[w]) = Len(frames[w]) - 1
         /\ Len(frames[w]) >= 1 /\ Top(w) = frames[w][1]
         /\ \A k \in 1 .. Len(frames[w]) - 1 : frames'[w][k] = frames[w][k + 1]
         /\ At(w)' = IF Len(frames[w]) = 1 THEN "idle" ELSE frames[w][2].at
         /\ \A v \in Workers \ {w} : frames'[v] = frames[v] /\ At(v)' = At(v) /\ Top(v)' = Top(v) /\ Height(v)' = Height(v)
<1> DEFINE t == Tail(frames[w])
<1>1. frames \in [Workers -> Seq(Calls)] /\ frames[w] \in Seq(Calls) /\ frames[w] # << >>
  BY DEF TypeOK, Idle
<1>2. /\ t \in Seq(Calls) /\ Len(t) = Len(frames[w]) - 1 /\ Len(frames[w]) >= 1 /\ Head(frames[w]) = frames[w][1]
      /\ \A k \in 1 .. Len(t) : t[k] = frames[w][k + 1]
  BY <1>1, Popping
<1>3. frames' = [frames EXCEPT ![w] = t]
  OBVIOUS
<1> HIDE DEF t
<1>4. frames' \in [Workers -> Seq(Calls)] /\ frames'[w] = t /\ \A v \in Workers \ {w} : frames'[v] = frames[v]
  BY <1>1, <1>2, <1>3
<1>5. At(w)' = IF Len(frames[w]) = 1 THEN "idle" ELSE frames[w][2].at
  <2>1. CASE Len(frames[w]) = 1
    BY <1>2, <1>4, <2>1 DEF At, Idle
  <2>2. CASE Len(frames[w]) # 1
    <3>1. t # << >> /\ Len(t) >= 1
      BY <1>1, <1>2, <2>2
    <3>2. Head(t) = t[1] /\ t[1] = frames[w][2]
      BY <1>2, <3>1
    <3> QED BY <1>4, <2>2, <3>1, <3>2 DEF At, Idle, Top
  <2> QED BY <2>1, <2>2
<1> QED BY <1>2, <1>4, <1>5, OthersStacks DEF Top

(* The deque of a worker changes, and thieves see that it did or need    *)
(* not.                                                                    *)
Older(w) ==
  /\ age'[w] \in Ages /\ NotAfter(age[w], age'[w])
  /\ age'[w] = age[w] /\ age[w].top < Bottom(w) =>
       age[w].top < Bottom(w)' /\ deq'[w][age[w].top] = deq[w][age[w].top]

LEMMA ThiefKept ==
  ASSUME Inv, \A u \in Workers : Older(u), NEW v \in Workers, pc'[v] = pc[v], reg'[v] = reg[v]
  PROVE  ThiefOf(v)'
<1> DEFINE p == reg[v].who
           a == reg[v].age
<1>1. /\ p \in Workers /\ a \in Ages /\ a.tag \in Nat /\ a.top \in Nat
      /\ age[p] \in Ages /\ age[p].tag \in Nat /\ age[p].top \in Nat
  BY Types DEF Inv
<1>2. ThiefOf(v)
  BY DEF Inv, ThiefOK
<1>3. PICK q \in Workers : q = p
  BY <1>1
<1>4. PICK b : b = a
  OBVIOUS
<1>5. reg'[v].who = q /\ reg'[v].age = b /\ reg'[v].job = reg[v].job
  BY <1>3, <1>4
<1>6. /\ pc[v] \in {"steal_bot", "steal_slot", "steal_age"} => NotAfter(b, age[q])
      /\ pc[v] \in {"steal_slot", "steal_age"} => b.top < QSize /\ (b = age[q] => b.top < Bottom(q))
      /\ pc[v] = "steal_age" /\ b = age[q] => reg[v].job = deq[q][b.top]
  BY <1>2, <1>3, <1>4 DEF ThiefOf
<1>7. b \in Ages /\ b.tag \in Nat /\ b.top \in Nat /\ age[q] \in Ages /\ age[q].tag \in Nat /\ age[q].top \in Nat
  BY <1>1, <1>3, <1>4
<1> HIDE DEF p, a
<1>8. /\ age'[q] \in Ages /\ NotAfter(age[q], age'[q])
      /\ age'[q] = age[q] /\ age[q].top < Bottom(q) =>
           age[q].top < Bottom(q)' /\ deq'[q][age[q].top] = deq[q][age[q].top]
  BY DEF Older
<1>9. age'[q].tag \in Nat /\ age'[q].top \in Nat
  BY <1>8 DEF Ages
<1>10. NotAfter(b, age[q]) => NotAfter(b, age'[q]) /\ (b = age'[q] => b = age[q])
  <2> SUFFICES ASSUME NotAfter(b, age[q]) PROVE NotAfter(b, age'[q]) /\ (b = age'[q] => b = age[q])
    OBVIOUS
  <2>1. NotAfter(b, age'[q])
    BY <1>7, <1>8, <1>9 DEF NotAfter
  <2>2. ASSUME b = age'[q] PROVE b = age[q]
    <3>1. b.tag = age[q].tag /\ b.top = age[q].top
      BY <1>7, <1>8, <2>2 DEF NotAfter
    <3> QED BY <1>7, <3>1 DEF Ages
  <2> QED BY <2>1, <2>2
<1>11. /\ pc'[v] \in {"steal_bot", "steal_slot", "steal_age"} => NotAfter(b, age'[q])
       /\ pc'[v] \in {"steal_slot", "steal_age"} => b.top < QSize /\ (b = age'[q] => b.top < Bottom(q)')
       /\ pc'[v] = "steal_age" /\ b = age'[q] => reg[v].job = deq'[q][b.top]
  BY <1>6, <1>8, <1>10
<1> QED BY <1>5, <1>11 DEF ThiefOf

(* A step of a worker in which the others keep all but the top of a deque. *)
Alone(w) ==
  /\ UNCHANGED <<n, granularity>>
  /\ \A v \in Workers : Older(v)
  /\ \A v \in Workers \ {w} :
       /\ frames'[v] = frames[v] /\ pc'[v] = pc[v] /\ reg'[v] = reg[v]
       /\ bot'[v] = bot[v] /\ deq'[v] = deq[v]
       /\ age'[v].tag = age[v].tag /\ age[v].top <= age'[v].top

LEMMA Around ==
  ASSUME Inv, NEW w \in Workers, Alone(w),
         StackOf(w)', MayBe(w, pc[w])', DequeOf(w)', OwnerOf(w)', ThiefOf(w)'
  PROVE  PcOK' /\ StackOK' /\ DequeOK' /\ OwnerOK' /\ ThiefOK'
<1>1. ASSUME NEW v \in Workers \ {w}
      PROVE  MayBe(v, pc[v])' /\ StackOf(v)' /\ DequeOf(v)' /\ OwnerOf(v)' /\ ThiefOf(v)'
  <2>1. /\ frames'[v] = frames[v] /\ pc'[v] = pc[v] /\ reg'[v] = reg[v]
        /\ bot'[v] = bot[v] /\ deq'[v] = deq[v]
        /\ age'[v].tag = age[v].tag /\ age[v].top <= age'[v].top /\ UNCHANGED <<n, granularity>>
        /\ \A u \in Workers : Older(u)
    BY DEF Alone
  <2>2. At(v)' = At(v) /\ Top(v)' = Top(v) /\ Height(v)' = Height(v)
    BY <2>1, OthersStacks
  <2>3. Bottom(v)' = Bottom(v)
    BY <2>1 DEF Bottom
  <2>4. MayBe(v, pc[v])'
    BY <2>1, <2>2 DEF MayBe, Inv, PcOK
  <2>5. StackOf(v)'
    BY <2>1 DEF StackOf, Inv, StackOK
  <2>6. DequeOf(v)'
    BY <2>1, <2>2, <2>3 DEF DequeOf, Inv, DequeOK
  <2>7. OwnerOf(v)'
    <3>1. OwnerOf(v) /\ age[v].top \in Nat /\ reg[v].age.top \in Nat /\ reg[v].bot \in Nat
      BY Types DEF Inv, OwnerOK
    <3>2. age'[v].top \in Nat
      BY <2>1 DEF Older, Ages
    <3> QED BY <2>1, <2>2, <3>1, <3>2 DEF OwnerOf
  <2>8. ThiefOf(v)'
    BY <2>1, ThiefKept
  <2> QED BY <2>4, <2>5, <2>6, <2>7, <2>8
<1> QED BY <1>1 DEF PcOK, StackOK, DequeOK, OwnerOK, ThiefOK

(* What the others hold, they held.                                        *)
LEMMA OthersHold ==
  ASSUME Inv, NEW w \in Workers, Alone(w), NEW v \in Workers \ {w}
  PROVE  /\ Won(v)' <=> Won(v)
         /\ \A s \in Nat : Live(v, s)' => Live(v, s) /\ deq'[v][s] = deq[v][s]
         /\ \A s \in Nat : \A c \in Hands : \A i : c # "loop" /\ Holds(c, v, s, i)' => Holds(c, v, s, i)
<1>1. /\ frames'[v] = frames[v] /\ pc'[v] = pc[v] /\ reg'[v] = reg[v]
      /\ bot'[v] = bot[v] /\ deq'[v] = deq[v] /\ age[v].top <= age'[v].top /\ Older(v)
  BY DEF Alone
<1>2. At(v)' = At(v) /\ Top(v)' = Top(v)
  BY <1>1, OthersStacks
<1>3. Bottom(v)' = Bottom(v) /\ Bottom(v) \in Nat
  BY <1>1, BottomType DEF Bottom
<1>4. age[v].top \in Nat /\ age'[v].top \in Nat
  BY <1>1, Types DEF Inv, Older, Ages
<1>5. Won(v)' <=> Won(v)
  BY <1>1 DEF Won
<1>6. \A s \in Nat : Live(v, s)' => Live(v, s) /\ deq'[v][s] = deq[v][s]
  BY <1>1, <1>3, <1>4 DEF Live
<1> QED BY <1>1, <1>2, <1>5, <1>6 DEF Holds

LEMMA Alones ==
  ASSUME TypeOK, NEW w \in Workers, UNCHANGED <<n, granularity>>, Older(w),
         \A v \in Workers \ {w} : /\ frames'[v] = frames[v] /\ pc'[v] = pc[v] /\ reg'[v] = reg[v]
                                  /\ bot'[v] = bot[v] /\ deq'[v] = deq[v] /\ age'[v] = age[v]
  PROVE  Alone(w)
<1>1. ASSUME NEW v \in Workers \ {w} PROVE Older(v) /\ age'[v].tag = age[v].tag /\ age[v].top <= age'[v].top
  <2>1. age[v] \in Ages /\ age[v].tag \in Nat /\ age[v].top \in Nat
    BY Types
  <2>2. Bottom(v)' = Bottom(v)
    BY DEF Bottom
  <2> QED BY <2>1, <2>2 DEF Older, NotAfter
<1> QED BY <1>1 DEF Alone

(* The types after a step.                                                 *)
LEMMA TypeKept ==
  ASSUME TypeOK, n' = n, granularity' \in Nat, DOMAIN pc' = Workers,
         bot' \in [Workers -> 0 .. QSize - 1], age' \in [Workers -> Ages],
         deq' \in [Workers -> [0 .. QSize - 1 -> Tasks]], frames' \in [Workers -> Seq(Calls)],
         reg' \in [Workers -> Regs], done' \subseteq Ranges, ran' \in [0 .. n - 1 -> Nat]
  PROVE  TypeOK'
BY DEF TypeOK, Params, Workers, Regs, Ages, Calls, Tasks, Ranges

(* Stacks with the same calls.                                             *)
LEMMA SameJobs ==
  ASSUME \A v \in Workers : Len(frames'[v]) = Len(frames[v]),
         \A v \in Workers : \A k \in 1 .. Len(frames[v]) : frames'[v][k].job = frames[v][k].job
  PROVE  /\ \A job : Runs(job)' <=> Runs(job)
         /\ \A job : RunsOnce(job) => RunsOnce(job)'
<1>1. ASSUME NEW job PROVE Runs(job)' <=> Runs(job)
  <2>1. Runs(job) <=> \E v \in Workers : \E k \in 1 .. Len(frames[v]) : frames[v][k].job = job
    BY DEF Runs
  <2>2. Runs(job)' <=> \E v \in Workers : \E k \in 1 .. Len(frames'[v]) : frames'[v][k].job = job
    BY DEF Runs
  <2> QED BY <2>1, <2>2
<1>2. ASSUME NEW job, RunsOnce(job) PROVE RunsOnce(job)'
  <2> SUFFICES ASSUME NEW v \in Workers, NEW w \in Workers,
                      NEW k \in 1 .. Len(frames'[v]), NEW u \in 1 .. Len(frames'[w]),
                      frames'[v][k].job = job, frames'[w][u].job = job
               PROVE  v = w /\ k = u
    BY DEF RunsOnce
  <2>1. /\ k \in 1 .. Len(frames[v]) /\ frames[v][k].job = job
        /\ u \in 1 .. Len(frames[w]) /\ frames[w][u].job = job
    OBVIOUS
  <2> QED BY <1>2, <2>1 DEF RunsOnce
<1> QED BY <1>1, <1>2

LEMMA SameCalls ==
  ASSUME \A v \in Workers : Len(frames'[v]) = Len(frames[v]),
         \A v \in Workers : \A k \in 1 .. Len(frames[v]) :
           /\ frames'[v][k].range = frames[v][k].range /\ frames'[v][k].job = frames[v][k].job
           /\ frames'[v][k].at = "enter" <=> frames[v][k].at = "enter"
  PROVE  /\ \A i : Cut(i)' => Cut(i)
         /\ \A job : HasParent(job)' <=> HasParent(job)
         /\ \A job : Runs(job)' <=> Runs(job)
         /\ \A job : RunsOnce(job) => RunsOnce(job)'
<1>1. ASSUME NEW i, Cut(i)' PROVE Cut(i)
  <2>1. PICK v \in Workers : \E k \in 1 .. Len(frames'[v]) :
          frames'[v][k].at # "enter" /\ Mid(frames'[v][k].range) = i + 1
    BY <1>1 DEF Cut
  <2>2. PICK k \in 1 .. Len(frames'[v]) : frames'[v][k].at # "enter" /\ Mid(frames'[v][k].range) = i + 1
    BY <2>1
  <2>3. k \in 1 .. Len(frames[v]) /\ frames[v][k].at # "enter" /\ Mid(frames[v][k].range) = i + 1
    BY <2>2
  <2> QED BY <2>3 DEF Cut
<1>2. ASSUME NEW job PROVE HasParent(job)' <=> HasParent(job)
  <2>1. ASSUME NEW v \in Workers, NEW k \in 1 .. Len(frames[v])
        PROVE  /\ frames'[v][k].at # "enter" <=> frames[v][k].at # "enter"
               /\ Right(frames'[v][k].range) = Right(frames[v][k].range)
    OBVIOUS
  <2> QED BY <2>1 DEF HasParent
<1>3. \A job : (Runs(job)' <=> Runs(job)) /\ (RunsOnce(job) => RunsOnce(job)')
  BY SameJobs
<1> QED BY <1>1, <1>2, <1>3

-----------------------------------------------------------------------------
(* The owner finds its deque empty: it waits for the job.                  *)

LEMMA JoinStep ==
  ASSUME Inv, NEW w \in Workers, At(w) = "left",
         frames' = [frames EXCEPT ![w] = <<[Top(w) EXCEPT !.at = "join"]>> \o Tail(@)],
         Goto(w, "find"), reg' = [reg EXCEPT ![w] = NoReg], bot[w] = 0,
         UNCHANGED <<bot, deq, loop, done, hist>>,
         NEW g \in Ages, age' = [age EXCEPT ![w] = g],
         (g = age[w] /\ Bottom(w) = 0) \/ age[w].tag < g.tag
  PROVE  Inv'
<1> DEFINE x == [Top(w) EXCEPT !.at = "join"]
<1>1. /\ TypeOK /\ ~Idle(w) /\ Top(w) \in Calls /\ Top(w) = frames[w][1] /\ Top(w).at = "left"
      /\ 1 \in 1 .. Len(frames[w]) /\ NoReg \in Regs /\ Len(frames[w]) \in Nat
  BY OwnerPlaced, TopIs, RegTypes, Types DEF Inv
<1>2. x \in Calls /\ x.at = "join" /\ x.range = Top(w).range /\ x.job = Top(w).job
  BY <1>1 DEF Calls
<1>3. frames' = [frames EXCEPT ![w] = <<x>> \o Tail(@)]
  OBVIOUS
<1> HIDE DEF x
<1>4. /\ frames' \in [Workers -> Seq(Calls)] /\ Len(frames'[w]) = Len(frames[w])
      /\ frames'[w][1] = x /\ \A k \in 2 .. Len(frames[w]) : frames'[w][k] = frames[w][k]
      /\ At(w)' = "join" /\ Top(w)' = x
      /\ \A v \in Workers \ {w} : frames'[v] = frames[v] /\ At(v)' = At(v) /\ Top(v)' = Top(v) /\ Height(v)' = Height(v)
  BY <1>1, <1>2, <1>3, TopReplaced
<1>5. /\ DOMAIN pc' = Workers /\ pc'[w] = "find" /\ reg'[w] = NoReg /\ bot'[w] = 0 /\ age'[w] = g
      /\ reg' \in [Workers -> Regs] /\ age' \in [Workers -> Ages]
      /\ \A v \in Workers \ {w} : pc'[v] = pc[v] /\ reg'[v] = reg[v] /\ bot'[v] = bot[v] /\ deq'[v] = deq[v]
                                  /\ age'[v] = age[v]
  BY <1>1, PcIsFunction DEF TypeOK
<1>6. UNCHANGED <<n, granularity, ran, done, ok>>
  BY DEF loop, hist
<1>7. TypeOK'
  BY <1>1, <1>4, <1>5, <1>6 DEF TypeOK, Params, Workers, Regs, Ages, Calls, Tasks, Ranges
<1>8. Bottom(w)' = 0
  BY <1>5 DEF Bottom, ResetPcs
<1>9. Alone(w)
  <2>1. age[w].tag \in Nat /\ age[w].top \in Nat /\ g.tag \in Nat
    BY <1>1, Types DEF Ages
  <2>2. Older(w)
    BY <1>5, <2>1 DEF Older, NotAfter
  <2> QED BY <1>1, <1>4, <1>5, <1>6, <2>2, Alones
<1>10. \A v \in Workers : \A k \in 1 .. Len(frames[v]) :
         /\ frames'[v][k].range = frames[v][k].range /\ frames'[v][k].job = frames[v][k].job
         /\ frames'[v][k].at = "enter" <=> frames[v][k].at = "enter"
  <2> SUFFICES ASSUME NEW v \in Workers, NEW k \in 1 .. Len(frames[v])
               PROVE  /\ frames'[v][k].range = frames[v][k].range /\ frames'[v][k].job = frames[v][k].job
                      /\ frames'[v][k].at = "enter" <=> frames[v][k].at = "enter"
    OBVIOUS
  <2>1. CASE v # w
    BY <1>4, <2>1
  <2>2. CASE v = w /\ k = 1
    BY <1>1, <1>2, <1>4, <2>2
  <2>3. CASE v = w /\ k # 1
    BY <1>1, <1>4, <2>3
  <2> QED BY <2>1, <2>2, <2>3
<1>11. \A v \in Workers : Len(frames'[v]) = Len(frames[v])
  BY <1>4
<1>12. PcOK' /\ StackOK' /\ DequeOK' /\ OwnerOK' /\ ThiefOK'
  <2>1. StackOf(w)'
    <3> SUFFICES ASSUME NEW k \in 1 .. Len(frames'[w]) PROVE
           LET f == frames'[w][k] IN
           /\ granularity >= 1
           /\ f.range[1] <= f.range[2] /\ f.range[2] <= n
           /\ f.at = "enter" => k = 1
           /\ f.at # "enter" => f.range[2] - f.range[1] > granularity
           /\ k < Len(frames'[w]) => (f.job = NoJob <=> frames'[w][k + 1].at = "left")
           /\ k = Len(frames'[w]) => (f.job = NoJob <=> w = 0)
      BY <1>6 DEF StackOf
    <3>1. k \in 1 .. Len(frames[w]) /\ StackOf(w)
      BY <1>11 DEF Inv, StackOK
    <3>2. k < Len(frames[w]) => frames'[w][k + 1] = frames[w][k + 1]
      BY <1>1, <1>4, <3>1
    <3>3. /\ frames'[w][k].range = frames[w][k].range /\ frames'[w][k].job = frames[w][k].job
          /\ frames'[w][k].at = "enter" <=> frames[w][k].at = "enter"
      BY <1>10, <3>1
    <3>4. LET f == frames[w][k] IN
           /\ granularity >= 1
           /\ f.range[1] <= f.range[2] /\ f.range[2] <= n
           /\ f.at = "enter" => k = 1
           /\ f.at # "enter" => f.range[2] - f.range[1] > granularity
           /\ k < Len(frames[w]) => (f.job = NoJob <=> frames[w][k + 1].at = "left")
           /\ k = Len(frames[w]) => (f.job = NoJob <=> w = 0)
      BY <3>1 DEF StackOf
    <3> QED BY <1>11, <3>2, <3>3, <3>4
  <2>2. MayBe(w, pc[w])'
    BY <1>4, <1>5 DEF MayBe, StealPcs
  <2>3. DequeOf(w)'
    BY <1>8 DEF DequeOf
  <2>4. OwnerOf(w)'
    BY <1>4, <1>5 DEF OwnerOf
  <2>5. ThiefOf(w)'
    BY <1>5 DEF ThiefOf
  <2> QED BY <1>9, <2>1, <2>2, <2>3, <2>4, <2>5, Around
<1>13. ~Won(w)' /\ (\A s \in Nat : ~Live(w, s)') /\ pc'[w] \notin {"parallel_for"} \cup AfterLoop
  BY <1>5, <1>8 DEF Won, Live, WakePcs, AfterLoop
<1>14. 0 \in Workers
  BY <1>1, Types
<1>15. (pc'[0] = "parallel_for" => pc[0] = "parallel_for") /\ (pc'[0] \in AfterLoop => pc[0] \in AfterLoop)
  BY <1>5, <1>13, <1>14
<1>16. \A v \in Workers : \A s \in Nat : \A c \in Hands : \A i : Holds(c, v, s, i)' => Holds(c, v, s, i)
  <2> SUFFICES ASSUME NEW v \in Workers, NEW s \in Nat, NEW c \in Hands, NEW i, Holds(c, v, s, i)'
               PROVE  Holds(c, v, s, i)
    OBVIOUS
  <2>1. CASE c = "loop"
    BY <1>15, <2>1 DEF Holds
  <2>2. CASE c # "loop" /\ v # w
    BY <1>9, <2>2, OthersHold
  <2>3. CASE c # "loop" /\ v = w
    BY <1>4, <1>13, <2>3 DEF Holds
  <2> QED BY <2>1, <2>2, <2>3
<1>17. HoldOK' /\ SplitOK'
  <2>1. HoldOK'
    BY <1>6, <1>16 DEF HoldOK, Inv
  <2>2. ASSUME NEW i \in Nat PROVE Cut(i)' => Cut(i)
    BY <1>10, <1>11, SameCalls
  <2>3. ASSUME NEW i \in Nat PROVE Whole(i)' => Whole(i)
    BY <1>16 DEF Whole
  <2> QED BY <2>1, <2>2, <2>3 DEF SplitOK, Inv
<1>18. JobOK'
  <2>1. ASSUME NEW job \in Ranges
        PROVE  /\ Taken(job)' => Taken(job)
               /\ Queued(job)' => Queued(job)
               /\ Runs(job)' <=> Runs(job)
               /\ HasParent(job)' <=> HasParent(job)
               /\ RunsOnce(job) => RunsOnce(job)'
    <3>1. Taken(job)' => Taken(job)
      BY <1>5, <1>9, <1>13, OthersHold DEF Taken
    <3>2. Queued(job)' => Queued(job)
      BY <1>9, <1>13, OthersHold DEF Queued
    <3>3. /\ Runs(job)' <=> Runs(job)
          /\ HasParent(job)' <=> HasParent(job)
          /\ RunsOnce(job) => RunsOnce(job)'
      BY <1>10, <1>11, SameCalls
    <3> QED BY <3>1, <3>2, <3>3
  <2> QED BY <1>6, <2>1 DEF JobOK, Inv
<1>19. CoverOK'
  <2>1. ASSUME NEW i \in 0 .. n - 1, NEW v \in Workers, NEW k \in 1 .. Len(frames'[v]) PROVE Covered(i, v, k)'
    <3>1. k \in 1 .. Len(frames[v]) /\ Covered(i, v, k) /\ (Past(i)' <=> Past(i))
      BY <1>6, <1>11 DEF Inv, CoverOK, Past
    <3>2. k > 1 => k - 1 \in 1 .. Len(frames[v]) /\ frames'[v][k - 1].range = frames[v][k - 1].range
      <4>1. Len(frames[v]) \in Nat
        BY <1>1, Types
      <4>2. k > 1 => k - 1 \in 1 .. Len(frames[v])
        BY <3>1, <4>1
      <4> QED BY <1>10, <4>2
    <3>3. frames'[v][k].at = "left" <=> frames[v][k].at = "left" /\ ~(v = w /\ k = 1)
      <4>1. CASE v # w
        BY <1>4, <4>1
      <4>2. CASE v = w /\ k = 1
        BY <1>2, <1>4, <4>2
      <4>3. CASE v = w /\ k # 1
        BY <1>1, <1>4, <3>1, <4>3
      <4> QED BY <4>1, <4>2, <4>3
    <3> QED BY <1>10, <1>11, <3>1, <3>2, <3>3 DEF Covered
  <2> QED BY <1>6, <1>15, <2>1 DEF CoverOK, Inv, Past
<1> QED BY <1>6, <1>7, <1>12, <1>17, <1>18, <1>19 DEF Inv

LEMMA PopJoinStep == ASSUME Inv, NEW w \in Workers, PopBottom(w), bot[w] = 0, InPardo(w) PROVE Inv'
<1>1. pc[w] = "pop" /\ At(w) = "left" /\ Bottom(w) = 0
  BY OwnerPlaced DEF PopBottom
<1>2. age \in [Workers -> Ages] /\ age[w] \in Ages
  BY DEF Inv, TypeOK
<1>3. /\ frames' = [frames EXCEPT ![w] = <<[Top(w) EXCEPT !.at = "join"]>> \o Tail(@)]
      /\ Goto(w, "find") /\ reg' = [reg EXCEPT ![w] = NoReg] /\ UNCHANGED <<bot, age, deq, loop, done, hist>>
  BY DEF PopBottom, Popped, hist
<1>4. age' = [age EXCEPT ![w] = age[w]]
  BY <1>2, <1>3
<1> QED BY <1>1, <1>2, <1>3, <1>4, JoinStep

LEMMA PopTagStep == ASSUME Inv, NEW w \in Workers, PopTag(w) PROVE Inv'
<1> DEFINE g == NextAge(reg[w].age)
<1>1. pc[w] = "pop_tag" /\ At(w) = "left"
  BY OwnerPlaced DEF PopTag, ResetPcs
<1>2. OwnerOf(w) /\ reg[w].age.tag \in Nat
  BY Types DEF Inv, OwnerOK
<1>3. g \in Ages /\ age[w].tag < g.tag /\ bot[w] = 0
  BY <1>1, <1>2 DEF NextAge, Ages, OwnerOf
<1>4. InPardo(w)
  BY <1>1, OwnerPlaced
<1>5. /\ frames' = [frames EXCEPT ![w] = <<[Top(w) EXCEPT !.at = "join"]>> \o Tail(@)]
      /\ Goto(w, "find") /\ reg' = [reg EXCEPT ![w] = NoReg] /\ UNCHANGED <<bot, deq, loop, done, hist>>
      /\ age' = [age EXCEPT ![w] = g]
  BY <1>4 DEF PopTag, Popped, hist
<1> HIDE DEF g
<1> QED BY <1>1, <1>3, <1>5, JoinStep

-----------------------------------------------------------------------------
(* The owner gets its last job back, and runs it as its right half.        *)

LEMMA OwnJobStep ==
  ASSUME Inv, NEW w \in Workers, At(w) = "left", NEW b \in Nat, Live(w, b), b + 1 = Bottom(w),
         frames' = [frames EXCEPT ![w] = <<Frame(Right(Top(w).range), Top(w).job)>> \o Tail(@)],
         Goto(w, "run"), reg' = [reg EXCEPT ![w] = NoReg], ok' = (ok /\ deq[w][b] = Right(Top(w).range)),
         UNCHANGED <<bot, deq, loop, done, ran>>,
         NEW g \in Ages, age' = [age EXCEPT ![w] = g],
         (g = age[w] /\ bot[w] = b /\ age[w].top < b) \/ (age[w].tag < g.tag /\ bot[w] = 0)
  PROVE  Inv'
<1> DEFINE r == Top(w).range
           x == Frame(Right(r), Top(w).job)
<1>1. /\ TypeOK /\ ~Idle(w) /\ Top(w) \in Calls /\ Top(w) = frames[w][1] /\ Top(w).at = "left"
      /\ 1 \in 1 .. Len(frames[w]) /\ NoReg \in Regs /\ NoReg.job = NoJob /\ Len(frames[w]) \in Nat
      /\ age[w].tag \in Nat /\ age[w].top \in Nat /\ n \in Nat /\ QSize \in Nat
  BY OwnerPlaced, TopIs, RegTypes, Types DEF Inv
<1>2. /\ r \in Ranges /\ r[1] \in Nat /\ r[2] \in Nat /\ r[2] <= n
      /\ Mid(r) \in Nat /\ r[1] < Mid(r) /\ Mid(r) < r[2]
      /\ Left(r)[1] = r[1] /\ Left(r)[2] = Mid(r)
      /\ Right(r) \in Ranges /\ Right(r)[1] = Mid(r) /\ Right(r)[2] = r[2]
  BY <1>1, PartedCall
<1>3. frames[w][1].range = r
  BY <1>1
<1>4. Height(w) = 0 /\ deq[w][b] = Right(r) /\ HasParent(deq[w][b])
  <2>1. Height(w) = 0 /\ Bottom(w) \in Nat /\ b < Bottom(w)
    BY BottomType DEF Height
  <2>2. Height(w) + Bottom(w) - b = 1
    BY <2>1
  <2> QED BY <1>3, <2>1, <2>2, LiveSlot
<1> HIDE DEF r
<1>5. x \in Calls /\ x.at = "enter" /\ x.range = Right(r) /\ x.job = Top(w).job
  BY <1>1, <1>2 DEF Calls, Frame
<1>6. frames' = [frames EXCEPT ![w] = <<x>> \o Tail(@)]
  BY DEF r
<1> HIDE DEF x
<1>7. /\ frames' \in [Workers -> Seq(Calls)] /\ Len(frames'[w]) = Len(frames[w])
      /\ frames'[w][1] = x /\ \A k \in 2 .. Len(frames[w]) : frames'[w][k] = frames[w][k]
      /\ At(w)' = "enter" /\ Top(w)' = x
      /\ \A v \in Workers \ {w} : frames'[v] = frames[v] /\ At(v)' = At(v) /\ Top(v)' = Top(v) /\ Height(v)' = Height(v)
  BY <1>1, <1>5, <1>6, TopReplaced
<1>8. /\ DOMAIN pc' = Workers /\ pc'[w] = "run" /\ reg'[w] = NoReg /\ bot'[w] = bot[w] /\ age'[w] = g
      /\ reg' \in [Workers -> Regs] /\ age' \in [Workers -> Ages] /\ deq' = deq /\ bot' = bot
      /\ \A v \in Workers \ {w} : pc'[v] = pc[v] /\ reg'[v] = reg[v] /\ bot'[v] = bot[v] /\ deq'[v] = deq[v]
                                  /\ age'[v] = age[v]
  BY <1>1, PcIsFunction DEF TypeOK
<1>9. UNCHANGED <<n, granularity, ran, done>> /\ ok' = TRUE
  BY <1>4 DEF loop, Inv, r
<1>10. TypeOK'
  BY <1>1, <1>7, <1>8, <1>9, TypeKept DEF TypeOK
<1>11. Bottom(w)' = bot[w] /\ Height(w)' = 1 /\ Bottom(w) = b + 1 /\ bot[w] \in Nat
  BY <1>1, <1>7, <1>8, Types DEF Bottom, Height, ResetPcs
<1>12. \A s \in Nat : Live(w, s)' => Live(w, s) /\ s # b
  BY <1>1, <1>8, <1>11 DEF Live
<1>13. Alone(w)
  <2>1. g.tag \in Nat
    BY DEF Ages
  <2>2. Older(w)
    BY <1>1, <1>8, <1>11, <2>1 DEF Older, NotAfter
  <2> QED BY <1>1, <1>7, <1>8, <1>9, <2>2, Alones
<1>14. \A k \in 1 .. Len(frames[w]) : k > 1 => frames'[w][k] = frames[w][k]
  BY <1>1, <1>7
<1>15. PcOK' /\ StackOK' /\ DequeOK' /\ OwnerOK' /\ ThiefOK'
  <2>1. StackOf(w)'
    <3> SUFFICES ASSUME NEW k \in 1 .. Len(frames[w]) PROVE
           LET f == frames'[w][k] IN
           /\ granularity >= 1
           /\ f.range[1] <= f.range[2] /\ f.range[2] <= n
           /\ f.at = "enter" => k = 1
           /\ f.at # "enter" => f.range[2] - f.range[1] > granularity
           /\ k < Len(frames[w]) => (f.job = NoJob <=> frames'[w][k + 1].at = "left")
           /\ k = Len(frames[w]) => (f.job = NoJob <=> w = 0)
      BY <1>7, <1>9 DEF StackOf
    <3>1. LET f == frames[w][k] IN
           /\ granularity >= 1
           /\ f.range[1] <= f.range[2] /\ f.range[2] <= n
           /\ f.at = "enter" => k = 1
           /\ f.at # "enter" => f.range[2] - f.range[1] > granularity
           /\ k < Len(frames[w]) => (f.job = NoJob <=> frames[w][k + 1].at = "left")
           /\ k = Len(frames[w]) => (f.job = NoJob <=> w = 0)
      BY DEF Inv, StackOK, StackOf
    <3>2. k < Len(frames[w]) => frames'[w][k + 1] = frames[w][k + 1]
      BY <1>1, <1>7
    <3>3. CASE k > 1
      BY <1>14, <3>1, <3>2, <3>3
    <3>4. CASE k = 1
      BY <1>1, <1>2, <1>5, <1>7, <3>1, <3>2, <3>4
    <3> QED BY <3>3, <3>4
  <2>2. MayBe(w, pc[w])'
    BY <1>7, <1>8 DEF MayBe
  <2>3. DequeOf(w)'
    <3> SUFFICES ASSUME NEW s \in 0 .. Bottom(w)' - 1
                 PROVE  LET k == Height(w)' + Bottom(w)' - s IN
                        /\ k <= Len(frames'[w]) /\ frames'[w][k].at = "left"
                        /\ deq'[w][s] = Right(frames'[w][k].range)
      BY DEF DequeOf
    <3>0. s \in 0 .. bot[w] - 1 /\ Height(w)' + Bottom(w)' - s = 1 + bot[w] - s
      BY <1>11
    <3>1. s \in Nat /\ bot[w] = b /\ s < Bottom(w) /\ 1 + bot[w] - s > 1
      BY <1>11, <3>0
    <3>2. Height(w) + Bottom(w) - s = 1 + bot[w] - s
      BY <1>4, <1>11, <3>1
    <3>3. /\ 1 + bot[w] - s \in 1 .. Len(frames[w]) /\ frames[w][1 + bot[w] - s].at = "left"
          /\ deq[w][s] = Right(frames[w][1 + bot[w] - s].range)
      BY <3>1, <3>2, LiveSlot
    <3>4. frames'[w][1 + bot[w] - s] = frames[w][1 + bot[w] - s]
      BY <1>14, <3>1, <3>3
    <3> QED BY <1>7, <1>8, <3>0, <3>3, <3>4
  <2>4. OwnerOf(w)'
    BY <1>1, <1>7, <1>8 DEF OwnerOf, ResetPcs
  <2>5. ThiefOf(w)'
    BY <1>8 DEF ThiefOf
  <2> QED BY <1>13, <2>1, <2>2, <2>3, <2>4, <2>5, Around
<1>16. 0 \in Workers
  BY <1>1, Types
<1>17. (pc'[0] = "parallel_for" => pc[0] = "parallel_for") /\ (pc'[0] \in AfterLoop => pc[0] \in AfterLoop)
  BY <1>8, <1>16 DEF AfterLoop
<1>18. Passes("slot", w, b, "call", w, 0)
  <2> SUFFICES ASSUME NEW v \in Workers, NEW s \in Nat, NEW c \in Hands, NEW i \in Nat, Holds(c, v, s, i)'
               PROVE  \/ Holds(c, v, s, i) /\ ~(c = "slot" /\ v = w /\ s = b) /\ ~(c = "call" /\ v = w /\ s = 0)
                      \/ c = "call" /\ v = w /\ s = 0 /\ Holds("slot", w, b, i)
    BY DEF Passes
  <2>1. CASE c = "loop"
    BY <1>17, <2>1 DEF Holds
  <2>2. CASE c # "loop" /\ v # w
    BY <1>13, <2>2, OthersHold
  <2>3. CASE c = "call" /\ v = w
    BY <1>4, <1>5, <1>7, <2>3 DEF Holds
  <2>4. CASE c = "slot" /\ v = w
    BY <1>8, <1>12, <2>4 DEF Holds
  <2>5. CASE c = "won" /\ v = w
    BY <1>8, <2>5 DEF Holds, Won, WakePcs
  <2> QED BY <2>1, <2>2, <2>3, <2>4, <2>5 DEF Hands
<1>19. HoldOK' /\ \A i \in Nat : Whole(i)' => Whole(i)
  BY <1>9, <1>18, PassStep DEF Hands
<1>20. \A v \in Workers : \A k \in 1 .. Len(frames'[v]) : frames'[v][k].at # "enter" =>
         k \in 1 .. Len(frames[v]) /\ frames'[v][k] = frames[v][k]
  <2> SUFFICES ASSUME NEW v \in Workers, NEW k \in 1 .. Len(frames'[v]), frames'[v][k].at # "enter"
               PROVE  k \in 1 .. Len(frames[v]) /\ frames'[v][k] = frames[v][k]
    OBVIOUS
  <2>1. CASE v # w
    BY <1>7, <2>1
  <2>2. CASE v = w
    BY <1>1, <1>5, <1>7, <1>14, <2>2
  <2> QED BY <2>1, <2>2
<1>21. SplitOK'
  <2>1. ASSUME NEW i \in Nat, Cut(i)' PROVE Cut(i)
    <3>1. PICK v \in Workers : \E k \in 1 .. Len(frames'[v]) :
            frames'[v][k].at # "enter" /\ Mid(frames'[v][k].range) = i + 1
      BY <2>1 DEF Cut
    <3>2. PICK k \in 1 .. Len(frames'[v]) : frames'[v][k].at # "enter" /\ Mid(frames'[v][k].range) = i + 1
      BY <3>1
    <3>3. k \in 1 .. Len(frames[v]) /\ frames[v][k].at # "enter" /\ Mid(frames[v][k].range) = i + 1
      BY <1>20, <3>2
    <3> QED BY <3>3 DEF Cut
  <2> QED BY <1>19, <2>1 DEF SplitOK, Inv
<1>22. JobOK'
  <2>1. ASSUME NEW job \in Ranges
        PROVE  /\ Taken(job)' => Taken(job)
               /\ Queued(job)' => Queued(job)
               /\ Runs(job)' <=> Runs(job)
               /\ RunsOnce(job) => RunsOnce(job)'
               /\ Taken(job) \/ Runs(job) => (HasParent(job) => HasParent(job)')
    <3>1. Taken(job)' => Taken(job)
      BY <1>8, <1>13, OthersHold DEF Taken, Won, WakePcs
    <3>2. Queued(job)' => Queued(job)
      BY <1>8, <1>12, <1>13, OthersHold DEF Queued
    <3>3. \A v \in Workers : Len(frames'[v]) = Len(frames[v]) /\
            \A k \in 1 .. Len(frames[v]) : frames'[v][k].job = frames[v][k].job
      <4> SUFFICES ASSUME NEW v \in Workers
                   PROVE  Len(frames'[v]) = Len(frames[v]) /\
                          \A k \in 1 .. Len(frames[v]) : frames'[v][k].job = frames[v][k].job
        OBVIOUS
      <4>1. CASE v # w
        BY <1>7, <4>1
      <4>2. CASE v = w
        BY <1>1, <1>5, <1>7, <1>14, <4>2
      <4> QED BY <4>1, <4>2
    <3>4. (Runs(job)' <=> Runs(job)) /\ (RunsOnce(job) => RunsOnce(job)')
      BY <3>3, SameJobs
    <3>5. ASSUME Taken(job) \/ Runs(job), HasParent(job) PROVE HasParent(job)'
      <4>1. PICK v \in Workers : \E k \in 1 .. Len(frames[v]) :
              frames[v][k].at # "enter" /\ Right(frames[v][k].range) = job
        BY <3>5 DEF HasParent
      <4>2. PICK k \in 1 .. Len(frames[v]) : frames[v][k].at # "enter" /\ Right(frames[v][k].range) = job
        BY <4>1
      <4>3. ~(v = w /\ k = 1)
        <5>1. Fresh(Right(r), "slot", w, b)
          BY <1>4, LiveJob
        <5>2. job # Right(r)
          BY <3>5, <5>1 DEF Fresh, Taken
        <5> QED BY <1>3, <4>2, <5>2
      <4>4. k \in 1 .. Len(frames'[v]) /\ frames'[v][k] = frames[v][k]
        BY <1>1, <1>7, <1>14, <4>3
      <4> QED BY <4>2, <4>4 DEF HasParent
    <3> QED BY <3>1, <3>2, <3>4, <3>5
  <2> QED BY <1>9, <2>1 DEF JobOK, Inv
<1>23. CoverOK'
  <2>1. ASSUME NEW i \in 0 .. n - 1, NEW v \in Workers, NEW k \in 1 .. Len(frames'[v]) PROVE Covered(i, v, k)'
    <3>1. k \in 1 .. Len(frames[v]) /\ Len(frames'[v]) = Len(frames[v]) /\ Len(frames[v]) \in Nat
      BY <1>1, <1>7, Types
    <3>2. Covered(i, v, k) /\ (Past(i)' <=> Past(i))
      BY <1>9, <3>1 DEF Inv, CoverOK, Past
    <3>3. In(i, r) => Past(i) \/ In(i, Right(r))
      <4>1. In(i, Left(r)) => Past(i)
        <5>1. Covered(i, w, 1)
          BY <1>1 DEF Inv, CoverOK
        <5> QED BY <1>1, <1>3, <5>1 DEF Covered
      <4>2. In(i, r) => In(i, Left(r)) \/ In(i, Right(r))
        BY <1>2 DEF In
      <4> QED BY <4>1, <4>2
    <3>4. CASE v # w
      <4>1. frames'[v] = frames[v]
        BY <1>7, <3>4
      <4> QED BY <3>2, <4>1 DEF Covered
    <3>5. CASE v = w /\ k = 1
      BY <1>1, <1>3, <1>5, <1>7, <3>1, <3>2, <3>3, <3>5 DEF Covered
    <3>6. CASE v = w /\ k > 1
      <4>1. frames'[v][k] = frames[v][k] /\ k - 1 \in 1 .. Len(frames[v])
        BY <1>14, <3>1, <3>6
      <4>2. In(i, frames[v][k - 1].range) => Past(i) \/ In(i, frames'[v][k - 1].range)
        <5>1. CASE k = 2
          BY <1>3, <1>5, <1>7, <3>3, <3>6, <5>1
        <5>2. CASE k > 2
          <6>1. k - 1 \in 1 .. Len(frames[w]) /\ k - 1 > 1
            BY <3>1, <3>6, <4>1, <5>2
          <6>2. frames'[w][k - 1] = frames[w][k - 1]
            BY <1>14, <6>1
          <6> QED BY <3>6, <6>2
        <5> QED BY <3>1, <3>6, <5>1, <5>2
      <4> QED BY <3>1, <3>2, <4>1, <4>2 DEF Covered
    <3> QED BY <3>1, <3>4, <3>5, <3>6
  <2> QED BY <1>9, <1>17, <2>1 DEF CoverOK, Inv, Past
<1> QED BY <1>9, <1>10, <1>15, <1>19, <1>21, <1>22, <1>23 DEF Inv

LEMMA PopOwnStep == ASSUME Inv, NEW w \in Workers, PopAge(w), bot[w] > age[w].top PROVE Inv'
<1> DEFINE b == bot[w]
<1>1. /\ pc[w] = "pop_age" /\ At(w) = "left" /\ InPardo(w) /\ b \in Nat /\ age[w].top \in Nat
      /\ age \in [Workers -> Ages] /\ age[w] \in Ages
  BY OwnerPlaced, Types DEF PopAge, Inv, TypeOK
<1>2. b + 1 = Bottom(w) /\ Live(w, b) /\ age[w].top < b
  BY <1>1 DEF Bottom, Live
<1>3. Fresh(deq[w][b], "slot", w, b)
  BY <1>1, <1>2, LiveJob
<1>4. Popped(w, deq[w][b]) /\ UNCHANGED <<bot, age, deq, loop, done, ran>>
  BY <1>1 DEF PopAge, deques
<1>5. /\ frames' = [frames EXCEPT ![w] = <<Frame(Right(Top(w).range), Top(w).job)>> \o Tail(@)]
      /\ Goto(w, "run") /\ reg' = [reg EXCEPT ![w] = NoReg] /\ ok' = (ok /\ deq[w][b] = Right(Top(w).range))
  BY <1>1, <1>3, <1>4 DEF Popped, Fresh
<1>6. age' = [age EXCEPT ![w] = age[w]] /\ bot[w] = b
  BY <1>1, <1>4
<1> HIDE DEF b
<1> QED BY <1>1, <1>2, <1>4, <1>5, <1>6, OwnJobStep

LEMMA PopLastStep == ASSUME Inv, NEW w \in Workers, PopLast(w), age[w] = reg[w].age PROVE Inv'
<1> DEFINE b == reg[w].bot
           g == NextAge(reg[w].age)
<1>1. pc[w] = "pop_last" /\ At(w) = "left" /\ InPardo(w) /\ b \in Nat /\ age[w].tag \in Nat /\ OwnerOf(w)
  BY OwnerPlaced, Types DEF PopLast, ResetPcs, Inv, OwnerOK
<1>2. b = age[w].top /\ bot[w] = 0 /\ reg[w].job = deq[w][b]
  BY <1>1 DEF OwnerOf
<1>3. b + 1 = Bottom(w) /\ Live(w, b)
  BY <1>1, <1>2 DEF Bottom, Live, ResetPcs
<1>4. Fresh(deq[w][b], "slot", w, b)
  BY <1>1, <1>3, LiveJob
<1>5. g \in Ages /\ age[w].tag < g.tag
  BY <1>1 DEF NextAge, Ages
<1>6. Popped(w, deq[w][b]) /\ UNCHANGED <<bot, deq, loop, done, ran>> /\ age' = [age EXCEPT ![w] = g]
  BY <1>2 DEF PopLast
<1>7. /\ frames' = [frames EXCEPT ![w] = <<Frame(Right(Top(w).range), Top(w).job)>> \o Tail(@)]
      /\ Goto(w, "run") /\ reg' = [reg EXCEPT ![w] = NoReg] /\ ok' = (ok /\ deq[w][b] = Right(Top(w).range))
  BY <1>1, <1>4, <1>6 DEF Popped, Fresh
<1> HIDE DEF b, g
<1> QED BY <1>1, <1>2, <1>3, <1>5, <1>6, <1>7, OwnJobStep

LEMMA OwnSteps == ASSUME Inv, NEW w \in Workers, Own(w) PROVE Inv'
<1>1. bot[w] \in Nat /\ age[w].top \in Nat
  BY Types DEF Inv
<1>2. CASE PopBottom(w)
  BY <1>2, PopDownStep, PopNothingStep, PopJoinStep
<1>3. CASE PopAge(w)
  BY <1>1, <1>3, PopOwnStep, PopToResetStep
<1>4. CASE PopLast(w)
  BY <1>4, PopLateStep, PopLastStep
<1> QED BY <1>2, <1>3, <1>4, PopResetStep, PopTagStep DEF Own

-----------------------------------------------------------------------------
(* A thief.                                                                *)

(* A worker that waits for a job, or has none, has nothing in its deque.   *)
LEMMA NoneLeft ==
  ASSUME Inv, NEW w \in Workers, At(w) \in {"join", "idle"}
  PROVE  Bottom(w) = 0 /\ Height(w) = 0 /\ \A s \in Nat : ~Live(w, s)
<1>1. TypeOK /\ Height(w) = 0 /\ Bottom(w) \in Nat /\ age[w].top \in Nat
  BY BottomType, Types DEF Height, Inv
<1>2. ASSUME Bottom(w) # 0 PROVE FALSE
  <2>1. Bottom(w) - 1 \in Nat /\ Bottom(w) - 1 < Bottom(w) /\ Height(w) + Bottom(w) - (Bottom(w) - 1) = 1
    BY <1>1, <1>2
  <2>2. 1 \in 1 .. Len(frames[w]) /\ frames[w][1].at = "left"
    BY <2>1, LiveSlot
  <2>3. ~Idle(w)
    BY <2>2 DEF Idle
  <2> QED BY <1>1, <2>2, <2>3, TopIs
<1> QED BY <1>1, <1>2 DEF Live

LEMMA ThiefAlone ==
  ASSUME Inv, NEW w \in Workers, Bottom(w) = 0, UNCHANGED <<n, granularity, bot, deq>>,
         \A v \in Workers \ {w} : frames'[v] = frames[v] /\ pc'[v] = pc[v] /\ reg'[v] = reg[v],
         NEW p \in Workers, NEW a \in Ages, age' = [age EXCEPT ![p] = a],
         a = age[p] \/ (p # w /\ a.tag = age[p].tag /\ a.top > age[p].top)
  PROVE  Alone(w) /\ age' \in [Workers -> Ages]
<1>1. age \in [Workers -> Ages] /\ age' \in [Workers -> Ages] /\ age'[p] = a /\ \A v \in Workers \ {p} : age'[v] = age[v]
  BY DEF Inv, TypeOK
<1>2. \A v \in Workers : /\ age[v] \in Ages /\ age[v].tag \in Nat /\ age[v].top \in Nat
                         /\ age'[v] \in Ages /\ age'[v].tag \in Nat /\ age'[v].top \in Nat
  BY <1>1 DEF Ages
<1>3. ASSUME NEW v \in Workers PROVE Older(v)
  <2>1. NotAfter(age[v], age'[v])
    BY <1>1, <1>2 DEF NotAfter
  <2>2. ASSUME age'[v] = age[v], age[v].top < Bottom(v)
        PROVE  age[v].top < Bottom(v)' /\ deq'[v][age[v].top] = deq[v][age[v].top]
    <3>1. v # w
      BY <1>2, <2>2
    <3>2. Bottom(v)' = Bottom(v)
      BY <3>1 DEF Bottom
    <3> QED BY <2>2, <3>2
  <2> QED BY <1>2, <2>1, <2>2 DEF Older
<1>4. ASSUME NEW v \in Workers \ {w} PROVE age'[v].tag = age[v].tag /\ age[v].top <= age'[v].top
  BY <1>1, <1>2
<1> QED BY <1>1, <1>3, <1>4 DEF Alone

(* The job leaves the hand it is in.                                       *)
Leaves(c, w, p, t) ==
  \/ c = "won" /\ p = w /\ t = 0 /\ age' = age
  \/ c = "slot" /\ p # w /\ age[p].top = t /\ age' = [age EXCEPT ![p] = [tag |-> age[p].tag, top |-> t + 1]]

LEMMA LeavesAge ==
  ASSUME Inv, NEW w \in Workers, NEW p \in Workers, NEW t \in Nat, NEW c, Leaves(c, w, p, t), Bottom(w) = 0,
         UNCHANGED <<n, granularity, bot, deq>>,
         \A v \in Workers \ {w} : frames'[v] = frames[v] /\ pc'[v] = pc[v] /\ reg'[v] = reg[v]
  PROVE  /\ Alone(w) /\ age' \in [Workers -> Ages]
         /\ c = "slot" => ~Live(p, t)'
<1>1. age \in [Workers -> Ages] /\ age[p] \in Ages /\ age[p].tag \in Nat /\ age[p].top \in Nat
  BY Types DEF Inv, TypeOK
<1>2. CASE c = "won" /\ age' = age
  <2>1. age' = [age EXCEPT ![p] = age[p]]
    BY <1>1, <1>2
  <2> QED BY <1>1, <1>2, <2>1, ThiefAlone
<1>3. CASE c = "slot" /\ p # w /\ age[p].top = t /\ age' = [age EXCEPT ![p] = [tag |-> age[p].tag, top |-> t + 1]]
  <2> DEFINE a == [tag |-> age[p].tag, top |-> t + 1]
  <2>1. a \in Ages /\ a.tag = age[p].tag /\ a.top = t + 1 /\ a.top > age[p].top
    BY <1>1, <1>3 DEF Ages
  <2>2. age' = [age EXCEPT ![p] = a]
    BY <1>3
  <2> HIDE DEF a
  <2>3. Alone(w) /\ age' \in [Workers -> Ages]
    BY <1>3, <2>1, <2>2, ThiefAlone
  <2>4. age'[p].top = t + 1
    BY <1>1, <2>1, <2>2
  <2> QED BY <2>3, <2>4 DEF Live
<1> QED BY <1>2, <1>3 DEF Leaves

(* A worker runs a job that it got from a deque.                           *)
LEMMA RunStep ==
  ASSUME Inv, NEW w \in Workers, pc[w] \in Seeking, NEW c \in {"slot", "won"}, NEW p \in Workers, NEW t \in Nat,
         Leaves(c, w, p, t), NEW J, Fresh(J, c, p, t), \A i : In(i, J) => Holds(c, p, t, i),
         frames' = [frames EXCEPT ![w] = <<Frame(J, J)>> \o @], Goto(w, "run"), ok' = (ok /\ J \notin done),
         reg' = [reg EXCEPT ![w] = NoReg], UNCHANGED <<bot, deq, loop, done, ran>>
  PROVE  Inv'
<1> DEFINE x == Frame(J, J)
<1>1. /\ TypeOK /\ NoReg \in Regs /\ NoReg.job = NoJob /\ Len(frames[w]) \in Nat /\ n \in Nat /\ granularity \in Nat
      /\ QSize \in Nat /\ bot[w] \in Nat /\ 0 \in Workers
  BY RegTypes, Types DEF Inv
<1>2. /\ J \in Ranges /\ J \in Tasks /\ J # NoJob /\ J[1] \in Nat /\ J[2] \in Nat /\ J[1] < J[2] /\ J[2] <= n
      /\ HasParent(J) /\ ~Runs(J) /\ J \notin done
  BY RangeIsTask DEF Fresh
<1>3. /\ At(w) \in {"join", "idle"} /\ (At(w) = "idle" => w # 0) /\ Bottom(w) = bot[w] /\ Bottom(w) = 0
      /\ (At(w) = "idle" <=> Idle(w))
  BY SeekerPlaced, NoneLeft, OwnerPlaced
<1>4. granularity >= 1
  <2>1. PICK v \in Workers : \E k \in 1 .. Len(frames[v]) :
          frames[v][k].at # "enter" /\ Right(frames[v][k].range) = J
    BY <1>2 DEF HasParent
  <2> QED BY <2>1 DEF Inv, StackOK, StackOf
<1>5. x \in Calls /\ x.at = "enter" /\ x.range = J /\ x.job = J
  BY <1>2 DEF Calls, Frame
<1>6. frames' = [frames EXCEPT ![w] = <<x>> \o @]
  OBVIOUS
<1> HIDE DEF x
<1>7. /\ frames' \in [Workers -> Seq(Calls)] /\ Len(frames'[w]) = Len(frames[w]) + 1
      /\ frames'[w][1] = x /\ \A k \in 1 .. Len(frames[w]) : frames'[w][k + 1] = frames[w][k]
      /\ At(w)' = "enter" /\ Top(w)' = x
      /\ \A v \in Workers \ {w} : frames'[v] = frames[v] /\ At(v)' = At(v) /\ Top(v)' = Top(v) /\ Height(v)' = Height(v)
  BY <1>1, <1>5, <1>6, TopPushed
<1>8. /\ DOMAIN pc' = Workers /\ pc'[w] = "run" /\ reg'[w] = NoReg /\ bot' = bot /\ deq' = deq
      /\ reg' \in [Workers -> Regs]
      /\ \A v \in Workers \ {w} : pc'[v] = pc[v] /\ reg'[v] = reg[v]
  BY <1>1, PcIsFunction DEF TypeOK
<1>9. UNCHANGED <<n, granularity, ran, done>> /\ ok' = TRUE
  BY <1>2 DEF loop, Inv
<1>10. Alone(w) /\ age' \in [Workers -> Ages] /\ (c = "slot" => ~Live(p, t)')
  BY <1>3, <1>7, <1>8, <1>9, LeavesAge
<1>11. TypeOK'
  BY <1>1, <1>7, <1>8, <1>9, <1>10, TypeKept DEF TypeOK
<1>12. Bottom(w)' = 0 /\ (\A s \in Nat : ~Live(w, s)') /\ ~Won(w)'
  BY <1>3, <1>8 DEF Bottom, ResetPcs, Live, Won, WakePcs
<1>13. ASSUME NEW k \in 1 .. Len(frames'[w]), k # 1
       PROVE  k - 1 \in 1 .. Len(frames[w]) /\ frames'[w][k] = frames[w][k - 1]
  <2>1. k - 1 \in 1 .. Len(frames[w]) /\ (k - 1) + 1 = k
    BY <1>1, <1>7, <1>13
  <2>2. frames'[w][(k - 1) + 1] = frames[w][k - 1]
    BY <1>7, <2>1
  <2> QED BY <2>1, <2>2
<1>14. ~Idle(w) => Len(frames[w]) >= 1 /\ frames[w][1].at = "join"
  BY <1>1, <1>3, TopIs
<1>15. Idle(w) => Len(frames[w]) = 0
  BY <1>1 DEF Idle
<1>16. PcOK' /\ StackOK' /\ DequeOK' /\ OwnerOK' /\ ThiefOK'
  <2>1. StackOf(w)'
    <3> SUFFICES ASSUME NEW k \in 1 .. Len(frames'[w]) PROVE
           LET f == frames'[w][k] IN
           /\ granularity >= 1
           /\ f.range[1] <= f.range[2] /\ f.range[2] <= n
           /\ f.at = "enter" => k = 1
           /\ f.at # "enter" => f.range[2] - f.range[1] > granularity
           /\ k < Len(frames'[w]) => (f.job = NoJob <=> frames'[w][k + 1].at = "left")
           /\ k = Len(frames'[w]) => (f.job = NoJob <=> w = 0)
      BY <1>9 DEF StackOf
    <3>1. CASE k = 1
      <4>1. k < Len(frames'[w]) => frames'[w][k + 1].at = "join"
        <5>1. ASSUME k < Len(frames'[w]) PROVE frames'[w][k + 1].at = "join"
          <6>1. 1 \in 1 .. Len(frames[w])
            BY <1>1, <1>7, <3>1, <5>1
          <6> QED BY <1>7, <1>14, <1>15, <3>1, <6>1
        <5> QED BY <5>1
      <4>2. k = Len(frames'[w]) => w # 0
        BY <1>1, <1>3, <1>7, <1>14, <3>1
      <4> QED BY <1>2, <1>4, <1>5, <1>7, <3>1, <4>1, <4>2
    <3>2. CASE k # 1
      <4> DEFINE j == k - 1
      <4>1. j \in 1 .. Len(frames[w]) /\ frames'[w][k] = frames[w][j] /\ ~Idle(w)
        BY <1>1, <1>13, <1>15, <3>2
      <4>2. LET f == frames[w][j] IN
           /\ f.range[1] <= f.range[2] /\ f.range[2] <= n
           /\ f.at = "enter" => j = 1
           /\ f.at # "enter" => f.range[2] - f.range[1] > granularity
           /\ j < Len(frames[w]) => (f.job = NoJob <=> frames[w][j + 1].at = "left")
           /\ j = Len(frames[w]) => (f.job = NoJob <=> w = 0)
        BY <4>1 DEF Inv, StackOK, StackOf
      <4>3. frames[w][j].at # "enter"
        BY <1>14, <4>1, <4>2
      <4>4. j < Len(frames[w]) => frames'[w][k + 1] = frames[w][j + 1]
        BY <1>1, <1>7, <4>1
      <4>5. (k < Len(frames'[w]) <=> j < Len(frames[w])) /\ (k = Len(frames'[w]) <=> j = Len(frames[w]))
        BY <1>1, <1>7, <4>1
      <4> HIDE DEF j
      <4> QED BY <1>4, <4>1, <4>2, <4>3, <4>4, <4>5
    <3> QED BY <3>1, <3>2
  <2>2. MayBe(w, pc[w])'
    BY <1>7, <1>8 DEF MayBe
  <2>3. DequeOf(w)'
    BY <1>12 DEF DequeOf
  <2>4. OwnerOf(w)'
    BY <1>1, <1>7, <1>8 DEF OwnerOf, ResetPcs
  <2>5. ThiefOf(w)'
    BY <1>8 DEF ThiefOf
  <2> QED BY <1>10, <2>1, <2>2, <2>3, <2>4, <2>5, Around
<1>17. (pc'[0] = "parallel_for" => pc[0] = "parallel_for") /\ (pc'[0] \in AfterLoop => pc[0] \in AfterLoop)
  BY <1>1, <1>8 DEF AfterLoop
<1>18. Passes(c, p, t, "call", w, 0)
  <2> SUFFICES ASSUME NEW v \in Workers, NEW s \in Nat, NEW d \in Hands, NEW i \in Nat, Holds(d, v, s, i)'
               PROVE  \/ Holds(d, v, s, i) /\ ~(d = c /\ v = p /\ s = t) /\ ~(d = "call" /\ v = w /\ s = 0)
                      \/ d = "call" /\ v = w /\ s = 0 /\ Holds(c, p, t, i)
    BY DEF Passes
  <2>1. CASE d = "loop"
    BY <1>17, <2>1 DEF Holds
  <2>2. CASE d # "loop" /\ v # w
    <3>1. Holds(d, v, s, i)
      BY <1>10, <2>2, OthersHold
    <3>2. ~(d = c /\ v = p /\ s = t)
      BY <1>10, <2>2 DEF Holds, Leaves
    <3> QED BY <2>2, <3>1, <3>2
  <2>3. CASE d = "call" /\ v = w
    BY <1>5, <1>7, <2>3 DEF Holds
  <2>4. CASE d \in {"slot", "won"} /\ v = w
    BY <1>12, <2>4 DEF Holds
  <2> QED BY <2>1, <2>2, <2>3, <2>4 DEF Hands
<1>19. HoldOK' /\ \A i \in Nat : Whole(i)' => Whole(i)
  BY <1>9, <1>18, PassStep DEF Hands
<1>20. ASSUME NEW v \in Workers, NEW k \in 1 .. Len(frames'[v]), ~(v = w /\ k = 1)
       PROVE  \E j \in 1 .. Len(frames[v]) : frames'[v][k] = frames[v][j]
  <2>1. CASE v # w
    BY <1>7, <2>1
  <2>2. CASE v = w
    BY <1>13, <1>20, <2>2
  <2> QED BY <2>1, <2>2
<1>21. SplitOK'
  <2>1. ASSUME NEW i \in Nat, Cut(i)' PROVE Cut(i)
    <3>1. PICK v \in Workers : \E k \in 1 .. Len(frames'[v]) :
            frames'[v][k].at # "enter" /\ Mid(frames'[v][k].range) = i + 1
      BY <2>1 DEF Cut
    <3>2. PICK k \in 1 .. Len(frames'[v]) : frames'[v][k].at # "enter" /\ Mid(frames'[v][k].range) = i + 1
      BY <3>1
    <3>3. PICK j \in 1 .. Len(frames[v]) : frames'[v][k] = frames[v][j]
      BY <1>5, <1>7, <1>20, <3>2
    <3> QED BY <3>2, <3>3 DEF Cut
  <2> QED BY <1>19, <2>1 DEF SplitOK, Inv
<1>22. JobOK'
  <2>1. ASSUME NEW job \in Ranges
        PROVE  /\ Taken(job)' => Taken(job) /\ job # J
               /\ Queued(job)' => Queued(job) /\ job # J
               /\ Runs(job)' => Runs(job) \/ job = J
               /\ RunsOnce(job) \/ job = J => RunsOnce(job)'
               /\ HasParent(job) => HasParent(job)'
    <3>1. ASSUME Taken(job)' PROVE Taken(job) /\ job # J
      <4>1. PICK v \in Workers : Won(v)' /\ reg'[v].job = job
        BY <3>1 DEF Taken
      <4>2. v # w /\ Won(v) /\ reg[v].job = job
        BY <1>8, <1>10, <1>12, <4>1, OthersHold
      <4> QED BY <4>2 DEF Taken, Fresh, Leaves
    <3>2. ASSUME Queued(job)' PROVE Queued(job) /\ job # J
      <4>1. PICK v \in Workers, s \in Nat : Live(v, s)' /\ deq'[v][s] = job
        BY <3>2 DEF Queued
      <4>2. v # w /\ Live(v, s) /\ deq[v][s] = job
        BY <1>8, <1>10, <1>12, <4>1, OthersHold
      <4> QED BY <1>10, <4>1, <4>2 DEF Queued, Fresh
    <3>3. ASSUME Runs(job)' PROVE Runs(job) \/ job = J
      <4>1. PICK v \in Workers : \E k \in 1 .. Len(frames'[v]) : frames'[v][k].job = job
        BY <3>3 DEF Runs
      <4>2. PICK k \in 1 .. Len(frames'[v]) : frames'[v][k].job = job
        BY <4>1
      <4>3. CASE v = w /\ k = 1
        BY <1>5, <1>7, <4>2, <4>3
      <4>4. CASE ~(v = w /\ k = 1)
        <5>1. PICK j \in 1 .. Len(frames[v]) : frames'[v][k] = frames[v][j]
          BY <1>20, <4>4
        <5> QED BY <4>2, <5>1 DEF Runs
      <4> QED BY <4>3, <4>4
    <3>4. ASSUME RunsOnce(job) \/ job = J PROVE RunsOnce(job)'
      <4> SUFFICES ASSUME NEW u \in Workers, NEW v \in Workers,
                          NEW k \in 1 .. Len(frames'[u]), NEW j \in 1 .. Len(frames'[v]),
                          frames'[u][k].job = job, frames'[v][j].job = job
                   PROVE  u = v /\ k = j
        BY DEF RunsOnce
      <4>1. CASE job = J
        <5>1. ASSUME NEW q \in Workers, NEW m \in 1 .. Len(frames'[q]), frames'[q][m].job = J
              PROVE  q = w /\ m = 1
          BY <1>2, <1>20, <5>1 DEF Runs
        <5> QED BY <4>1, <5>1
      <4>2. CASE job # J
        <5>1. ~(u = w /\ k = 1) /\ ~(v = w /\ j = 1)
          BY <1>5, <1>7, <4>2
        <5> DEFINE k0 == IF u = w THEN k - 1 ELSE k
                   j0 == IF v = w THEN j - 1 ELSE j
        <5>2. k0 \in 1 .. Len(frames[u]) /\ frames'[u][k] = frames[u][k0]
          BY <1>7, <1>13, <5>1
        <5>3. j0 \in 1 .. Len(frames[v]) /\ frames'[v][j] = frames[v][j0]
          BY <1>7, <1>13, <5>1
        <5>4. k \in Int /\ j \in Int /\ (u = v /\ k0 = j0 => k = j)
          BY <1>1, <1>7, Types
        <5> HIDE DEF k0, j0
        <5>5. frames[u][k0].job = job /\ frames[v][j0].job = job
          BY <5>2, <5>3
        <5>6. u = v /\ k0 = j0
          BY <3>4, <4>2, <5>2, <5>3, <5>5 DEF RunsOnce
        <5> QED BY <5>4, <5>6
      <4> QED BY <4>1, <4>2
    <3>5. ASSUME HasParent(job) PROVE HasParent(job)'
      <4>1. PICK v \in Workers : \E k \in 1 .. Len(frames[v]) :
              frames[v][k].at # "enter" /\ Right(frames[v][k].range) = job
        BY <3>5 DEF HasParent
      <4>2. PICK k \in 1 .. Len(frames[v]) : frames[v][k].at # "enter" /\ Right(frames[v][k].range) = job
        BY <4>1
      <4>3. \E j \in 1 .. Len(frames'[v]) : frames'[v][j] = frames[v][k]
        <5>1. CASE v # w
          BY <1>7, <5>1
        <5>2. CASE v = w
          <6>1. k + 1 \in 1 .. Len(frames'[w]) /\ frames'[w][k + 1] = frames[w][k]
            BY <1>1, <1>7, <5>2
          <6> QED BY <5>2, <6>1
        <5> QED BY <5>1, <5>2
      <4>4. PICK j \in 1 .. Len(frames'[v]) : frames'[v][j] = frames[v][k]
        BY <4>3
      <4> QED BY <4>2, <4>4 DEF HasParent
    <3> QED BY <3>1, <3>2, <3>3, <3>4, <3>5
  <2> QED BY <1>2, <1>9, <2>1 DEF JobOK, Inv
<1>23. CoverOK'
  <2>1. ASSUME NEW i \in 0 .. n - 1, NEW v \in Workers, NEW k \in 1 .. Len(frames'[v]) PROVE Covered(i, v, k)'
    <3>1. Past(i)' <=> Past(i)
      BY <1>9 DEF Past
    <3>2. CASE v # w
      <4>1. frames'[v] = frames[v]
        BY <1>7, <3>2
      <4>2. Covered(i, v, k)
        BY <4>1 DEF Inv, CoverOK
      <4> QED BY <3>1, <4>1, <4>2 DEF Covered
    <3>3. CASE v = w /\ k = 1
      <4>1. ~(w = 0 /\ k = Len(frames'[w]))
        BY <1>1, <1>3, <1>7, <1>14, <3>3
      <4> QED BY <1>5, <1>7, <3>3, <4>1 DEF Covered
    <3>4. CASE v = w /\ k # 1
      <4> DEFINE j == k - 1
      <4>1. j \in 1 .. Len(frames[w]) /\ frames'[w][k] = frames[w][j] /\ ~Idle(w)
        BY <1>1, <1>13, <1>15, <3>4
      <4>2. Covered(i, w, j)
        BY <4>1 DEF Inv, CoverOK
      <4>3. k = Len(frames'[w]) <=> j = Len(frames[w])
        BY <1>1, <1>7, <4>1
      <4>4. j > 1 => frames'[w][k - 1] = frames[w][j - 1]
        BY <1>1, <1>13, <4>1
      <4>5. j = 1 => frames[w][j].at = "join"
        BY <1>14, <4>1
      <4>6. j \in Nat /\ k - 1 = j
        BY <4>1
      <4> HIDE DEF j
      <4> QED BY <3>1, <3>4, <4>1, <4>2, <4>3, <4>4, <4>5, <4>6 DEF Covered
    <3> QED BY <3>2, <3>3, <3>4
  <2> QED BY <1>9, <1>17, <2>1 DEF CoverOK, Inv, Past
<1> QED BY <1>9, <1>11, <1>16, <1>19, <1>21, <1>22, <1>23 DEF Inv

LEMMA StolenStep == ASSUME Inv, NEW w \in Workers, Stolen(w), reg[w].job # NoJob PROVE Inv'
<1> DEFINE J == reg[w].job
<1>1. pc[w] \in Seeking /\ Won(w) /\ Fresh(J, "won", w, 0)
  BY WonJob DEF Stolen, Seeking, Won
<1>2. Leaves("won", w, w, 0) /\ Run(w, J) /\ reg' = [reg EXCEPT ![w] = NoReg] /\ UNCHANGED <<bot, deq, loop, done, ran>>
  BY DEF Stolen, deques, Leaves
<1>3. frames' = [frames EXCEPT ![w] = <<Frame(J, J)>> \o @] /\ Goto(w, "run") /\ ok' = (ok /\ J \notin done)
  BY <1>2 DEF Run, Enter
<1>4. \A i : In(i, J) => Holds("won", w, 0, i)
  BY <1>1 DEF Holds
<1> HIDE DEF J
<1> QED BY <1>1, <1>2, <1>3, <1>4, RunStep

(* A compare-exchange that succeeds takes the job that was read.           *)
LEMMA TheftTakes ==
  ASSUME Inv, NEW w \in Workers, StealAge(w), NEW p \in Workers, p = reg[w].who, NEW t \in Nat, t = reg[w].age.top,
         age[p] = reg[w].age
  PROVE  /\ pc[w] \in Seeking /\ p # w /\ Live(p, t) /\ deq[p][t] = reg[w].job /\ Fresh(reg[w].job, "slot", p, t)
         /\ Leaves("slot", w, p, t) /\ Stole(w, reg[w].job, t) /\ UNCHANGED <<bot, deq, loop, done, ran>>
         /\ \A i : In(i, reg[w].job) => Holds("slot", p, t, i)
<1>1. pc[w] = "steal_age" /\ pc[w] \in Seeking /\ ThiefOf(w)
  BY DEF StealAge, Seeking, Inv, ThiefOK
<1>2. t < Bottom(p) /\ reg[w].job = deq[p][t] /\ age[p].top = t
  BY <1>1 DEF ThiefOf
<1>3. Bottom(w) = 0
  BY <1>1, SeekerPlaced, NoneLeft
<1>4. p # w /\ Live(p, t)
  BY <1>2, <1>3 DEF Live
<1>5. Fresh(reg[w].job, "slot", p, t)
  BY <1>2, <1>4, LiveJob
<1>6. age \in [Workers -> Ages] /\ age[p] \in Ages
  BY DEF Inv, TypeOK
<1>7. /\ age' = [age EXCEPT ![p].top = @ + 1] /\ Stole(w, reg[w].job, t)
      /\ UNCHANGED <<bot, deq, loop, done, ran>>
  BY DEF StealAge
<1>8. Leaves("slot", w, p, t)
  <2>1. [age[p] EXCEPT !.top = age[p].top + 1] = [tag |-> age[p].tag, top |-> t + 1]
    BY <1>2, <1>6 DEF Ages
  <2>2. age' = [age EXCEPT ![p] = [age[p] EXCEPT !.top = age[p].top + 1]]
    BY <1>7
  <2> QED BY <1>2, <1>4, <2>1, <2>2 DEF Leaves
<1> QED BY <1>1, <1>2, <1>4, <1>5, <1>7, <1>8 DEF Holds

LEMMA RunTheftStep ==
  ASSUME Inv, NEW w \in Workers, StealAge(w), age[reg[w].who] = reg[w].age, reg[w].bot = reg[w].age.top + 1
  PROVE  Inv'
<1>1. PICK p \in Workers, t \in Nat : p = reg[w].who /\ t = reg[w].age.top
  BY Types DEF Inv
<1>2. PICK J : J = reg[w].job
  OBVIOUS
<1>3. /\ pc[w] \in Seeking /\ Fresh(J, "slot", p, t)
      /\ Leaves("slot", w, p, t) /\ Stole(w, J, t) /\ UNCHANGED <<bot, deq, loop, done, ran>>
      /\ \A i : In(i, J) => Holds("slot", p, t, i)
  BY <1>1, <1>2, TheftTakes
<1>4. reg' = [reg EXCEPT ![w] = NoReg] /\ Run(w, J)
  BY <1>1, <1>3 DEF Stole, Fresh
<1>5. frames' = [frames EXCEPT ![w] = <<Frame(J, J)>> \o @] /\ Goto(w, "run") /\ ok' = (ok /\ J \notin done)
  BY <1>4 DEF Run, Enter
<1> QED BY <1>3, <1>4, <1>5, RunStep

(* The thief wakes another worker before it runs the job.                  *)
LEMMA KeepTheftStep ==
  ASSUME Inv, NEW w \in Workers, StealAge(w), age[reg[w].who] = reg[w].age, reg[w].bot # reg[w].age.top + 1
  PROVE  Inv'
<1>1. PICK p \in Workers, t \in Nat : p = reg[w].who /\ t = reg[w].age.top
  BY Types DEF Inv
<1>2. PICK J : J = reg[w].job
  OBVIOUS
<1>3. /\ pc[w] \in Seeking /\ Fresh(J, "slot", p, t) /\ p # w
      /\ Leaves("slot", w, p, t) /\ Stole(w, J, t) /\ UNCHANGED <<bot, deq, loop, done, ran>>
      /\ \A i : In(i, J) => Holds("slot", p, t, i)
  BY <1>1, <1>2, TheftTakes
<1>4. J \in Tasks /\ J # NoJob
  BY <1>3, RangeIsTask DEF Fresh
<1> DEFINE r == [NoReg EXCEPT !.job = J]
<1>5. reg' = [reg EXCEPT ![w] = r] /\ Goto(w, "wake") /\ UNCHANGED <<frames, ok>>
  BY <1>1, <1>3 DEF Stole
<1>6. TypeOK /\ r \in Regs /\ r.job = J /\ 0 \in Workers
  BY <1>4, RegTypes, Types DEF Inv
<1> HIDE DEF r
<1>7. /\ DOMAIN pc' = Workers /\ pc'[w] = "wake" /\ reg'[w] = r /\ bot' = bot /\ deq' = deq
      /\ reg' \in [Workers -> Regs]
      /\ \A v \in Workers \ {w} : pc'[v] = pc[v] /\ reg'[v] = reg[v]
  BY <1>3, <1>5, <1>6, PcIsFunction DEF TypeOK
<1>8. UNCHANGED <<frames, n, granularity, ran, done, ok>>
  BY <1>3, <1>5 DEF loop
<1>9. /\ At(w) \in {"join", "idle"} /\ (At(w) = "idle" => w # 0) /\ Bottom(w) = bot[w] /\ Bottom(w) = 0
      /\ \A l \in StealPcs \cup WakePcs : MayBe(w, l)
  BY <1>3, SeekerPlaced, NoneLeft
<1>10. Alone(w) /\ age' \in [Workers -> Ages] /\ ~Live(p, t)'
  BY <1>3, <1>7, <1>8, <1>9, LeavesAge
<1>11. TypeOK'
  BY <1>6, <1>7, <1>8, <1>10, TypeKept DEF TypeOK
<1>12. Bottom(w)' = 0 /\ \A s \in Nat : ~Live(w, s)'
  BY <1>7, <1>9 DEF Bottom, ResetPcs, Live
<1>13. At(w)' = At(w) /\ Top(w)' = Top(w)
  BY <1>8, OthersStacks
<1>14. PcOK' /\ StackOK' /\ DequeOK' /\ OwnerOK' /\ ThiefOK'
  <2>1. StackOf(w)'
    BY <1>8 DEF Inv, StackOK, StackOf
  <2>2. MayBe(w, pc[w])'
    BY <1>7, <1>9, <1>13 DEF MayBe, WakePcs
  <2>3. DequeOf(w)'
    BY <1>12 DEF DequeOf
  <2>4. OwnerOf(w)'
    BY <1>7, <1>9, <1>13 DEF OwnerOf
  <2>5. ThiefOf(w)'
    BY <1>7 DEF ThiefOf
  <2> QED BY <1>10, <2>1, <2>2, <2>3, <2>4, <2>5, Around
<1>15. (pc'[0] = "parallel_for" => pc[0] = "parallel_for") /\ (pc'[0] \in AfterLoop => pc[0] \in AfterLoop)
  BY <1>6, <1>7 DEF AfterLoop
<1>16. Passes("slot", p, t, "won", w, 0)
  <2> SUFFICES ASSUME NEW v \in Workers, NEW s \in Nat, NEW c \in Hands, NEW i \in Nat, Holds(c, v, s, i)'
               PROVE  \/ Holds(c, v, s, i) /\ ~(c = "slot" /\ v = p /\ s = t) /\ ~(c = "won" /\ v = w /\ s = 0)
                      \/ c = "won" /\ v = w /\ s = 0 /\ Holds("slot", p, t, i)
    BY DEF Passes
  <2>1. CASE c = "loop"
    BY <1>15, <2>1 DEF Holds
  <2>2. CASE c # "loop" /\ v # w
    <3>1. Holds(c, v, s, i)
      BY <1>10, <2>2, OthersHold
    <3>2. ~(c = "slot" /\ v = p /\ s = t)
      BY <1>10 DEF Holds
    <3> QED BY <2>2, <3>1, <3>2
  <2>3. CASE c = "call" /\ v = w
    BY <1>3, <1>13, <2>3 DEF Holds
  <2>4. CASE c = "slot" /\ v = w
    BY <1>12, <2>4 DEF Holds
  <2>5. CASE c = "won" /\ v = w
    BY <1>3, <1>6, <1>7, <2>5 DEF Holds
  <2> QED BY <2>1, <2>2, <2>3, <2>4, <2>5 DEF Hands
<1>17. HoldOK' /\ \A i \in Nat : Whole(i)' => Whole(i)
  BY <1>8, <1>16, PassStep DEF Hands
<1>18. SplitOK'
  <2>1. \A i \in Nat : Cut(i)' => Cut(i)
    BY <1>8 DEF Cut
  <2> QED BY <1>17, <2>1 DEF SplitOK, Inv
<1>19. JobOK'
  <2>1. ASSUME NEW job \in Ranges
        PROVE  /\ Taken(job)' => Taken(job) \/ job = J
               /\ Queued(job)' => Queued(job)
               /\ Runs(job)' <=> Runs(job)
               /\ RunsOnce(job)' <=> RunsOnce(job)
               /\ HasParent(job)' <=> HasParent(job)
    <3>1. Taken(job)' => Taken(job) \/ job = J
      BY <1>6, <1>7, <1>10, OthersHold DEF Taken
    <3>2. Queued(job)' => Queued(job)
      BY <1>7, <1>10, <1>12, OthersHold DEF Queued
    <3> QED BY <1>8, <3>1, <3>2 DEF Runs, RunsOnce, HasParent
  <2> QED BY <1>3, <1>8, <2>1 DEF JobOK, Inv, Fresh
<1>20. CoverOK'
  BY <1>8, <1>15 DEF CoverOK, Covered, Past, Inv
<1> QED BY <1>8, <1>11, <1>14, <1>17, <1>18, <1>19, <1>20 DEF Inv

LEMMA TheftSteps == ASSUME Inv, NEW w \in Workers, Theft(w) PROVE Inv'
<1>1. CASE StealAge(w)
  BY <1>1, NoTheftStep, RunTheftStep, KeepTheftStep
<1>2. CASE Stolen(w)
  BY <1>2, StolenStep, NothingStolenStep
<1> QED BY <1>1, <1>2, StealStep, StealBotStep, StealSlotStep DEF Theft

-----------------------------------------------------------------------------
(* A call returns.                                                         *)

LEMMA RanTypes ==
  ASSUME TypeOK, NEW from \in Nat, NEW to \in Nat, Ran(from, to)
  PROVE  /\ ran' \in [0 .. n - 1 -> Nat]
         /\ \A i \in 0 .. n - 1 : ran'[i] = IF from <= i /\ i < to THEN ran[i] + 1 ELSE ran[i]
<1>1. ran \in [0 .. n - 1 -> Nat] /\ n \in Nat
  BY DEF TypeOK
<1>2. ran' = [i \in 0 .. n - 1 |-> IF i \in from .. to - 1 THEN ran[i] + 1 ELSE ran[i]]
  BY <1>1 DEF Ran
<1>3. \A i \in 0 .. n - 1 : ran[i] \in Nat /\ (i \in from .. to - 1 <=> from <= i /\ i < to)
  BY <1>1
<1> QED BY <1>1, <1>2, <1>3

(* What a call does before it returns.                                     *)
RanWhole(w) ==
  /\ ran' \in [0 .. n - 1 -> Nat]
  /\ \/ /\ At(w) = "enter"
        /\ \A i \in 0 .. n - 1 : ran'[i] = IF In(i, Top(w).range) THEN ran[i] + 1 ELSE ran[i]
     \/ /\ At(w) = "join" /\ Right(Top(w).range) \in done
        /\ \A i \in 0 .. n - 1 : ran'[i] = ran[i]

LEMMA ReturnStep ==
  ASSUME Inv, NEW w \in Workers, ~Idle(w), Return(w), UNCHANGED <<deques, reg, loop>>, ok' = TRUE,
         Bottom(w) = bot[w], ~Won(w), RanWhole(w)
  PROVE  Inv'
<1> DEFINE r == Top(w).range
           J == Top(w).job
           l == IF J # NoJob THEN "find" ELSE IF Len(frames[w]) > 1 THEN "pop" ELSE "shutdown"
<1>1. /\ TypeOK /\ Top(w) \in Calls /\ Top(w) = frames[w][1] /\ At(w) = frames[w][1].at
      /\ 1 \in 1 .. Len(frames[w]) /\ Len(frames[w]) \in Nat /\ n \in Nat /\ bot[w] \in Nat /\ 0 \in Workers
      /\ ran \in [0 .. n - 1 -> Nat] /\ granularity \in Nat
  BY TopIs, Types DEF Inv, TypeOK
<1>2. frames[w][1].range = r /\ frames[w][1].job = J /\ J \in Tasks
  BY <1>1 DEF Calls
<1>3. frames' = [frames EXCEPT ![w] = Tail(@)] /\ Goto(w, l) /\ done' = IF J = NoJob THEN done ELSE done \cup {J}
  BY DEF Return
<1>0. PICK m \in Nat : m = Len(frames[w])
  BY <1>1
<1> HIDE DEF r, J
<1>4. /\ J # NoJob => l = "find"
      /\ J = NoJob /\ m > 1 => l = "pop"
      /\ J = NoJob /\ m = 1 => l = "shutdown"
  <2>1. J # NoJob => l = "find"
    OBVIOUS
  <2>2. J = NoJob /\ m > 1 => l = "pop"
    BY <1>0
  <2>3. J = NoJob /\ m = 1 => l = "shutdown"
    <3>1. m = 1 => ~(m > 1)
      OBVIOUS
    <3> QED BY <1>0, <3>1
  <2> QED BY <2>1, <2>2, <2>3
<1> HIDE DEF l
<1>5. /\ frames' \in [Workers -> Seq(Calls)] /\ Len(frames'[w]) = m - 1 /\ m >= 1
      /\ \A k \in 1 .. m - 1 : frames'[w][k] = frames[w][k + 1]
      /\ At(w)' = IF m = 1 THEN "idle" ELSE frames[w][2].at
      /\ \A v \in Workers \ {w} : frames'[v] = frames[v] /\ At(v)' = At(v) /\ Top(v)' = Top(v) /\ Height(v)' = Height(v)
  BY <1>0, <1>1, <1>3, TopPopped
<1>6. /\ DOMAIN pc' = Workers /\ pc'[w] = l /\ \A v \in Workers \ {w} : pc'[v] = pc[v]
      /\ bot' = bot /\ deq' = deq /\ age' = age /\ reg' = reg /\ n' = n /\ granularity' = granularity
  BY <1>1, <1>3, PcIsFunction DEF deques, loop
<1>7. done' \subseteq Ranges /\ done \subseteq done'
  BY <1>1, <1>2, <1>3, TaskIsRange DEF TypeOK
<1>8. TypeOK'
  BY <1>1, <1>5, <1>6, <1>7, TypeKept DEF TypeOK, RanWhole
<1>9. \A j \in 1 .. m :
        /\ granularity >= 1
        /\ frames[w][j].range[1] <= frames[w][j].range[2] /\ frames[w][j].range[2] <= n
        /\ frames[w][j].at = "enter" => j = 1
        /\ frames[w][j].at # "enter" => frames[w][j].range[2] - frames[w][j].range[1] > granularity
        /\ j < m => (frames[w][j].job = NoJob <=> frames[w][j + 1].at = "left")
        /\ j = m => (frames[w][j].job = NoJob <=> w = 0)
  BY <1>0 DEF Inv, StackOK, StackOf
<1>10. \A k \in 1 .. (m - 1) : k + 1 \in 1 .. m /\ frames'[w][k] = frames[w][k + 1]
  BY <1>5
<1>11. m > 1 => 2 \in 1 .. m /\ frames[w][2].at \in {"left", "join"}
                             /\ (J = NoJob <=> frames[w][2].at = "left")
  <2> SUFFICES ASSUME m > 1
               PROVE  2 \in 1 .. m /\ frames[w][2].at \in {"left", "join"}
                      /\ (J = NoJob <=> frames[w][2].at = "left")
    OBVIOUS
  <2>1. 2 \in 1 .. m
    BY <1>1
  <2>2. frames[w][2].at \in {"enter", "left", "join"} /\ frames[w][2].at # "enter"
    <3>1. frames[w][2].at # "enter"
      BY <1>9, <2>1
    <3> QED BY <1>0, <1>1, <2>1, <3>1, CallTypes
  <2>3. frames[w][1].job = NoJob <=> frames[w][1 + 1].at = "left"
    BY <1>1, <1>9
  <2> QED BY <1>2, <2>1, <2>2, <2>3
<1>12. m = 1 => (J = NoJob <=> w = 0)
  BY <1>1, <1>2, <1>9
<1>13. /\ At(w)' # "enter" /\ MayBe(w, pc[w])' /\ l \in {"find", "pop", "shutdown"} /\ (l = "shutdown" => w = 0)
       /\ Bottom(w)' = Bottom(w) /\ Height(w)' = 0 /\ ~Won(w)'
  <2>1. m > 1 \/ m = 1
    BY <1>5
  <2>2. /\ l = "find" => At(w)' = "join" \/ (At(w)' = "idle" /\ w # 0)
        /\ l = "pop" => At(w)' = "left"
        /\ l = "shutdown" => At(w)' = "idle" /\ w = 0
        /\ l \in {"find", "pop", "shutdown"}
    BY <1>4, <1>5, <1>11, <1>12, <2>1
  <2>3. At(w)' # "enter" /\ MayBe(w, pc[w])'
    BY <1>6, <2>2 DEF MayBe, StealPcs, IdlePcs, MainPcs
  <2>4. Bottom(w)' = Bottom(w) /\ ~Won(w)'
    BY <1>6, <2>2 DEF Bottom, ResetPcs, Won, WakePcs
  <2> QED BY <2>2, <2>3, <2>4 DEF Height
<1>14. Alone(w)
  <2>1. age[w] \in Ages /\ age[w].tag \in Nat /\ age[w].top \in Nat
    BY <1>1, Types
  <2>2. Older(w)
    BY <1>6, <1>13, <2>1 DEF Older, NotAfter
  <2> QED BY <1>1, <1>5, <1>6, <2>2, Alones
<1>15. PcOK' /\ StackOK' /\ DequeOK' /\ OwnerOK' /\ ThiefOK'
  <2>1. StackOf(w)'
    <3> SUFFICES ASSUME NEW k \in 1 .. (m - 1) PROVE
           LET f == frames'[w][k] IN
           /\ granularity >= 1
           /\ f.range[1] <= f.range[2] /\ f.range[2] <= n
           /\ f.at = "enter" => k = 1
           /\ f.at # "enter" => f.range[2] - f.range[1] > granularity
           /\ k < (m - 1) => (f.job = NoJob <=> frames'[w][k + 1].at = "left")
           /\ k = (m - 1) => (f.job = NoJob <=> w = 0)
      BY <1>5, <1>6 DEF StackOf
    <3> DEFINE j == k + 1
    <3>1. j \in 1 .. m /\ frames'[w][k] = frames[w][j] /\ j > 1
      BY <1>10
    <3>2. LET f == frames[w][j] IN
           /\ granularity >= 1
           /\ f.range[1] <= f.range[2] /\ f.range[2] <= n
           /\ f.at # "enter"
           /\ f.at # "enter" => f.range[2] - f.range[1] > granularity
           /\ j < m => (f.job = NoJob <=> frames[w][j + 1].at = "left")
           /\ j = m => (f.job = NoJob <=> w = 0)
      BY <1>9, <3>1
    <3>3. (k < (m - 1) <=> j < m) /\ (k = (m - 1) <=> j = m)
      BY <3>1
    <3>4. k < (m - 1) => frames'[w][k + 1] = frames[w][j + 1]
      BY <1>5
    <3> HIDE DEF j
    <3> QED BY <3>1, <3>2, <3>3, <3>4
  <2>2. DequeOf(w)'
    <3> SUFFICES ASSUME NEW s \in 0 .. Bottom(w)' - 1
                 PROVE  LET k == Height(w)' + Bottom(w)' - s IN
                        /\ k <= (m - 1) /\ frames'[w][k].at = "left"
                        /\ deq'[w][s] = Right(frames'[w][k].range)
      BY <1>5 DEF DequeOf
    <3>1. s \in Nat /\ s < bot[w] /\ s < Bottom(w) /\ Height(w)' + Bottom(w)' - s = bot[w] - s
      BY <1>1, <1>13
    <3>2. At(w) = "enter"
      <4>1. Bottom(w) # 0
        BY <3>1
      <4> QED BY <4>1, NoneLeft DEF RanWhole
    <3>3. Height(w) + Bottom(w) - s = (bot[w] - s) + 1
      BY <1>1, <3>2 DEF Height
    <3>4. /\ (bot[w] - s) + 1 \in 1 .. m /\ frames[w][(bot[w] - s) + 1].at = "left"
          /\ deq[w][s] = Right(frames[w][(bot[w] - s) + 1].range)
      BY <1>0, <3>1, <3>3, LiveSlot
    <3>5. bot[w] - s \in 1 .. m - 1
      BY <1>0, <1>1, <3>1, <3>4
    <3>6. frames'[w][bot[w] - s] = frames[w][(bot[w] - s) + 1]
      BY <1>5, <3>5
    <3> QED BY <1>5, <1>6, <3>1, <3>4, <3>5, <3>6
  <2>3. OwnerOf(w)'
    BY <1>6, <1>13 DEF OwnerOf, ResetPcs
  <2>4. ThiefOf(w)'
    BY <1>6, <1>13 DEF ThiefOf
  <2> QED BY <1>13, <1>14, <2>1, <2>2, <2>3, <2>4, Around
<1>16. pc'[0] = "parallel_for" => pc[0] = "parallel_for"
  BY <1>1, <1>6, <1>13
<1>17. \A v \in Workers : \A s \in Nat : \A c \in Hands : \A i :
         Holds(c, v, s, i)' => Holds(c, v, s, i) /\ ~(c = "call" /\ v = w)
  <2> SUFFICES ASSUME NEW v \in Workers, NEW s \in Nat, NEW c \in Hands, NEW i, Holds(c, v, s, i)'
               PROVE  Holds(c, v, s, i) /\ ~(c = "call" /\ v = w)
    OBVIOUS
  <2>1. CASE c = "loop"
    BY <1>16, <2>1 DEF Holds
  <2>2. CASE c # "loop" /\ v # w
    BY <1>14, <2>2, OthersHold
  <2>3. CASE c = "call" /\ v = w
    BY <1>13, <2>3 DEF Holds
  <2>4. CASE c = "slot" /\ v = w
    BY <1>6, <1>13, <2>4 DEF Holds, Live
  <2>5. CASE c = "won" /\ v = w
    BY <1>13, <2>5 DEF Holds
  <2> QED BY <2>1, <2>2, <2>3, <2>4, <2>5 DEF Hands
<1>18. \A i \in 0 .. n - 1 : ran[i] \in Nat /\ (Past(i) => Past(i)')
  BY <1>1 DEF Past, RanWhole
<1>19. HoldOK'
  <2>1. \A i \in 0 .. n - 1 : ran[i] <= 1
    BY DEF Inv, HoldOK
  <2>2. ASSUME NEW i \in 0 .. n - 1, At(w) = "enter", In(i, r) PROVE Holds("call", w, 0, i) /\ ran[i] = 0
    <3>1. Holds("call", w, 0, i)
      BY <2>2 DEF Holds, r
    <3> QED BY <3>1 DEF Inv, HoldOK, Hands
  <2>3. \A i \in 0 .. n - 1 : ran'[i] <= 1
    BY <2>1, <2>2 DEF r, RanWhole
  <2>4. ASSUME NEW i \in 0 .. n - 1, NEW v \in Workers, NEW s \in Nat, NEW c \in Hands, Holds(c, v, s, i)'
        PROVE  ran'[i] = 0
    <3>1. Holds(c, v, s, i) /\ ~(c = "call" /\ v = w) /\ ran[i] = 0
      BY <1>17, <2>4 DEF Inv, HoldOK
    <3>2. ~(At(w) = "enter" /\ In(i, r))
      <4>1. Holds("call", w, 0, i) => c = "call" /\ v = w
        BY <3>1 DEF Inv, HoldOK, Hands
      <4> QED BY <2>2, <3>1, <4>1
    <3> QED BY <3>1, <3>2 DEF r, RanWhole
  <2>5. ASSUME NEW i \in 0 .. n - 1, NEW v \in Workers, NEW u \in Workers, NEW s \in Nat, NEW t \in Nat,
               NEW c \in Hands, NEW d \in Hands, Holds(c, u, s, i)', Holds(d, v, t, i)'
        PROVE  c = d /\ u = v /\ s = t
    <3>1. Holds(c, u, s, i) /\ Holds(d, v, t, i)
      BY <1>17, <2>5
    <3> QED BY <3>1 DEF Inv, HoldOK
  <2> QED BY <1>6, <2>3, <2>4, <2>5 DEF HoldOK
<1>20. ASSUME NEW v \in Workers, NEW k \in 1 .. Len(frames'[v])
       PROVE  \E j \in 1 .. Len(frames[v]) : frames'[v][k] = frames[v][j] /\ j = IF v = w THEN k + 1 ELSE k
  BY <1>0, <1>5, <1>10
<1>21. SplitOK'
  <2>1. ASSUME NEW i \in Nat, Cut(i)' PROVE Cut(i)
    <3>1. PICK v \in Workers : \E k \in 1 .. Len(frames'[v]) :
            frames'[v][k].at # "enter" /\ Mid(frames'[v][k].range) = i + 1
      BY <2>1 DEF Cut
    <3>2. PICK k \in 1 .. Len(frames'[v]) : frames'[v][k].at # "enter" /\ Mid(frames'[v][k].range) = i + 1
      BY <3>1
    <3>3. PICK j \in 1 .. Len(frames[v]) : frames'[v][k] = frames[v][j]
      BY <1>20
    <3> QED BY <3>2, <3>3 DEF Cut
  <2>2. ASSUME NEW i \in Nat, Whole(i)' PROVE Whole(i)
    BY <1>17, <2>2 DEF Whole
  <2> QED BY <2>1, <2>2 DEF SplitOK, Inv
<1>22. JobOK'
  <2>1. ASSUME NEW job \in Ranges
        PROVE  /\ Taken(job)' => Taken(job)
               /\ Queued(job)' => Queued(job)
               /\ Runs(job)' => Runs(job) /\ job # J
               /\ RunsOnce(job) => RunsOnce(job)'
               /\ Taken(job) \/ Runs(job) => (HasParent(job) => HasParent(job)')
    <3>1. Taken(job)' => Taken(job)
      BY <1>6, <1>13, <1>14, OthersHold DEF Taken
    <3>2. ASSUME Queued(job)' PROVE Queued(job)
      <4>1. PICK v \in Workers, s \in Nat : Live(v, s)' /\ deq'[v][s] = job
        BY <3>2 DEF Queued
      <4>2. Live(v, s) /\ deq[v][s] = job
        BY <1>6, <1>13, <1>14, <4>1, OthersHold DEF Live
      <4> QED BY <4>2 DEF Queued
    <3>3. ASSUME Runs(job)' PROVE Runs(job) /\ job # J
      <4>1. PICK v \in Workers : \E k \in 1 .. Len(frames'[v]) : frames'[v][k].job = job
        BY <3>3 DEF Runs
      <4>2. PICK k \in 1 .. Len(frames'[v]) : frames'[v][k].job = job
        BY <4>1
      <4>3. PICK j \in 1 .. Len(frames[v]) : frames'[v][k] = frames[v][j] /\ j = IF v = w THEN k + 1 ELSE k
        BY <1>20
      <4>4. Runs(job) /\ frames[v][j].job = job
        BY <4>2, <4>3 DEF Runs
      <4>5. RunsOnce(job)
        BY <4>4 DEF Inv, JobOK
      <4>6. ~(v = w /\ j = 1)
        BY <4>3
      <4>7. frames[w][1].job # job
        BY <1>1, <4>4, <4>5, <4>6 DEF RunsOnce
      <4> QED BY <1>2, <4>4, <4>7
    <3>4. ASSUME RunsOnce(job) PROVE RunsOnce(job)'
      <4> SUFFICES ASSUME NEW u \in Workers, NEW v \in Workers,
                          NEW k \in 1 .. Len(frames'[u]), NEW j \in 1 .. Len(frames'[v]),
                          frames'[u][k].job = job, frames'[v][j].job = job
                   PROVE  u = v /\ k = j
        BY DEF RunsOnce
      <4>1. PICK k0 \in 1 .. Len(frames[u]) : frames'[u][k] = frames[u][k0] /\ k0 = IF u = w THEN k + 1 ELSE k
        BY <1>20
      <4>2. PICK j0 \in 1 .. Len(frames[v]) : frames'[v][j] = frames[v][j0] /\ j0 = IF v = w THEN j + 1 ELSE j
        BY <1>20
      <4>3. frames[u][k0].job = job /\ frames[v][j0].job = job
        BY <4>1, <4>2
      <4>4. u = v /\ k0 = j0
        BY <3>4, <4>3 DEF RunsOnce
      <4>5. k \in Int /\ j \in Int
        BY <1>8, Types
      <4> QED BY <4>1, <4>2, <4>4, <4>5
    <3>5. ASSUME Taken(job) \/ Runs(job), HasParent(job) PROVE HasParent(job)'
      <4>1. PICK v \in Workers : \E k \in 1 .. Len(frames[v]) :
              frames[v][k].at # "enter" /\ Right(frames[v][k].range) = job
        BY <3>5 DEF HasParent
      <4>2. PICK k \in 1 .. Len(frames[v]) : frames[v][k].at # "enter" /\ Right(frames[v][k].range) = job
        BY <4>1
      <4>3. job \notin done
        <5>1. CASE Taken(job)
          BY <5>1, WonJob DEF Taken, Fresh
        <5>2. CASE Runs(job)
          BY <5>2 DEF Inv, JobOK
        <5> QED BY <3>5, <5>1, <5>2
      <4>4. ~(v = w /\ k = 1)
        <5>1. ASSUME v = w /\ k = 1 PROVE FALSE
          <6>1. frames[w][1].at # "enter" /\ Right(r) = job
            BY <1>2, <4>2, <5>1
          <6>2. Right(r) \in done
            BY <1>1, <6>1 DEF RanWhole, r
          <6> QED BY <4>3, <6>1, <6>2
        <5> QED BY <5>1
      <4>5. \E j \in 1 .. Len(frames'[v]) : frames'[v][j] = frames[v][k]
        <5>1. CASE v # w
          BY <1>5, <5>1
        <5>2. CASE v = w
          <6>1. k - 1 \in 1 .. m - 1 /\ (k - 1) + 1 = k
            BY <1>0, <4>4, <5>2
          <6>2. frames'[w][k - 1] = frames[w][(k - 1) + 1] /\ k - 1 \in 1 .. Len(frames'[w])
            BY <1>5, <6>1
          <6> QED BY <5>2, <6>1, <6>2
        <5> QED BY <5>1, <5>2
      <4>6. PICK j \in 1 .. Len(frames'[v]) : frames'[v][j] = frames[v][k]
        BY <4>5
      <4> QED BY <4>2, <4>6 DEF HasParent
    <3> QED BY <3>1, <3>2, <3>3, <3>4, <3>5
  <2>2. ASSUME NEW job \in Ranges, Runs(job)' PROVE job \notin done'
    BY <1>3, <2>1, <2>2 DEF JobOK, Inv
  <2> QED BY <2>1, <2>2 DEF JobOK, Inv
<1>23. ASSUME NEW i \in 0 .. n - 1, In(i, r) PROVE Past(i)'
  <2>1. CASE At(w) = "enter"
    BY <1>18, <1>23, <2>1 DEF Past, r, RanWhole
  <2>2. CASE At(w) = "join" /\ Right(r) \in done
    <3>1. In(i, Left(r)) => Past(i)
      <4>1. Covered(i, w, 1)
        BY <1>1 DEF Inv, CoverOK
      <4> QED BY <1>1, <1>2, <2>2, <4>1 DEF Covered
    <3>2. In(i, Right(r)) => Past(i)
      BY <2>2 DEF Inv, CoverOK
    <3>3. In(i, r) => In(i, Left(r)) \/ In(i, Right(r))
      <4>1. Mid(r) \in Nat /\ Left(r)[1] = r[1] /\ Left(r)[2] = Mid(r) /\ Right(r)[1] = Mid(r) /\ Right(r)[2] = r[2]
        BY <1>1, <1>2, <2>2, PartedCall
      <4> QED BY <4>1 DEF In
    <3> QED BY <1>18, <1>23, <3>1, <3>2, <3>3
  <2> QED BY <2>1, <2>2 DEF r, RanWhole
<1>24. CoverOK'
  <2>1. ASSUME NEW i \in 0 .. n - 1
        PROVE  /\ \A job \in done' : In(i, job) => Past(i)'
               /\ pc'[0] \in AfterLoop => Past(i)'
               /\ \A v \in Workers : \A k \in 1 .. Len(frames'[v]) : Covered(i, v, k)'
    <3>1. Covered(i, w, 1)
      BY <1>1 DEF Inv, CoverOK
    <3>2. J # NoJob /\ In(i, J) => Past(i)'
      BY <1>2, <1>18, <1>23, <3>1 DEF Covered
    <3>3. \A job \in done' : In(i, job) => Past(i)'
      <4>1. \A job \in done : In(i, job) => Past(i)
        BY DEF Inv, CoverOK
      <4> QED BY <1>3, <1>18, <3>2, <4>1
    <3>4. ASSUME pc'[0] \in AfterLoop PROVE Past(i)'
      <4>1. CASE w # 0
        BY <1>1, <1>6, <1>18, <3>4, <4>1 DEF Inv, CoverOK
      <4>2. CASE w = 0
        <5>1. l = "shutdown"
          BY <1>6, <1>13, <3>4, <4>2 DEF AfterLoop
        <5>2. m = 1
          BY <1>4, <1>5, <5>1
        <5> QED BY <1>0, <1>2, <1>18, <1>23, <3>1, <4>2, <5>2 DEF Covered
      <4> QED BY <4>1, <4>2
    <3>5. ASSUME NEW v \in Workers, NEW k \in 1 .. Len(frames'[v]) PROVE Covered(i, v, k)'
      <4>1. CASE v # w
        <5>1. frames'[v] = frames[v]
          BY <1>5, <4>1
        <5>2. Covered(i, v, k)
          BY <5>1 DEF Inv, CoverOK
        <5> QED BY <1>18, <5>1, <5>2 DEF Covered
      <4>2. CASE v = w
        <5> DEFINE j == k + 1
        <5>1. j \in 1 .. m /\ frames'[w][k] = frames[w][j] /\ k \in Nat /\ k >= 1
          BY <1>5, <1>10, <4>2
        <5>2. Covered(i, w, j)
          BY <1>0, <5>1 DEF Inv, CoverOK
        <5>3. k = Len(frames'[w]) <=> j = Len(frames[w])
          BY <1>0, <1>5, <5>1
        <5>4. k > 1 => frames'[w][k - 1] = frames[w][k]
          <6>1. k > 1 => k - 1 \in 1 .. m - 1 /\ (k - 1) + 1 = k
            BY <5>1
          <6> QED BY <1>5, <6>1
        <5>5. k = 1 => frames[w][k].range = r
          BY <1>2
        <5>6. j - 1 = k /\ j > 1
          BY <5>1
        <5> HIDE DEF j
        <5> QED BY <1>18, <1>23, <4>2, <5>1, <5>2, <5>3, <5>4, <5>5, <5>6 DEF Covered
      <4> QED BY <4>1, <4>2
    <3> QED BY <3>3, <3>4, <3>5
  <2> QED BY <1>6, <2>1 DEF CoverOK
<1> QED BY <1>8, <1>15, <1>19, <1>21, <1>22, <1>24 DEF Inv

LEMMA IterateStep == ASSUME Inv, NEW w \in Workers, Iterate(w) PROVE Inv'
<1>1. /\ pc[w] = "run" /\ At(w) = "enter" /\ ~Idle(w) /\ Bottom(w) = bot[w] /\ ~Won(w) /\ TypeOK
  BY OwnerPlaced DEF Iterate, Inv, Won, WakePcs
<1>2. Top(w).range[1] \in Nat /\ Top(w).range[2] \in Nat
  BY <1>1, TopCall
<1>3. Ran(Top(w).range[1], Top(w).range[2]) /\ Return(w) /\ UNCHANGED <<deques, reg, loop>> /\ ok' = TRUE
  BY DEF Iterate, Inv
<1>4. RanWhole(w)
  BY <1>1, <1>2, <1>3, RanTypes DEF In, RanWhole
<1> QED BY <1>1, <1>3, <1>4, ReturnStep

LEMMA FindStep == ASSUME Inv, NEW w \in Workers, Find(w) PROVE Inv'
<1>1. /\ pc[w] \in {"find", "steal"} /\ At(w) \in {"join", "idle"} /\ Bottom(w) = bot[w] /\ ~Won(w) /\ TypeOK
      /\ (At(w) = "idle" <=> Idle(w))
  <2>1. pc[w] \in {"find", "steal"} /\ MayBe(w, pc[w]) /\ At(w) \in {"enter", "left", "join", "idle"}
    BY Placed DEF Find
  <2> QED BY <2>1, OwnerPlaced DEF MayBe, Inv, Won, WakePcs, ResetPcs, Bottom
<1>2. CASE Idle(w)
  <2>1. Quiet /\ Goto(w, "exit") /\ Ways(w, "exit")
    BY <1>1, <1>2 DEF Find, Quiet, Ways, Idle, hist
  <2> QED BY <2>1, WayStep
<1>3. CASE ~Idle(w)
  <2>1. /\ Return(w) /\ UNCHANGED <<deques, reg, loop, ran>> /\ Right(Top(w).range) \in done /\ ok' = TRUE
    BY <1>3 DEF Find, Idle, Done, Inv
  <2>2. RanWhole(w)
    BY <1>1, <1>3, <2>1 DEF TypeOK, RanWhole
  <2> QED BY <1>1, <1>3, <2>1, <2>2, ReturnStep
<1> QED BY <1>2, <1>3

-----------------------------------------------------------------------------
(* The owner publishes the right half of its call, and calls the left.     *)

LEMMA PublishStep == ASSUME Inv, NEW w \in Workers, Publish(w) PROVE Inv'
<1> DEFINE r == Top(w).range
           J == Top(w).job
           x == [Top(w) EXCEPT !.at = "left"]
           y == Frame(Left(r), NoJob)
           l == IF bot[w] = 0 THEN "wake" ELSE "run"
<1>1. /\ pc[w] = "publish" /\ At(w) = "enter" /\ ~Idle(w) /\ Bottom(w) = bot[w] /\ Height(w) = 1
  BY OwnerPlaced DEF Publish
<1>2. /\ TypeOK /\ Top(w) \in Calls /\ Top(w) = frames[w][1]
      /\ 1 \in 1 .. Len(frames[w]) /\ n \in Nat /\ granularity \in Nat /\ 0 \in Workers
      /\ bot \in [Workers -> 0 .. QSize - 1] /\ QSize \in Nat
  BY <1>1, TopIs, Types DEF Inv, TypeOK
<1>3. PICK m \in Nat : m = Len(frames[w])
  BY Types DEF Inv
<1>4. PICK b \in Nat : b = bot[w]
  BY <1>2
<1>5. reg[w].job = NoJob /\ deq[w][b] = Right(r) /\ r[2] - r[1] > granularity
  BY <1>1, <1>4 DEF Inv, OwnerOK, OwnerOf
<1>6. granularity >= 1 /\ r \in Ranges /\ r[1] \in Nat /\ r[2] \in Nat /\ r[1] <= r[2] /\ r[2] <= n
  BY <1>1, TopCall
<1>7. /\ frames[w][1].range = r /\ frames[w][1].job = J /\ J \in Tasks /\ J = Top(w).job /\ r = Top(w).range
  BY <1>2 DEF Calls
<1>8. b + 1 < QSize /\ bot' = [bot EXCEPT ![w] = b + 1] /\ Goto(w, l)
      /\ UNCHANGED <<age, deq, reg, loop, done, finished, hist>>
  BY <1>4 DEF Publish
<1>9. frames' = [frames EXCEPT ![w] = <<y, x>> \o Tail(@)]
  BY DEF Publish
<1>10. x \in Calls /\ x.range = r /\ x.job = J /\ x.at = "left"
  BY <1>2 DEF Calls
<1>11. l \in {"wake", "run"}
  OBVIOUS
<1> HIDE DEF r, J, x, l
<1>12. /\ Mid(r) \in Nat /\ r[1] < Mid(r) /\ Mid(r) < r[2]
       /\ Left(r) \in Ranges /\ Left(r)[1] = r[1] /\ Left(r)[2] = Mid(r)
       /\ Right(r) \in Ranges /\ Right(r)[1] = Mid(r) /\ Right(r)[2] = r[2]
  <2>1. r[2] - r[1] >= 2
    BY <1>2, <1>5, <1>6
  <2> QED BY <1>6, <2>1, MidInside
<1>13. y \in Calls /\ y.range = Left(r) /\ y.job = NoJob /\ y.at = "enter"
  BY <1>12 DEF Calls, Frame, Tasks
<1> HIDE DEF y
<1>14. /\ frames' \in [Workers -> Seq(Calls)] /\ Len(frames'[w]) = m + 1
       /\ frames'[w][1] = y /\ frames'[w][2] = x /\ \A k \in 2 .. m : frames'[w][k + 1] = frames[w][k]
       /\ At(w)' = "enter" /\ Top(w)' = y
       /\ \A v \in Workers \ {w} : frames'[v] = frames[v] /\ At(v)' = At(v) /\ Top(v)' = Top(v) /\ Height(v)' = Height(v)
  <2>1. /\ frames' \in [Workers -> Seq(Calls)] /\ Len(frames'[w]) = Len(frames[w]) + 1
        /\ frames'[w][1] = y /\ frames'[w][2] = x
        /\ \A k \in 2 .. Len(frames[w]) : frames'[w][k + 1] = frames[w][k]
        /\ At(w)' = y.at /\ Top(w)' = y
        /\ \A v \in Workers \ {w} : frames'[v] = frames[v] /\ At(v)' = At(v) /\ Top(v)' = Top(v) /\ Height(v)' = Height(v)
    BY <1>1, <1>2, <1>9, <1>10, <1>13, TopSplit
  <2> QED BY <1>3, <1>13, <2>1
<1>15. m >= 1
  BY <1>2, <1>3
<1>16. /\ DOMAIN pc' = Workers /\ pc'[w] = l /\ \A v \in Workers \ {w} : pc'[v] = pc[v] /\ bot'[v] = bot[v]
       /\ bot'[w] = b + 1 /\ bot' \in [Workers -> 0 .. QSize - 1]
       /\ deq' = deq /\ age' = age /\ reg' = reg
  BY <1>2, <1>8, PcIsFunction
<1>17. UNCHANGED <<n, granularity, ran, done>> /\ ok' = TRUE
  BY <1>8 DEF loop, hist, Inv
<1>18. TypeOK'
  BY <1>2, <1>14, <1>16, <1>17, TypeKept DEF TypeOK
<1>19. Bottom(w)' = b + 1 /\ Height(w)' = 1 /\ ~Won(w)'
  BY <1>5, <1>11, <1>14, <1>16 DEF Bottom, ResetPcs, Height, Won
<1>20. ASSUME NEW k \in 1 .. Len(frames'[w]), k # 1
       PROVE  /\ k - 1 \in 1 .. m /\ frames'[w][k].range = frames[w][k - 1].range
              /\ frames'[w][k].job = frames[w][k - 1].job
              /\ k # 2 => frames'[w][k] = frames[w][k - 1]
  <2>1. k - 1 \in 1 .. m
    BY <1>14, <1>20
  <2>2. CASE k = 2
    BY <1>7, <1>10, <1>14, <2>1, <2>2
  <2>3. CASE k # 2
    <3>1. k - 1 \in 2 .. m /\ (k - 1) + 1 = k
      BY <2>1, <2>3
    <3>2. frames'[w][(k - 1) + 1] = frames[w][k - 1]
      BY <1>14, <3>1
    <3> QED BY <2>1, <3>1, <3>2
  <2> QED BY <2>2, <2>3
<1>21. Alone(w)
  <2>1. age[w] \in Ages /\ age[w].tag \in Nat /\ age[w].top \in Nat
    BY <1>2, Types
  <2>2. Older(w)
    BY <1>1, <1>4, <1>16, <1>19, <2>1 DEF Older, NotAfter
  <2> QED BY <1>2, <1>14, <1>16, <1>17, <2>2, Alones
<1>22. PcOK' /\ StackOK' /\ DequeOK' /\ OwnerOK' /\ ThiefOK'
  <2>1. StackOf(w)'
    <3> SUFFICES ASSUME NEW k \in 1 .. Len(frames'[w]) PROVE
           LET f == frames'[w][k] IN
           /\ granularity >= 1
           /\ f.range[1] <= f.range[2] /\ f.range[2] <= n
           /\ f.at = "enter" => k = 1
           /\ f.at # "enter" => f.range[2] - f.range[1] > granularity
           /\ k < m + 1 => (f.job = NoJob <=> frames'[w][k + 1].at = "left")
           /\ k = m + 1 => (f.job = NoJob <=> w = 0)
      BY <1>14, <1>17 DEF StackOf
    <3>1. CASE k = 1
      BY <1>2, <1>6, <1>10, <1>12, <1>13, <1>14, <1>15, <3>1
    <3>2. CASE k # 1
      <4> DEFINE j == k - 1
      <4>1. /\ j \in 1 .. m /\ frames'[w][k].range = frames[w][j].range /\ frames'[w][k].job = frames[w][j].job
            /\ k # 2 => frames'[w][k] = frames[w][j]
        BY <1>20, <3>2
      <4>2. LET f == frames[w][j] IN
           /\ f.range[1] <= f.range[2] /\ f.range[2] <= n
           /\ f.at = "enter" => j = 1
           /\ f.at # "enter" => f.range[2] - f.range[1] > granularity
           /\ j < m => (f.job = NoJob <=> frames[w][j + 1].at = "left")
           /\ j = m => (f.job = NoJob <=> w = 0)
        BY <1>3, <4>1 DEF Inv, StackOK, StackOf
      <4>3. j < m => frames'[w][k + 1] = frames[w][j + 1]
        <5>1. ASSUME j < m PROVE frames'[w][k + 1] = frames[w][j + 1]
          <6>1. j + 1 \in 2 .. m /\ (j + 1) + 1 = k + 1
            BY <4>1, <5>1
          <6>2. frames'[w][(j + 1) + 1] = frames[w][j + 1]
            BY <1>14, <6>1
          <6> QED BY <6>1, <6>2
        <5> QED BY <5>1
      <4>4. (k < m + 1 <=> j < m) /\ (k = m + 1 <=> j = m) /\ (j = 1 <=> k = 2)
        BY <4>1
      <4>5. frames'[w][k].at # "enter"
        BY <1>10, <1>14, <4>1, <4>2, <4>4
      <4>6. frames[w][j].range[2] - frames[w][j].range[1] > granularity
        <5>1. CASE j = 1
          BY <1>5, <1>7, <5>1
        <5>2. CASE j # 1
          BY <4>2, <5>2
        <5> QED BY <5>1, <5>2
      <4> HIDE DEF j
      <4> QED BY <1>6, <4>1, <4>2, <4>3, <4>4, <4>5, <4>6
    <3> QED BY <3>1, <3>2
  <2>2. MayBe(w, pc[w])'
    BY <1>11, <1>14, <1>16 DEF MayBe, WakePcs
  <2>3. DequeOf(w)'
    <3> SUFFICES ASSUME NEW s \in 0 .. Bottom(w)' - 1
                 PROVE  LET k == Height(w)' + Bottom(w)' - s IN
                        /\ k <= Len(frames'[w]) /\ frames'[w][k].at = "left"
                        /\ deq'[w][s] = Right(frames'[w][k].range)
      BY DEF DequeOf
    <3>1. s \in Nat /\ s < b + 1 /\ Height(w)' + Bottom(w)' - s = ((1 + b) - s) + 1
      BY <1>19
    <3>2. CASE s = b
      <4>1. Height(w)' + Bottom(w)' - s = 2
        BY <3>1, <3>2
      <4> QED BY <1>5, <1>10, <1>14, <1>15, <1>16, <3>2, <4>1
    <3>3. CASE s # b
      <4>1. s < Bottom(w) /\ Height(w) + Bottom(w) - s = (1 + b) - s /\ (1 + b) - s >= 2
        BY <1>1, <1>4, <3>1, <3>3
      <4>2. /\ (1 + b) - s \in 1 .. m /\ frames[w][(1 + b) - s].at = "left"
            /\ deq[w][s] = Right(frames[w][(1 + b) - s].range)
        BY <1>3, <3>1, <4>1, LiveSlot
      <4>3. (1 + b) - s \in 2 .. m
        BY <4>1, <4>2
      <4>4. frames'[w][((1 + b) - s) + 1] = frames[w][(1 + b) - s] /\ ((1 + b) - s) + 1 <= Len(frames'[w])
        BY <1>14, <4>3
      <4> QED BY <1>16, <3>1, <4>2, <4>4
    <3> QED BY <3>2, <3>3
  <2>4. OwnerOf(w)'
    BY <1>5, <1>11, <1>14, <1>16 DEF OwnerOf, ResetPcs
  <2>5. ThiefOf(w)'
    BY <1>11, <1>16 DEF ThiefOf
  <2> QED BY <1>21, <2>1, <2>2, <2>3, <2>4, <2>5, Around
<1>23. (pc'[0] = "parallel_for" => pc[0] = "parallel_for") /\ (pc'[0] \in AfterLoop => pc[0] \in AfterLoop)
  BY <1>2, <1>11, <1>16 DEF AfterLoop
<1>24. \A i : In(i, r) <=> Holds("call", w, 0, i)
  BY <1>1 DEF Holds, r
<1>25. \A v \in Workers : \A s \in Nat : \A c \in Hands : \A i \in Nat :
         Holds(c, v, s, i)' =>
           \/ Holds(c, v, s, i) /\ (c = "call" /\ v = w => In(i, Left(r))) /\ ~(c = "slot" /\ v = w /\ s = b)
           \/ c = "slot" /\ v = w /\ s = b /\ In(i, Right(r)) /\ Holds("call", w, 0, i)
  <2> SUFFICES ASSUME NEW v \in Workers, NEW s \in Nat, NEW c \in Hands, NEW i \in Nat, Holds(c, v, s, i)'
               PROVE  \/ /\ Holds(c, v, s, i) /\ (c = "call" /\ v = w => In(i, Left(r)))
                         /\ ~(c = "slot" /\ v = w /\ s = b)
                      \/ c = "slot" /\ v = w /\ s = b /\ In(i, Right(r)) /\ Holds("call", w, 0, i)
    OBVIOUS
  <2>1. CASE c = "loop"
    BY <1>23, <2>1 DEF Holds
  <2>2. CASE c # "loop" /\ v # w
    BY <1>21, <2>2, OthersHold
  <2>3. CASE c = "call" /\ v = w
    <3>1. s = 0 /\ In(i, Left(r))
      BY <1>13, <1>14, <2>3 DEF Holds
    <3>2. In(i, r)
      BY <1>6, <1>12, <3>1 DEF In
    <3> QED BY <1>24, <2>3, <3>1, <3>2
  <2>4. CASE c = "slot" /\ v = w
    <3>1. age[w].top <= s /\ s < b + 1 /\ In(i, deq[w][s])
      BY <1>16, <1>19, <2>4 DEF Holds, Live
    <3>2. CASE s = b
      <4>1. In(i, Right(r)) /\ In(i, r)
        BY <1>5, <1>6, <1>12, <3>1, <3>2 DEF In
      <4> QED BY <1>24, <2>4, <3>2, <4>1
    <3>3. CASE s # b
      BY <1>1, <1>4, <2>4, <3>1, <3>3 DEF Holds, Live
    <3> QED BY <3>2, <3>3
  <2>5. CASE c = "won" /\ v = w
    BY <1>19, <2>5 DEF Holds
  <2> QED BY <2>1, <2>2, <2>3, <2>4, <2>5 DEF Hands
<1>26. \A i \in Nat : ~(In(i, Left(r)) /\ In(i, Right(r)))
  BY <1>12 DEF In
<1>27. HoldOK'
  <2> SUFFICES ASSUME NEW i \in 0 .. n - 1, NEW v \in Workers, NEW u \in Workers, NEW s \in Nat, NEW t \in Nat,
                      NEW c \in Hands, NEW d \in Hands, Holds(c, u, s, i)'
               PROVE  ran[i] = 0 /\ (Holds(d, v, t, i)' => c = d /\ u = v /\ s = t)
    BY <1>17 DEF HoldOK, Inv
  <2>1. i \in Nat
    BY <1>2
  <2>2. \/ Holds(c, u, s, i) /\ (c = "call" /\ u = w => In(i, Left(r))) /\ ~(c = "slot" /\ u = w /\ s = b)
        \/ c = "slot" /\ u = w /\ s = b /\ In(i, Right(r)) /\ Holds("call", w, 0, i)
    BY <1>25, <2>1
  <2>3. Holds(d, v, t, i)' =>
           \/ Holds(d, v, t, i) /\ (d = "call" /\ v = w => In(i, Left(r))) /\ ~(d = "slot" /\ v = w /\ t = b)
           \/ d = "slot" /\ v = w /\ t = b /\ In(i, Right(r)) /\ Holds("call", w, 0, i)
    BY <1>25, <2>1
  <2>4. \A p, o \in Workers : \A q, z \in Nat : \A a, e \in Hands :
          Holds(a, o, q, i) => ran[i] = 0 /\ (Holds(e, p, z, i) => a = e /\ o = p /\ q = z)
    BY DEF HoldOK, Inv
  <2>5. ~(In(i, Left(r)) /\ In(i, Right(r)))
    BY <1>26, <2>1
  <2>6. "call" \in Hands /\ 0 \in Nat
    BY DEF Hands
  <2>7. ran[i] = 0
    BY <2>2, <2>4, <2>6
  <2>8. ASSUME Holds(d, v, t, i)' PROVE c = d /\ u = v /\ s = t
    <3>1. CASE /\ Holds(c, u, s, i) /\ (c = "call" /\ u = w => In(i, Left(r))) /\ ~(c = "slot" /\ u = w /\ s = b)
               /\ Holds(d, v, t, i) /\ (d = "call" /\ v = w => In(i, Left(r))) /\ ~(d = "slot" /\ v = w /\ t = b)
      BY <2>4, <3>1
    <3>2. CASE /\ Holds(c, u, s, i) /\ (c = "call" /\ u = w => In(i, Left(r)))
               /\ d = "slot" /\ v = w /\ t = b /\ In(i, Right(r)) /\ Holds("call", w, 0, i)
      BY <2>4, <2>5, <2>6, <3>2
    <3>3. CASE /\ c = "slot" /\ u = w /\ s = b /\ In(i, Right(r)) /\ Holds("call", w, 0, i)
               /\ Holds(d, v, t, i) /\ (d = "call" /\ v = w => In(i, Left(r)))
      BY <2>4, <2>5, <2>6, <3>3
    <3> QED BY <2>2, <2>3, <2>8, <3>1, <3>2, <3>3
  <2> QED BY <2>7, <2>8
<1>28. ASSUME NEW v \in Workers, NEW k \in 1 .. Len(frames'[v]), ~(v = w /\ k = 1)
       PROVE  \E j \in 1 .. Len(frames[v]) :
                /\ j = IF v = w THEN k - 1 ELSE k
                /\ frames'[v][k].range = frames[v][j].range /\ frames'[v][k].job = frames[v][j].job
                /\ ~(v = w /\ k = 2) => frames'[v][k] = frames[v][j]
  BY <1>3, <1>14, <1>20, <1>28
<1>29. SplitOK'
  <2>1. ASSUME NEW i \in Nat, Cut(i)' PROVE Cut(i) \/ Mid(r) = i + 1
    <3>1. PICK v \in Workers : \E k \in 1 .. Len(frames'[v]) :
            frames'[v][k].at # "enter" /\ Mid(frames'[v][k].range) = i + 1
      BY <2>1 DEF Cut
    <3>2. PICK k \in 1 .. Len(frames'[v]) : frames'[v][k].at # "enter" /\ Mid(frames'[v][k].range) = i + 1
      BY <3>1
    <3>3. CASE v = w /\ k = 1
      BY <1>13, <1>14, <3>2, <3>3
    <3>4. CASE v = w /\ k = 2
      BY <1>10, <1>14, <3>2, <3>4
    <3>5. CASE ~(v = w /\ k = 1) /\ ~(v = w /\ k = 2)
      <4>1. PICK j \in 1 .. Len(frames[v]) : frames'[v][k] = frames[v][j]
        BY <1>28, <3>5
      <4> QED BY <3>2, <4>1 DEF Cut
    <3> QED BY <3>3, <3>4, <3>5
  <2>2. ASSUME NEW i \in Nat, Whole(i)' PROVE Whole(i) /\ Mid(r) # i + 1
    <3>1. PICK v \in Workers, s \in Nat, c \in Hands : Holds(c, v, s, i)' /\ Holds(c, v, s, i + 1)'
      BY <2>2 DEF Whole
    <3>2. i + 1 \in Nat /\ "call" \in Hands /\ 0 \in Nat
      BY DEF Hands
    <3>3. \/ /\ Holds(c, v, s, i) /\ Holds(c, v, s, i + 1)
             /\ (c = "call" /\ v = w => In(i + 1, Left(r)))
          \/ In(i, Right(r)) /\ Holds("call", w, 0, i) /\ Holds("call", w, 0, i + 1)
      BY <1>25, <3>1, <3>2
    <3>4. Whole(i)
      BY <3>2, <3>3 DEF Whole
    <3>5. ASSUME Mid(r) = i + 1 PROVE FALSE
      <4>1. i \in 0 .. n - 1 /\ In(i, r) /\ ~In(i, Right(r)) /\ ~In(i + 1, Left(r))
        BY <1>2, <1>6, <1>12, <3>5 DEF In
      <4>2. Holds("call", w, 0, i) /\ Holds(c, v, s, i) /\ (c = "call" /\ v = w => In(i + 1, Left(r)))
        BY <1>24, <3>3, <4>1
      <4>3. c = "call" /\ v = w
        BY <3>2, <4>1, <4>2 DEF HoldOK, Inv
      <4> QED BY <4>1, <4>2, <4>3
    <3> QED BY <3>4, <3>5
  <2> QED BY <2>1, <2>2 DEF SplitOK, Inv
<1>30. JobOK'
  <2>1. ASSUME NEW job \in Ranges
        PROVE  /\ Taken(job)' => Taken(job)
               /\ Queued(job)' => Queued(job) \/ job = Right(r)
               /\ Runs(job)' => Runs(job)
               /\ RunsOnce(job) => RunsOnce(job)'
               /\ HasParent(job) => HasParent(job)'
    <3>1. Taken(job)' => Taken(job)
      BY <1>16, <1>19, <1>21, OthersHold DEF Taken
    <3>2. ASSUME Queued(job)' PROVE Queued(job) \/ job = Right(r)
      <4>1. PICK v \in Workers, s \in Nat : Live(v, s)' /\ deq'[v][s] = job
        BY <3>2 DEF Queued
      <4>2. CASE v # w
        BY <1>21, <4>1, <4>2, OthersHold DEF Queued
      <4>3. CASE v = w /\ s = b
        BY <1>5, <1>16, <4>1, <4>3
      <4>4. CASE v = w /\ s # b
        <5>1. Live(w, s) /\ deq[w][s] = job
          BY <1>1, <1>4, <1>16, <1>19, <4>1, <4>4 DEF Live
        <5> QED BY <5>1 DEF Queued
      <4> QED BY <4>2, <4>3, <4>4
    <3>3. job # NoJob
      BY RangeIsTask
    <3>4. ASSUME Runs(job)' PROVE Runs(job)
      <4>1. PICK v \in Workers : \E k \in 1 .. Len(frames'[v]) : frames'[v][k].job = job
        BY <3>4 DEF Runs
      <4>2. PICK k \in 1 .. Len(frames'[v]) : frames'[v][k].job = job
        BY <4>1
      <4>3. ~(v = w /\ k = 1)
        BY <1>13, <1>14, <3>3, <4>2
      <4>4. PICK j \in 1 .. Len(frames[v]) : frames'[v][k].job = frames[v][j].job
        BY <1>28, <4>3
      <4> QED BY <4>2, <4>4 DEF Runs
    <3>5. ASSUME RunsOnce(job) PROVE RunsOnce(job)'
      <4> SUFFICES ASSUME NEW u \in Workers, NEW v \in Workers,
                          NEW k \in 1 .. Len(frames'[u]), NEW j \in 1 .. Len(frames'[v]),
                          frames'[u][k].job = job, frames'[v][j].job = job
                   PROVE  u = v /\ k = j
        BY DEF RunsOnce
      <4>1. ~(u = w /\ k = 1) /\ ~(v = w /\ j = 1)
        BY <1>13, <1>14, <3>3
      <4>2. PICK k0 \in 1 .. Len(frames[u]) : k0 = (IF u = w THEN k - 1 ELSE k) /\ frames'[u][k].job = frames[u][k0].job
        BY <1>28, <4>1
      <4>3. PICK j0 \in 1 .. Len(frames[v]) : j0 = (IF v = w THEN j - 1 ELSE j) /\ frames'[v][j].job = frames[v][j0].job
        BY <1>28, <4>1
      <4>4. u = v /\ k0 = j0
        BY <3>5, <4>2, <4>3 DEF RunsOnce
      <4>5. k \in Int /\ j \in Int
        BY <1>18, Types
      <4> QED BY <4>2, <4>3, <4>4, <4>5
    <3>6. ASSUME HasParent(job) PROVE HasParent(job)'
      <4>1. PICK v \in Workers : \E k \in 1 .. Len(frames[v]) :
              frames[v][k].at # "enter" /\ Right(frames[v][k].range) = job
        BY <3>6 DEF HasParent
      <4>2. PICK k \in 1 .. Len(frames[v]) : frames[v][k].at # "enter" /\ Right(frames[v][k].range) = job
        BY <4>1
      <4>3. ~(v = w /\ k = 1)
        BY <1>1, <1>2, <4>2, TopIs
      <4>4. \E j \in 1 .. Len(frames'[v]) : frames'[v][j] = frames[v][k]
        <5>1. CASE v # w
          BY <1>14, <5>1
        <5>2. CASE v = w
          <6>1. k \in 2 .. m /\ k + 1 \in 1 .. Len(frames'[w])
            BY <1>3, <1>14, <4>3, <5>2
          <6>2. frames'[w][k + 1] = frames[w][k]
            BY <1>14, <6>1
          <6> QED BY <5>2, <6>1, <6>2
        <5> QED BY <5>1, <5>2
      <4>5. PICK j \in 1 .. Len(frames'[v]) : frames'[v][j] = frames[v][k]
        BY <4>4
      <4> QED BY <4>2, <4>5 DEF HasParent
    <3> QED BY <3>1, <3>2, <3>4, <3>5, <3>6
  <2>2. ASSUME Runs(Right(r)) PROVE FALSE
    <3>1. HasParent(Right(r))
      BY <1>12, <2>2 DEF Inv, JobOK
    <3>2. PICK v \in Workers : \E k \in 1 .. Len(frames[v]) :
            frames[v][k].at # "enter" /\ Right(frames[v][k].range) = Right(r)
      BY <3>1 DEF HasParent
    <3>3. PICK k \in 1 .. Len(frames[v]) : frames[v][k].at # "enter" /\ Right(frames[v][k].range) = Right(r)
      BY <3>2
    <3>4. Mid(frames[v][k].range) = Mid(r)
      BY <1>12, <3>3, PartedCall
    <3>5. PICK i \in Nat : i + 1 = Mid(r)
      BY <1>6, <1>12
    <3>6. Cut(i)
      BY <3>3, <3>4, <3>5 DEF Cut
    <3>7. In(i, r) /\ In(i + 1, r)
      BY <1>6, <1>12, <3>5 DEF In
    <3>8. Whole(i)
      BY <1>24, <3>7 DEF Whole, Hands
    <3> QED BY <3>6, <3>8 DEF Inv, SplitOK
  <2> QED BY <1>17, <2>1, <2>2 DEF JobOK, Inv
<1>31. CoverOK'
  <2>1. ASSUME NEW i \in 0 .. n - 1, NEW v \in Workers, NEW k \in 1 .. Len(frames'[v]) PROVE Covered(i, v, k)'
    <3>1. Past(i)' <=> Past(i)
      BY <1>17 DEF Past
    <3>2. CASE v # w
      <4>1. frames'[v] = frames[v]
        BY <1>14, <3>2
      <4>2. Covered(i, v, k)
        BY <4>1 DEF Inv, CoverOK
      <4> QED BY <3>1, <4>1, <4>2 DEF Covered
    <3>3. CASE v = w /\ k = 1
      BY <1>13, <1>14, <1>15, <3>3 DEF Covered
    <3>4. CASE v = w /\ k = 2
      <4>1. Covered(i, w, 1)
        BY <1>2 DEF Inv, CoverOK
      <4>2. k = Len(frames'[w]) <=> 1 = Len(frames[w])
        <5>1. 2 = m + 1 <=> 1 = m
          OBVIOUS
        <5> QED BY <1>3, <1>14, <3>4, <5>1
      <4>3. frames'[w][k] = x /\ frames'[w][k - 1] = y
        BY <1>14, <3>4
      <4> QED BY <1>7, <1>10, <1>13, <3>1, <3>4, <4>1, <4>2, <4>3 DEF Covered
    <3>5. CASE v = w /\ k # 1 /\ k # 2
      <4> DEFINE j == k - 1
      <4>1. j \in 1 .. m /\ frames'[w][k] = frames[w][j] /\ k \in Int /\ j > 1
        BY <1>14, <1>20, <3>5
      <4>2. Covered(i, w, j)
        BY <1>3, <4>1 DEF Inv, CoverOK
      <4>3. k = Len(frames'[w]) <=> j = Len(frames[w])
        BY <1>3, <1>14, <4>1
      <4>4. frames'[w][k - 1].range = frames[w][j - 1].range
        <5>1. j \in 1 .. Len(frames'[w]) /\ j # 1
          BY <1>14, <4>1
        <5> QED BY <1>20, <5>1
      <4>5. k > 1
        BY <4>1
      <4> HIDE DEF j
      <4> QED BY <3>1, <3>5, <4>1, <4>2, <4>3, <4>4, <4>5 DEF Covered
    <3> QED BY <3>2, <3>3, <3>4, <3>5
  <2> QED BY <1>17, <1>23, <2>1 DEF CoverOK, Inv, Past
<1> QED BY <1>17, <1>18, <1>22, <1>27, <1>29, <1>30, <1>31 DEF Inv

-----------------------------------------------------------------------------
(* The loop begins.                                                        *)

(* Before it no worker has a call.                                         *)
LEMMA NoCalls ==
  ASSUME Inv, pc[0] = "parallel_for"
  PROVE  /\ \A v \in Workers : Idle(v) /\ Len(frames[v]) = 0 /\ At(v) = "idle" /\ Bottom(v) = 0 /\ ~Won(v)
         /\ \A i \in 0 .. n - 1 : ran[i] = 0
<1>1. TypeOK /\ n \in Nat /\ 0 \in Workers
  BY DEF Inv, TypeOK, Params, Workers
<1>2. ASSUME NEW i \in 0 .. n - 1
      PROVE  ~Past(i) /\ ran[i] = 0 /\ \A v \in Workers : \A s \in Nat : \A c \in Hands : Holds(c, v, s, i) => c = "loop"
  <2>1. Holds("loop", 0, 0, i)
    BY DEF Holds
  <2> QED BY <1>1, <2>1 DEF Inv, HoldOK, Hands, Past
<1>3. ASSUME NEW v \in Workers, ~Idle(v) PROVE FALSE
  <2>1. 1 \in 1 .. Len(frames[v]) /\ Top(v) = frames[v][1] /\ At(v) = frames[v][1].at
    BY <1>1, <1>3, TopIs
  <2>2. PICK m \in Nat : m = Len(frames[v])
    BY <1>1, Types
  <2>3. ASSUME NEW k \in 1 .. m, frames[v][k].at # "enter"
        PROVE  k > 1 /\ \E i \in 0 .. n - 1 : In(i, frames[v][k - 1].range)
    <3> DEFINE i == frames[v][k].range[1]
    <3>1. In(i, Left(frames[v][k].range)) /\ i \in 0 .. n - 1
      BY <1>1, <2>2, <2>3, PartedCall DEF In
    <3>2. Covered(i, v, k)
      BY <2>2, <3>1 DEF Inv, CoverOK
    <3>3. ~Past(i)
      BY <1>2, <3>1
    <3> QED BY <2>3, <3>1, <3>2, <3>3 DEF Covered
  <2>4. frames[v][1].at = "enter"
    BY <2>1, <2>2, <2>3
  <2>5. \A i \in 0 .. n - 1 : ~In(i, frames[v][1].range)
    <3>1. \A i \in 0 .. n - 1 : In(i, frames[v][1].range) => Holds("call", v, 0, i)
      BY <2>1, <2>4 DEF Holds
    <3> QED BY <1>2, <3>1 DEF Hands
  <2>6. m = 1
    <3>1. ASSUME m # 1 PROVE FALSE
      <4>1. m >= 1
        BY <2>1, <2>2
      <4>3. 2 \in 1 .. m
        BY <3>1, <4>1
      <4>2. frames[v][2].at # "enter"
        BY <2>2, <4>3 DEF Inv, StackOK, StackOf
      <4> QED BY <2>3, <2>5, <4>3, <4>2
    <3> QED BY <3>1
  <2>7. frames[v][1].job = NoJob <=> v = 0
    BY <2>1, <2>2, <2>6 DEF Inv, StackOK, StackOf
  <2>8. v # 0
    BY <2>1, <2>4, Placed DEF MayBe, WakePcs
  <2> DEFINE J == frames[v][1].job
  <2>9. J \in Ranges /\ Runs(J)
    BY <1>1, <2>1, <2>7, <2>8, CallTypes, TaskIsRange DEF Runs
  <2>10. HasParent(J)
    BY <2>9 DEF Inv, JobOK
  <2>11. J # NoJob /\ J[1] \in 0 .. n - 1 /\ In(J[1], J)
    BY <1>1, <2>10, ParentOf DEF In
  <2>12. Covered(J[1], v, 1)
    BY <2>1, <2>11 DEF Inv, CoverOK
  <2> QED BY <1>2, <2>5, <2>11, <2>12 DEF Covered
<1>4. ASSUME NEW v \in Workers PROVE Idle(v) /\ Len(frames[v]) = 0 /\ At(v) = "idle" /\ Bottom(v) = 0 /\ ~Won(v)
  <2>1. Idle(v) /\ At(v) = "idle"
    BY <1>3 DEF At
  <2>2. ASSUME Won(v) PROVE FALSE
    <3>1. HasParent(reg[v].job)
      BY <2>2, WonJob DEF Fresh
    <3> QED BY <1>1, <1>3, <3>1 DEF HasParent, Idle
  <2> QED BY <2>1, <2>2, NoneLeft DEF Idle
<1> QED BY <1>2, <1>4

LEMMA LoopStep ==
  ASSUME Inv, pc[0] = "parallel_for", NEW l, Goto(0, l), NEW b \in Nat, b <= n, NEW g \in Nat,
         UNCHANGED <<deques, reg, n, done, ok>>, granularity' = g, ran' \in [0 .. n - 1 -> Nat],
         \A i \in 0 .. n - 1 : ran'[i] = IF 0 <= i /\ i < b THEN ran[i] + 1 ELSE ran[i],
         \/ l = "shutdown" /\ b = n /\ frames' = frames
         \/ l = "run" /\ g >= 1 /\ frames' = [frames EXCEPT ![0] = <<Frame(<<b, n>>, NoJob)>> \o @]
  PROVE  Inv'
<1>1. TypeOK /\ n \in Nat /\ 0 \in Workers /\ NoJob \in Tasks
  BY DEF Inv, TypeOK, Params, Workers, Tasks
<1>2. /\ \A v \in Workers : Idle(v) /\ Len(frames[v]) = 0 /\ At(v) = "idle" /\ Bottom(v) = 0 /\ ~Won(v)
      /\ \A i \in 0 .. n - 1 : ran[i] = 0
  BY NoCalls
<1>3. /\ DOMAIN pc' = Workers /\ pc'[0] = l /\ \A v \in Workers \ {0} : pc'[v] = pc[v]
      /\ bot' = bot /\ deq' = deq /\ age' = age /\ reg' = reg /\ n' = n /\ done' = done /\ ok' = TRUE
  BY <1>1, PcIsFunction DEF deques, Inv
<1>4. l \in {"shutdown", "run"}
  OBVIOUS
<1> DEFINE x == Frame(<<b, n>>, NoJob)
<1>5. x \in Calls /\ x.range = <<b, n>> /\ x.at = "enter" /\ x.job = NoJob /\ <<b, n>>[1] = b /\ <<b, n>>[2] = n
  BY <1>1 DEF Calls, Frame, Ranges
<1>6. /\ frames' \in [Workers -> Seq(Calls)] /\ \A v \in Workers \ {0} : Len(frames'[v]) = 0 /\ At(v)' = "idle"
      /\ l = "shutdown" => Len(frames'[0]) = 0 /\ At(0)' = "idle"
      /\ l = "run" => Len(frames'[0]) = 1 /\ frames'[0][1] = x /\ At(0)' = "enter" /\ Top(0)' = x
  <2>1. CASE l = "shutdown" /\ frames' = frames
    <3>1. \A v \in Workers : At(v)' = At(v)
      BY <2>1 DEF At, Idle, Top
    <3> QED BY <1>1, <1>2, <2>1, <3>1 DEF TypeOK
  <2>2. CASE l = "run" /\ frames' = [frames EXCEPT ![0] = <<x>> \o @]
    <3> HIDE DEF x
    <3>1. /\ frames' \in [Workers -> Seq(Calls)] /\ Len(frames'[0]) = Len(frames[0]) + 1
          /\ frames'[0][1] = x /\ At(0)' = x.at /\ Top(0)' = x
          /\ \A v \in Workers \ {0} : frames'[v] = frames[v] /\ At(v)' = At(v)
      BY <1>1, <1>5, <2>2, TopPushed
    <3> QED BY <1>1, <1>2, <1>5, <2>2, <3>1
  <2> QED BY <2>1, <2>2
<1> HIDE DEF x
<1>7. TypeOK'
  BY <1>1, <1>3, <1>6, TypeKept DEF TypeOK
<1>8. MayBe(0, pc[0]) /\ pc'[0] \notin WakePcs \cup {"stolen", "pop_age"} \cup ResetPcs
  BY <1>1, <1>3, <1>4, Placed DEF WakePcs, ResetPcs
<1>9. \A v \in Workers : Bottom(v)' = 0 /\ ~Won(v)'
  <2>1. ASSUME NEW v \in Workers \ {0} PROVE Bottom(v)' = 0 /\ ~Won(v)'
    BY <1>2, <1>3 DEF Bottom, Won
  <2>2. Bottom(0)' = 0 /\ ~Won(0)'
    BY <1>1, <1>2, <1>3, <1>8 DEF Bottom, Won, ResetPcs
  <2> QED BY <2>1, <2>2
<1>10. PcOK'
  <2>1. ASSUME NEW v \in Workers \ {0} PROVE MayBe(v, pc[v])'
    BY <1>1, <1>2, <1>3, <1>6, Placed DEF MayBe
  <2>2. MayBe(0, pc[0])'
    BY <1>3, <1>4, <1>6 DEF MayBe, MainPcs
  <2> QED BY <2>1, <2>2 DEF PcOK
<1>11. StackOK'
  <2>1. ASSUME NEW v \in Workers, Len(frames'[v]) = 0 PROVE StackOf(v)'
    BY <2>1 DEF StackOf
  <2>2. ASSUME l = "run" PROVE StackOf(0)'
    <3>1. Len(frames'[0]) = 1 /\ frames'[0][1] = x /\ g >= 1 /\ n' = n /\ granularity' = g
      BY <1>3, <1>6, <2>2
    <3> QED BY <1>1, <1>5, <3>1 DEF StackOf
  <2> QED BY <1>4, <1>6, <2>1, <2>2 DEF StackOK
<1>12. DequeOK'
  BY <1>9 DEF DequeOK, DequeOf
<1>13. OwnerOK'
  <2>1. ASSUME NEW v \in Workers \ {0} PROVE OwnerOf(v)'
    <3>1. OwnerOf(v) /\ pc[v] # "publish"
      BY <1>2, Placed DEF Inv, OwnerOK, MayBe, MainPcs, IdlePcs, StealPcs, WakePcs
    <3> QED BY <1>3, <1>6, <3>1 DEF OwnerOf
  <2>2. OwnerOf(0)'
    <3>1. reg[0].job = NoJob
      BY <1>1 DEF Inv, OwnerOK, OwnerOf
    <3> QED BY <1>3, <1>4, <3>1 DEF OwnerOf
  <2> QED BY <2>1, <2>2 DEF OwnerOK
<1>14. ThiefOK'
  <2>1. ASSUME NEW v \in Workers \ {0} PROVE ThiefOf(v)'
    <3>1. ThiefOf(v) /\ reg[v].who \in Workers /\ Bottom(reg[v].who) = 0
      BY <1>1, <1>2, Types DEF Inv, ThiefOK
    <3>2. PICK q \in Workers : q = reg[v].who
      BY <3>1
    <3>3. pc'[v] = pc[v] /\ reg'[v] = reg[v] /\ Bottom(q)' = Bottom(q)
      BY <1>2, <1>3, <1>9
    <3>4. reg'[v].who = q /\ Bottom(reg[v].who)' = Bottom(q)'
      BY <3>2, <3>3
    <3> QED BY <1>3, <3>1, <3>2, <3>3, <3>4 DEF ThiefOf, NotAfter
  <2>2. ThiefOf(0)'
    BY <1>3, <1>4 DEF ThiefOf
  <2> QED BY <2>1, <2>2 DEF ThiefOK
<1>15. ASSUME NEW c \in Hands, NEW v \in Workers, NEW s \in Nat, NEW i, Holds(c, v, s, i)'
       PROVE  c = "call" /\ v = 0 /\ s = 0 /\ b <= i
  <2>1. c # "loop" /\ c # "won"
    BY <1>3, <1>4, <1>9, <1>15 DEF Holds
  <2>2. c # "slot"
    <3>1. ~Live(v, s)'
      BY <1>9 DEF Live
    <3> QED BY <1>15, <3>1 DEF Holds
  <2>3. c = "call"
    BY <2>1, <2>2 DEF Hands
  <2>4. s = 0 /\ At(v)' = "enter" /\ In(i, Top(v)'.range)
    BY <1>15, <2>3 DEF Holds
  <2>5. v = 0 /\ l = "run"
    BY <1>4, <1>6, <2>4
  <2> QED BY <1>5, <1>6, <2>3, <2>4, <2>5 DEF In
<1>16. HoldOK'
  <2>1. \A i \in 0 .. n - 1 : ran'[i] <= 1 /\ (b <= i => ran'[i] = 0)
    BY <1>2
  <2> QED BY <1>3, <1>15, <2>1 DEF HoldOK
<1>17. ASSUME NEW v \in Workers, NEW k \in 1 .. Len(frames'[v]) PROVE frames'[v][k].at = "enter" /\ frames'[v][k].job = NoJob /\ v = 0 /\ k = 1 /\ l = "run"
  <2>1. v = 0
    BY <1>6, <1>17
  <2>2. l = "run"
    BY <1>4, <1>6, <2>1
  <2> QED BY <1>5, <1>6, <2>1, <2>2
<1>18. SplitOK'
  BY <1>17 DEF SplitOK, Cut
<1>19. JobOK'
  <2>1. ASSUME NEW job \in Ranges PROVE ~Taken(job)' /\ ~Runs(job)'
    <3>1. ~Taken(job)'
      BY <1>9 DEF Taken
    <3>2. job # NoJob
      BY RangeIsTask
    <3> QED BY <1>17, <3>1, <3>2 DEF Runs
  <2> QED BY <2>1 DEF JobOK
<1>20. CoverOK'
  <2>1. \A i \in 0 .. n - 1 : (i < b => Past(i)') /\ (Past(i) => Past(i)')
    BY <1>2 DEF Past
  <2>2. \A i \in 0 .. n - 1 : \A job \in done' : In(i, job) => Past(i)'
    BY <1>3, <2>1 DEF CoverOK, Inv
  <2>3. \A i \in 0 .. n - 1 : pc'[0] \in AfterLoop => Past(i)'
    BY <1>1, <1>3, <1>4, <2>1 DEF AfterLoop
  <2>4. ASSUME NEW i \in 0 .. n - 1, NEW v \in Workers, NEW k \in 1 .. Len(frames'[v]) PROVE Covered(i, v, k)'
    <3>1. v = 0 /\ k = 1 /\ frames'[v][k] = x
      BY <1>6, <1>17
    <3>2. Past(i)' \/ In(i, <<b, n>>)
      BY <1>1, <1>5, <2>1 DEF In
    <3> QED BY <1>5, <3>1, <3>2 DEF Covered
  <2> QED BY <1>3, <2>2, <2>3, <2>4 DEF CoverOK
<1> QED BY <1>3, <1>7, <1>10, <1>11, <1>12, <1>13, <1>14, <1>16, <1>18, <1>19, <1>20 DEF Inv

LEMMA ParallelForStep == ASSUME Inv, NEW w \in Workers, ParallelFor(w) PROVE Inv'
<1>1. TypeOK /\ n \in Nat /\ granularity \in Nat /\ P \in Nat \ {0} /\ 0 \in Workers
  BY DEF Inv, TypeOK, Params, Workers
<1>2. pc[w] = "parallel_for" /\ MayBe(w, pc[w]) /\ At(w) \in {"enter", "left", "join", "idle"}
  BY Placed DEF ParallelFor
<1>3. w = 0 /\ pc[0] = "parallel_for"
  BY <1>2 DEF MayBe, IdlePcs, StealPcs, WakePcs, ResetPcs
<1>4. UNCHANGED <<deques, reg, n, done, ok>>
  BY DEF ParallelFor
<1>5. CASE Ran(0, n) /\ Goto(0, "shutdown") /\ UNCHANGED <<frames, granularity>>
  <2>1. ran' \in [0 .. n - 1 -> Nat] /\ \A i \in 0 .. n - 1 : ran'[i] = IF 0 <= i /\ i < n THEN ran[i] + 1 ELSE ran[i]
    BY <1>1, <1>5, RanTypes
  <2>2. PICK b \in Nat, g \in Nat, l \in {"shutdown"} : b = n /\ g = granularity /\ Goto(0, l)
    BY <1>1, <1>5
  <2>3. granularity' = g /\ frames' = frames /\ b <= n
    BY <1>1, <1>5, <2>2
  <2>4. \A i \in 0 .. n - 1 : ran'[i] = IF 0 <= i /\ i < b THEN ran[i] + 1 ELSE ran[i]
    BY <2>1, <2>2
  <2> QED BY <1>3, <1>4, <2>1, <2>2, <2>3, <2>4, LoopStep
<1>6. CASE granularity > 0 /\ Enter(0, <<0, n>>, NoJob) /\ Goto(0, "run") /\ UNCHANGED <<ran, granularity>>
  <2>1. ran' \in [0 .. n - 1 -> Nat] /\ \A i \in 0 .. n - 1 : ran'[i] = IF 0 <= i /\ i < 0 THEN ran[i] + 1 ELSE ran[i]
    BY <1>1, <1>6 DEF TypeOK
  <2>2. frames' = [frames EXCEPT ![0] = <<Frame(<<0, n>>, NoJob)>> \o @] /\ granularity >= 1
    BY <1>1, <1>6 DEF Enter
  <2>3. PICK b \in Nat, g \in Nat, l \in {"run"} : b = 0 /\ g = granularity /\ Goto(0, l)
    BY <1>1, <1>6
  <2>4. granularity' = g /\ g >= 1 /\ b <= n /\ frames' = [frames EXCEPT ![0] = <<Frame(<<b, n>>, NoJob)>> \o @]
    BY <1>1, <1>6, <2>2, <2>3
  <2>5. \A i \in 0 .. n - 1 : ran'[i] = IF 0 <= i /\ i < b THEN ran[i] + 1 ELSE ran[i]
    BY <2>1, <2>3
  <2> QED BY <1>3, <1>4, <2>1, <2>3, <2>4, <2>5, LoopStep
<1>7. ASSUME NEW batch \in Batches, Ran(0, batch), granularity' = BiggerOf(batch, n \div (128 * P)),
             Enter(0, <<batch, n>>, NoJob), Goto(0, "run")
      PROVE  Inv'
  <2>1. batch \in Nat /\ batch >= 1 /\ batch <= n
    BY <1>1 DEF Batches
  <2>2. n \div (128 * P) \in Nat
    BY <1>1
  <2>3. BiggerOf(batch, n \div (128 * P)) \in Nat /\ BiggerOf(batch, n \div (128 * P)) >= 1
    BY <2>1, <2>2 DEF BiggerOf
  <2>4. ran' \in [0 .. n - 1 -> Nat] /\ \A i \in 0 .. n - 1 : ran'[i] = IF 0 <= i /\ i < batch THEN ran[i] + 1 ELSE ran[i]
    BY <1>1, <1>7, <2>1, RanTypes
  <2>5. frames' = [frames EXCEPT ![0] = <<Frame(<<batch, n>>, NoJob)>> \o @]
    BY <1>7 DEF Enter
  <2> QED BY <1>3, <1>4, <1>7, <2>1, <2>3, <2>4, <2>5, LoopStep
<1> QED BY <1>3, <1>5, <1>6, <1>7 DEF ParallelFor

-----------------------------------------------------------------------------
(* The specification.                                                      *)

LEMMA StepKeeps == ASSUME Inv, NEW w \in Workers, Step(w) PROVE Inv'
<1>1. CASE Work(w)
  BY <1>1, ParallelForStep, IterateStep, SpawnStep, PublishStep, FindStep, RestStep DEF Work
<1>2. CASE Own(w)
  BY <1>2, OwnSteps
<1>3. CASE Theft(w)
  BY <1>3, TheftSteps
<1>4. CASE Rest(w) \/ Shutdown(w) \/ Spam(w)
  BY <1>4, RestStep
<1>5. CASE Wakes(w)
  BY <1>5, AwakenStep, CountStep, NotifyStep, NotifyAllStep, RestStep DEF Wakes
<1> QED BY <1>1, <1>2, <1>3, <1>4, <1>5 DEF Step

LEMMA StutterKeeps == ASSUME Inv, UNCHANGED vars PROVE Inv'
<1>1. /\ bot' = bot /\ age' = age /\ deq' = deq /\ frames' = frames /\ pc' = pc /\ reg' = reg /\ n' = n
      /\ granularity' = granularity /\ done' = done /\ ran' = ran /\ ok' = ok
  BY DEF vars, deques, loop, hist
<1>2. \A w \in Workers : /\ Bottom(w)' = Bottom(w) /\ Won(w)' = Won(w) /\ At(w)' = At(w) /\ Top(w)' = Top(w)
                         /\ \A s \in Nat : Live(w, s)' = Live(w, s)
  BY <1>1 DEF Bottom, Won, At, Top, Live, Idle
<1>3. TypeOK' /\ PcOK' /\ StackOK'
  BY <1>1, <1>2 DEF Inv, TypeOK, PcOK, MayBe, StackOK, StackOf
<1>4. DequeOK' /\ OwnerOK' /\ ThiefOK'
  BY <1>1 DEF Inv, DequeOK, DequeOf, Bottom, Height, At, Idle, Top, OwnerOK, OwnerOf, ThiefOK, ThiefOf, NotAfter
<1>5. StackOK' /\ HoldOK' /\ SplitOK' /\ JobOK' /\ CoverOK' /\ ok' = TRUE
  <2>1. \A v \in Workers : Keeps(v)
    BY <1>1, <1>2 DEF Keeps
  <2> QED BY <1>1, <2>1, QuietShared
<1> QED BY <1>3, <1>4, <1>5 DEF Inv

LEMMA Begins == ASSUME Params, Init PROVE Inv
<1>1. P \in Nat \ {0} /\ QSize \in Nat \ {0} /\ n \in Nat /\ granularity \in Nat /\ 0 \in Workers /\ Workers \subseteq Nat
  BY DEF Params, Init, Workers
<1>2. /\ \A w \in Workers : /\ bot[w] = 0 /\ age[w] = [tag |-> 0, top |-> 0] /\ frames[w] = << >>
                            /\ pc[w] = (IF w = 0 THEN "parallel_for" ELSE "sleep") /\ reg[w] = NoReg
      /\ pc[0] = "parallel_for" /\ done = {} /\ ok = TRUE /\ ran = [i \in 0 .. n - 1 |-> 0]
  BY <1>1 DEF Init
<1>3. NoReg \in Regs /\ NoReg.job = NoJob /\ [tag |-> 0, top |-> 0] \in Ages /\ NoJob \in Tasks
  BY <1>1 DEF NoReg, Regs, Ages, Tasks
<1>4. \A w \in Workers : Idle(w) /\ At(w) = "idle" /\ Len(frames[w]) = 0 /\ Bottom(w) = 0 /\ ~Won(w)
  BY <1>2, <1>3 DEF Idle, At, Bottom, Won, ResetPcs, WakePcs
<1>5. \A w \in Workers : \A s \in Nat : ~Live(w, s)
  BY <1>2, <1>4 DEF Live
<1>6. TypeOK
  <2>1. << >> \in Seq(Calls) /\ 0 \in 0 .. QSize - 1
    BY <1>1
  <2> QED BY <1>1, <1>3, <2>1 DEF TypeOK, Init
<1>7. PcOK
  BY <1>1, <1>2, <1>4 DEF PcOK, MayBe, MainPcs, IdlePcs
<1>8. StackOK
  BY <1>4 DEF StackOK, StackOf
<1>9. DequeOK
  BY <1>4 DEF DequeOK, DequeOf
<1>10. OwnerOK
  BY <1>2, <1>3 DEF OwnerOK, OwnerOf
<1>11. ThiefOK
  BY <1>2 DEF ThiefOK, ThiefOf
<1>12. \A c \in Hands : \A w \in Workers : \A s \in Nat : \A i : Holds(c, w, s, i) => c = "loop" /\ w = 0 /\ s = 0
  BY <1>4, <1>5 DEF Holds
<1>13. HoldOK
  BY <1>2, <1>12 DEF HoldOK
<1>14. SplitOK
  BY <1>4 DEF SplitOK, Cut
<1>15. JobOK
  BY <1>4 DEF JobOK, Taken, Runs
<1>16. CoverOK
  BY <1>2, <1>4 DEF CoverOK, AfterLoop
<1> QED BY <1>2, <1>6, <1>7, <1>8, <1>9, <1>10, <1>11, <1>13, <1>14, <1>15, <1>16 DEF Inv

(* The deques, the stacks and what every worker knows stay consistent.     *)
THEOREM Consistent == Params /\ Spec => []Inv
<1>1. Params /\ Init => Inv
  BY Begins
<1>2. Inv /\ [Next]_vars => Inv'
  BY StepKeeps, StutterKeeps DEF Next
<1> QED BY <1>1, <1>2, PTL DEF Spec

(* No worker runs an iteration that another runs or ran, and parallel_for  *)
(* returns only when all have run.                                         *)
LEMMA OncePerIteration == Inv => IterationsOnce
<1> SUFFICES ASSUME Inv, NEW i \in 0 .. n - 1 PROVE ran[i] <= 1 /\ (pc[0] \in {"shutdown", "spam", "end"} => ran[i] = 1)
  BY DEF IterationsOnce
<1>1. ran[i] \in Nat
  BY DEF Inv, TypeOK
<1>2. ran[i] <= 1
  BY DEF Inv, HoldOK
<1>3. ASSUME pc[0] \in {"shutdown", "spam", "end"} PROVE ran[i] >= 1
  <2>1. pc[0] \in AfterLoop
    BY <1>3 DEF AfterLoop
  <2> QED BY <2>1 DEF Inv, CoverOK, Past
<1> QED BY <1>1, <1>2, <1>3

LEMMA Outlived == Inv => JobsOutlived
<1> SUFFICES ASSUME Inv, NEW w \in Workers,
                    NEW job \in {frames[w][k].job : k \in 1 .. Len(frames[w])}
                                \cup (IF pc[w] = "stolen" THEN {reg[w].job} ELSE {}),
                    job # NoJob
             PROVE  HasParent(job)
  BY DEF JobsOutlived, HasParent
<1>1. TypeOK
  BY DEF Inv
<1>2. CASE job \in {frames[w][k].job : k \in 1 .. Len(frames[w])}
  <2>1. PICK k \in 1 .. Len(frames[w]) : job = frames[w][k].job
    BY <1>2
  <2>2. job \in Ranges
    BY <1>1, <2>1, CallTypes, TaskIsRange
  <2> QED BY <2>1, <2>2 DEF Inv, JobOK, Runs
<1>3. CASE pc[w] = "stolen" /\ job = reg[w].job
  <2>1. Won(w)
    BY <1>3 DEF Won
  <2>2. job \in Ranges
    BY <1>1, <1>3, Types, TaskIsRange
  <2> QED BY <1>3, <2>1, <2>2 DEF Inv, JobOK, Taken
<1> QED BY <1>2, <1>3

LEMMA Asserted == Inv => AssertionsHold
BY DEF Inv, AssertionsHold

=============================================================================
