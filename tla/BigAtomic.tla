------------------------------- MODULE BigAtomic -------------------------------
(***************************************************************************)
(* The sequence lock of parlay_hash/bigatomic.h: a value wider than a      *)
(* word, read by ll and load without a lock and replaced by sc under a     *)
(* try_lock of utils/lock.h, whose slots are shared by hashing. The value  *)
(* is a function on Words, read and written word by word in any order;     *)
(* memory is sequentially consistent, as the fences make it for readers.   *)
(***************************************************************************)
EXTENDS Integers, Sequences

CONSTANTS
  Threads,
  Words,    \* the words of a value
  MaxWrites \* bound: successful stores

VARIABLES
  version,  \* odd while a store is under way
  val,
  lock,     \* the lock slot of this address
  pc,
  tag,      \* version read first by ll, then the tag sc expects
  copy,     \* copy[t]: the words read so far, or those still to write
  todo,     \* words t has still to read or write
  value,    \* the value its ll returned
  wrote     \* wrote[n]: the value after n - 1 successful stores

vars == <<version, val, lock, pc, tag, copy, todo, value, wrote>>

Whole(n) == [w \in Words |-> n]

Init ==
  /\ version = 0
  /\ val = Whole(0)
  /\ lock = FALSE
  /\ pc = [t \in Threads |-> "ll"]
  /\ tag = [t \in Threads |-> 0]
  /\ copy = [t \in Threads |-> Whole(0)]
  /\ todo = [t \in Threads |-> {}]
  /\ value = [t \in Threads |-> Whole(0)]
  /\ wrote = <<Whole(0)>>

Goto(t, label) == pc' = [pc EXCEPT ![t] = label]

(* ll: the version, the words, and the version again: start anew unless it *)
(* is even and has not moved.                                              *)
ReadVersion(t) ==
  /\ pc[t] = "ll"
  /\ tag' = [tag EXCEPT ![t] = version]
  /\ todo' = [todo EXCEPT ![t] = Words]
  /\ Goto(t, "read")
  /\ UNCHANGED <<version, val, lock, copy, value, wrote>>

ReadWord(t) ==
  /\ pc[t] = "read"
  /\ \E w \in todo[t] :
       /\ copy' = [copy EXCEPT ![t][w] = val[w]]
       /\ todo' = [todo EXCEPT ![t] = @ \ {w}]
  /\ UNCHANGED <<version, val, lock, pc, tag, value, wrote>>

(* Fault: the version is not required to be even.                          *)
Settled_WhileOdd(t) == version = tag[t]

Settled(t) == tag[t] % 2 = 0 /\ version = tag[t]

Validate(t) ==
  /\ pc[t] = "read" /\ todo[t] = {}
  /\ \/ /\ Settled(t)
        /\ value' = [value EXCEPT ![t] = copy[t]]
        /\ Goto(t, "linked")
     \/ /\ ~Settled(t)
        /\ Goto(t, "ll")
        /\ UNCHANGED value
  /\ UNCHANGED <<version, val, lock, tag, copy, todo, wrote>>

(* sc, or another ll: fail at once if the version has moved.               *)
Begin(t) ==
  /\ pc[t] = "linked"
  /\ \/ Goto(t, "ll")
     \/ /\ Len(wrote) <= MaxWrites
        /\ Goto(t, IF version = tag[t] THEN "lock" ELSE "ll")
  /\ UNCHANGED <<version, val, lock, tag, copy, todo, value, wrote>>

(* try_lock: a slot that is taken, by this value's writer or by another    *)
(* address's, sends sc back to its first check.                            *)
TryLock(t) ==
  /\ pc[t] = "lock"
  /\ \/ Goto(t, "linked") /\ UNCHANGED lock
     \/ /\ ~lock
        /\ lock' = TRUE
        /\ Goto(t, "recheck")
  /\ UNCHANGED <<version, val, tag, copy, todo, value, wrote>>

Recheck(t) ==
  /\ pc[t] = "recheck"
  /\ \/ /\ version # tag[t]
        /\ Goto(t, "unlock")
        /\ UNCHANGED <<copy, todo>>
     \/ /\ version = tag[t]
        /\ copy' = [copy EXCEPT ![t] = Whole(value[t][CHOOSE w \in Words : TRUE] + 1)]
        /\ todo' = [todo EXCEPT ![t] = Words]
        /\ Goto(t, "odd")
  /\ UNCHANGED <<version, val, lock, tag, value, wrote>>

MarkOdd(t) ==
  /\ pc[t] = "odd"
  /\ version' = tag[t] + 1
  /\ Goto(t, "write")
  /\ UNCHANGED <<val, lock, tag, copy, todo, value, wrote>>

WriteWord(t) ==
  /\ pc[t] = "write"
  /\ \E w \in todo[t] :
       /\ val' = [val EXCEPT ![w] = copy[t][w]]
       /\ todo' = [todo EXCEPT ![t] = @ \ {w}]
  /\ UNCHANGED <<version, lock, pc, tag, copy, value, wrote>>

MarkEven(t) ==
  /\ pc[t] = "write" /\ todo[t] = {}
  /\ version' = tag[t] + 2
  /\ wrote' = Append(wrote, copy[t])
  /\ Goto(t, "unlock")
  /\ UNCHANGED <<val, lock, tag, copy, todo, value>>

Unlock(t) ==
  /\ pc[t] = "unlock"
  /\ lock' = FALSE
  /\ Goto(t, "ll")
  /\ copy' = [copy EXCEPT ![t] = Whole(0)]
  /\ UNCHANGED <<version, val, tag, todo, value, wrote>>

Step(t) ==
  \/ ReadVersion(t) \/ ReadWord(t) \/ Validate(t) \/ Begin(t) \/ TryLock(t)
  \/ Recheck(t) \/ MarkOdd(t) \/ WriteWord(t) \/ MarkEven(t) \/ Unlock(t)

Next == \E t \in Threads : Step(t)
Spec == Init /\ [][Next]_vars

-------------------------------------------------------------------------------
(* Every load-linked returns the whole value its tag stands for, never one *)
(* torn by a store under way, and no store is lost: each one replaces the  *)
(* value of the store before it (values count the stores).                 *)
LoadsAreWhole ==
  /\ \A t \in Threads : pc[t] \in {"linked", "lock"} =>
       value[t] = wrote[tag[t] \div 2 + 1]
  /\ \A n \in DOMAIN wrote : wrote[n] = Whole(n - 1)
=============================================================================
