--------------------------------- MODULE Epoch ---------------------------------
(***************************************************************************)
(* Epoch-based reclamation (utils/epoch.h) as the hash tables use it:      *)
(* operations run inside with_epoch, take an object from a shared link,    *)
(* put a new one in its place, and retire the old.                         *)
(*                                                                         *)
(* One action is one access to shared memory.  The pools are a thread's    *)
(* own.  A thread does not nest with_epoch.                                *)
(***************************************************************************)
EXTENDS Integers, Sequences, FiniteSets, SequencesExt

CONSTANTS
  Workers,    \* number of threads; their ids are 0 .. Workers - 1
  Writers,    \* of these, the ids of threads that put new objects
  Objects,    \* addresses
  Null,       \* no object
  Steps,      \* slots that one call of update_epoch_steps checks (8)
  Reserve,    \* entries of a reserve list that are not freed (500)
  MaxEpoch    \* bound: the last epoch

Ids == 0 .. Workers - 1

VARIABLES
  current_epoch, epoch_state, announcements,
  link,         \* the shared pointer
  freed,        \* addresses malloc may return
  pools,        \* per thread: old, current, reserve, epoch
  pc,
  e, j, state,  \* locals of announce and of update_epoch_steps
  held, victim  \* the objects an operation has read, unlinked

shared == <<current_epoch, epoch_state, announcements>>
local  == <<e, j, state>>
objs   == <<held, victim>>
vars   == <<shared, link, freed, pools, pc, local, objs>>

EmptyPool == [old |-> << >>, current |-> << >>, reserve |-> << >>, epoch |-> 0]

Init ==
  /\ current_epoch = 0 /\ epoch_state = [i |-> 0, epoch |-> 0]
  /\ announcements = [t \in Ids |-> -1]
  /\ link = (CHOOSE o \in Objects : TRUE) /\ freed = Objects \ {link}
  /\ pools = [t \in Ids |-> EmptyPool]
  /\ pc = [t \in Ids |-> "out"]
  /\ e = [t \in Ids |-> 0] /\ j = [t \in Ids |-> 0]
  /\ state = [t \in Ids |-> [i |-> 0, epoch |-> 0]]
  /\ held = [t \in Ids |-> Null] /\ victim = [t \in Ids |-> Null]

At(t, l)   == pc[t] = l
Goto(t, l) == pc' = [pc EXCEPT ![t] = l]

(* announce: until the epoch announced is still the current one.           *)
Announce(t) ==
  /\ At(t, "out") /\ Goto(t, "announce") /\ e' = [e EXCEPT ![t] = current_epoch]
  /\ UNCHANGED <<shared, link, freed, pools, j, state, objs>>

SetSlot(t) ==
  /\ At(t, "announce") /\ Goto(t, "confirm")
  /\ announcements' = [announcements EXCEPT ![t] = e[t]]
  /\ UNCHANGED <<current_epoch, epoch_state, link, freed, pools, local, objs>>

Confirm(t) ==
  /\ At(t, "confirm")
  /\ \/ current_epoch = e[t] /\ Goto(t, "in") /\ e' = [e EXCEPT ![t] = 0]
     \/ current_epoch # e[t] /\ Goto(t, "announce") /\ e' = [e EXCEPT ![t] = current_epoch]
  /\ UNCHANGED <<shared, link, freed, pools, j, state, objs>>

Unannounce(t) ==
  /\ At(t, "in") /\ Goto(t, "out")
  /\ announcements' = [announcements EXCEPT ![t] = -1]
  /\ held' = [held EXCEPT ![t] = Null]
  /\ UNCHANGED <<current_epoch, epoch_state, link, freed, pools, local, victim>>

(* The operation: it reads the link, ...                                   *)
Read(t) ==
  /\ At(t, "in") /\ held[t] = Null /\ held' = [held EXCEPT ![t] = link]
  /\ UNCHANGED <<shared, link, freed, pools, pc, local, victim>>

(* ... makes an object, in the space of the oldest one of its reserve if   *)
(* there is one (allocate_wrapper), ...                                    *)
Made(t, o) ==
  \/ /\ pools[t].reserve # << >> /\ o = Head(pools[t].reserve)
     /\ pools' = [pools EXCEPT ![t].reserve = Tail(@)] /\ UNCHANGED freed
  \/ /\ pools[t].reserve = << >> /\ o \in freed
     /\ freed' = freed \ {o} /\ UNCHANGED pools

(* ... and puts it in the place of the old one.                            *)
Swap(t) ==
  /\ At(t, "in") /\ t \in Writers /\ Goto(t, "retire")
  /\ \E o \in Objects : Made(t, o) /\ link' = o
  /\ victim' = [victim EXCEPT ![t] = link]
  /\ UNCHANGED <<shared, local, held>>

-----------------------------------------------------------------------------
(* advance_epoch: when the current epoch is that far beyond the last       *)
(* rotation, what is old can be destructed, and what is current is old.    *)
(* Fault: what is current can be, too.                                     *)
Expired(t) == pools[t].epoch + 1 < current_epoch
Rotated_AtOnce(pool) ==
  [old |-> << >>, current |-> << >>, reserve |-> pool.reserve \o pool.old \o pool.current,
   epoch |-> current_epoch]
Rotated(pool) ==
  [old |-> pool.current, current |-> << >>, reserve |-> pool.reserve \o pool.old, epoch |-> current_epoch]

(* Retire, up to the rotation: the reserve is trimmed.                     *)
Trimmed(t) == Len(pools[t].reserve) > Reserve
Retire(t) ==
  /\ At(t, "retire")
  /\ freed' = IF Trimmed(t) THEN freed \cup {Head(pools[t].reserve)} ELSE freed
  /\ pools' = IF Trimmed(t) THEN [pools EXCEPT ![t].reserve = Tail(@)] ELSE pools
  /\ Goto(t, IF Expired(t) THEN "rotate" ELSE "step")
  /\ UNCHANGED <<shared, link, local, objs>>

Rotate(t) ==
  /\ At(t, "rotate") /\ Goto(t, "step")
  /\ pools' = [pools EXCEPT ![t] = Rotated(@)]
  /\ UNCHANGED <<shared, link, freed, local, objs>>

(* The rest of Retire, after advance_epoch.                                *)
Push(t) ==
  /\ Goto(t, "in")
  /\ pools' = IF victim[t] = Null THEN pools ELSE [pools EXCEPT ![t].current = Append(@, victim[t])]
  /\ victim' = [victim EXCEPT ![t] = Null]
  /\ j' = [j EXCEPT ![t] = 0] /\ state' = [state EXCEPT ![t] = [i |-> 0, epoch |-> 0]]

(* update_epoch_steps: not at this retire (only every tenth calls it), or  *)
(* the state has changed since the thread's last call; else it goes on     *)
(* where the state is.  Retires of objects of other types call it too.     *)
RetireOther(t) ==
  /\ At(t, "in") /\ Goto(t, "step")
  /\ UNCHANGED <<shared, link, freed, pools, local, objs>>

StepEpoch(t) ==
  /\ At(t, "step")
  /\ \/ Push(t)
     \/ /\ state' = [state EXCEPT ![t] = epoch_state] /\ j' = [j EXCEPT ![t] = epoch_state.i]
        /\ Goto(t, IF epoch_state.i = Workers THEN "advance" ELSE "sweep")
        /\ UNCHANGED <<pools, victim>>
  /\ UNCHANGED <<shared, link, freed, e, held>>

(* A slot that is behind ends the call.  (It is read twice: if it is reset *)
(* in between, the call ends too, as if it had been behind.)               *)
SlotPasses(k, epoch) == announcements[k] = -1 \/ announcements[k] >= epoch
Sweep(t) ==
  /\ At(t, "sweep")
  /\ \/ ~SlotPasses(j[t], state[t].epoch) /\ Push(t)
     \/ /\ SlotPasses(j[t], state[t].epoch)
        /\ j' = [j EXCEPT ![t] = @ + 1]
        /\ Goto(t, IF j[t] + 1 = Workers \/ j[t] + 1 = state[t].i + Steps THEN "save" ELSE "sweep")
        /\ UNCHANGED <<pools, state, victim>>
  /\ UNCHANGED <<shared, link, freed, e, held>>

(* All slots have been seen: the epoch.                                    *)
Advance(t) ==
  /\ At(t, "advance") /\ current_epoch < MaxEpoch /\ Goto(t, "save")
  /\ current_epoch' = IF current_epoch = state[t].epoch THEN current_epoch + 1 ELSE current_epoch
  /\ UNCHANGED <<epoch_state, announcements, link, freed, pools, local, objs>>

Save(t) ==
  /\ At(t, "save") /\ Push(t)
  /\ epoch_state' =
       IF epoch_state # state[t] THEN epoch_state
       ELSE IF state[t].i = Workers THEN [i |-> 0, epoch |-> state[t].epoch + 1]
       ELSE [i |-> j[t], epoch |-> state[t].epoch]
  /\ UNCHANGED <<current_epoch, announcements, link, freed, e, held>>

Step(t) ==
  \/ Announce(t) \/ SetSlot(t) \/ Confirm(t) \/ Unannounce(t) \/ Read(t) \/ Swap(t)
  \/ Retire(t) \/ Rotate(t) \/ RetireOther(t) \/ StepEpoch(t) \/ Sweep(t) \/ Advance(t) \/ Save(t)

Next == \E t \in Ids : Step(t)

Spec == Init /\ [][Next]_vars

-----------------------------------------------------------------------------
(* Addresses whose object is destructed: free, or to be used again.        *)
Destructed == freed \cup UNION {ToSet(pools[t].reserve) : t \in Ids}

(* "Retire delays destruction and free until no operation that was in a    *)
(* with_epoch at the time it was run is still within the with_epoch"       *)
(* (epoch.h:9): what an operation has read stays an object.                *)
HeldNotDestructed == \A t \in Ids : held[t] # Null => held[t] \notin Destructed
=============================================================================
