------------------------------- MODULE AtomicWait -------------------------------
(***************************************************************************)
(* atomic_wait and atomic_notify_all (internal/atomic_wait.h), with which  *)
(* the workers of the scheduler sleep: the three ways to block, which      *)
(* share one entry of the contention table with other addresses.           *)
(***************************************************************************)
EXTENDS Integers, FiniteSets

CONSTANTS
  Waiters, Notifiers,  \* threads
  Strategies,  \* of "futex" (on the version), "condvar", "direct"
  Nobody,      \* holds the mutex
  Versions,    \* 2 ^ width of version
  MaxNotifies  \* bound: notifications

VARIABLES
  strategy,
  value,     \* what the atomic holds
  notifies,  \* so far
  flag,      \* waiters (a mark, or a count if direct), or credit
  version, mutex,
  wpc, expected, seen,  \* the waiters: where, and the values they loaded
  npc        \* the notifiers

entry   == <<flag, version, mutex>>
waiting == <<wpc, expected, seen>>
vars    == <<strategy, value, notifies, entry, waiting, npc>>

Init ==
  /\ strategy \in Strategies
  /\ value = 0 /\ notifies = 0 /\ flag = 0 /\ version = 0 /\ mutex = Nobody
  /\ wpc = [w \in Waiters |-> "idle"] /\ npc = [k \in Notifiers |-> "idle"]
  /\ expected = [w \in Waiters |-> 0] /\ seen = [w \in Waiters |-> 0]

At(w, l)   == wpc[w] = l
Goto(w, l) == wpc' = [wpc EXCEPT ![w] = l]

(* The caller loads the value it wants to see changed.                     *)
Begin(w) ==
  /\ At(w, "idle") /\ Goto(w, "check") /\ expected' = [expected EXCEPT ![w] = value]
  /\ UNCHANGED <<strategy, value, notifies, entry, seen, npc>>

(* __cxx_atomic_wait: the spinning and the loop.                           *)
Check(w) ==
  /\ At(w, "check")
  /\ Goto(w, IF value # expected[w] THEN "returned"
             ELSE IF strategy = "condvar" THEN "lock" ELSE "announce")
  /\ UNCHANGED <<strategy, value, notifies, entry, expected, seen, npc>>

(* try_wait_slow on the version: mark, version, value, and the system      *)
(* call, which does not block if the version has changed.                  *)
MarkFutex(w) ==
  /\ At(w, "announce") /\ strategy = "futex"
  /\ flag' = 1 /\ Goto(w, "version")
  /\ UNCHANGED <<strategy, value, notifies, version, mutex, expected, seen, npc>>

LoadVersion(w) ==
  /\ At(w, "version")
  /\ seen' = [seen EXCEPT ![w] = version] /\ Goto(w, "recheck")
  /\ UNCHANGED <<strategy, value, notifies, entry, expected, npc>>

RecheckFutex(w) ==
  /\ At(w, "recheck") /\ strategy = "futex"
  /\ Goto(w, IF value # expected[w] THEN "check" ELSE "block")
  /\ UNCHANGED <<strategy, value, notifies, entry, expected, seen, npc>>

BlockFutex(w) ==
  /\ At(w, "block") /\ strategy = "futex"
  /\ Goto(w, IF version = seen[w] THEN "blocked" ELSE "check")
  /\ UNCHANGED <<strategy, value, notifies, entry, expected, seen, npc>>

(* The system call's timeout.  Fault: none.                                *)
Timeout_None(w) == FALSE /\ UNCHANGED vars
Timeout(w) ==
  /\ At(w, "blocked") /\ strategy = "futex" /\ Goto(w, "check")
  /\ UNCHANGED <<strategy, value, notifies, entry, expected, seen, npc>>

(* try_wait_slow on a condition variable: all of it holds the mutex.       *)
Lock(w) ==
  /\ At(w, "lock") \/ At(w, "relock")
  /\ mutex = Nobody /\ mutex' = w
  /\ Goto(w, IF At(w, "lock") THEN "announce" ELSE "unlock")
  /\ UNCHANGED <<strategy, value, notifies, flag, version, expected, seen, npc>>

MarkCredit(w) ==
  /\ At(w, "announce") /\ strategy = "condvar"
  /\ flag' = 1 /\ Goto(w, "recheck")
  /\ UNCHANGED <<strategy, value, notifies, version, mutex, expected, seen, npc>>

RecheckCondvar(w) ==
  /\ At(w, "recheck") /\ strategy = "condvar"
  /\ \/ value # expected[w] /\ Goto(w, "unlock") /\ UNCHANGED mutex
     \/ value = expected[w] /\ Goto(w, "blocked") /\ mutex' = Nobody
  /\ UNCHANGED <<strategy, value, notifies, flag, version, expected, seen, npc>>

Unlock(w) ==
  /\ At(w, "unlock") /\ mutex' = Nobody /\ Goto(w, "check")
  /\ UNCHANGED <<strategy, value, notifies, flag, version, expected, seen, npc>>

(* try_wait_slow on the value itself.                                      *)
Enlist(w) ==
  /\ At(w, "announce") /\ strategy = "direct"
  /\ flag' = flag + 1 /\ Goto(w, "block")
  /\ UNCHANGED <<strategy, value, notifies, version, mutex, expected, seen, npc>>

BlockDirect(w) ==
  /\ At(w, "block") /\ strategy = "direct"
  /\ Goto(w, IF value = expected[w] THEN "blocked" ELSE "delist")
  /\ UNCHANGED <<strategy, value, notifies, entry, expected, seen, npc>>

Delist(w) ==
  /\ At(w, "delist") /\ flag' = flag - 1 /\ Goto(w, "check")
  /\ UNCHANGED <<strategy, value, notifies, version, mutex, expected, seen, npc>>

-----------------------------------------------------------------------------
NAt(k, l)   == npc[k] = l
NGoto(k, l) == npc' = [npc EXCEPT ![k] = l]

(* A notification begins after the value was changed, or is for another    *)
(* address of the same entry.                                              *)
Change(k) ==
  /\ NAt(k, "idle") /\ notifies < MaxNotifies /\ notifies' = notifies + 1
  /\ value' \in {value, value + 1}
  /\ NGoto(k, IF strategy = "futex" THEN "version" ELSE "look")
  /\ UNCHANGED <<strategy, entry, waiting>>

BumpVersion(k) ==
  /\ NAt(k, "version") /\ version' = (version + 1) % Versions /\ NGoto(k, "claim")
  /\ UNCHANGED <<strategy, value, notifies, flag, mutex, waiting>>

(* The relaxed load before the exchange, or instead of it.                 *)
Look(k) ==
  /\ NAt(k, "look")
  /\ NGoto(k, IF flag = 0 THEN "idle" ELSE IF strategy = "condvar" THEN "claim" ELSE "wake")
  /\ UNCHANGED <<strategy, value, notifies, entry, waiting>>

Claim(k) ==
  /\ NAt(k, "claim") /\ flag' = 0
  /\ NGoto(k, IF flag = 0 THEN "idle" ELSE IF strategy = "condvar" THEN "lock" ELSE "wake")
  /\ UNCHANGED <<strategy, value, notifies, version, mutex, waiting>>

(* The mutex, taken and released: no waiter is between its check and its   *)
(* wait any more.                                                          *)
PassMutex(k) ==
  /\ NAt(k, "lock") /\ mutex = Nobody /\ NGoto(k, "wake")
  /\ UNCHANGED <<strategy, value, notifies, entry, waiting>>

Awakened == CASE strategy = "futex"   -> "check"
              [] strategy = "condvar" -> "relock"
              [] strategy = "direct"  -> "delist"

Wake(k) ==
  /\ NAt(k, "wake") /\ NGoto(k, "idle")
  /\ wpc' = [w \in Waiters |-> IF At(w, "blocked") THEN Awakened ELSE wpc[w]]
  /\ UNCHANGED <<strategy, value, notifies, entry, expected, seen>>

Wait(w) ==
  \/ Check(w) \/ MarkFutex(w) \/ LoadVersion(w) \/ RecheckFutex(w) \/ BlockFutex(w) \/ Timeout(w)
  \/ Lock(w) \/ MarkCredit(w) \/ RecheckCondvar(w) \/ Unlock(w)
  \/ Enlist(w) \/ BlockDirect(w) \/ Delist(w)

Notify(k) == BumpVersion(k) \/ Look(k) \/ Claim(k) \/ PassMutex(k) \/ Wake(k)

Next ==
  \/ \E w \in Waiters : Begin(w) \/ Wait(w)
  \/ \E k \in Notifiers : Change(k) \/ Notify(k)

Spec == Init /\ [][Next]_vars

(* Threads run, and a mutex that becomes free again and again is obtained. *)
FairSpec ==
  /\ Spec
  /\ \A w \in Waiters : WF_vars(Wait(w)) /\ SF_vars(Lock(w))
  /\ \A k \in Notifiers : WF_vars(Notify(k)) /\ SF_vars(PassMutex(k))

-----------------------------------------------------------------------------
(* A waiter whose value has changed returns, whatever other notifications  *)
(* take the mark it has set.                                               *)
Changed(w)  == wpc[w] # "idle" /\ value # expected[w]
Returned(w) == wpc[w] = "returned"
ChangeIsNoticed == \A w \in Waiters : Changed(w) ~> Returned(w)
=============================================================================
