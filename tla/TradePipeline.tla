---------------------------- MODULE TradePipeline ----------------------------
(***************************************************************************)
(* What the path of a trade through the program promises, whatever the     *)
(* threads do: trades wait in the order of their receipt, each is accepted *)
(* into the window of its own symbol exactly once and in that order, and   *)
(* the windows only ever give up their oldest trade, and only when it is   *)
(* older than Window.  StreamProcessor implements it.                      *)
(***************************************************************************)
EXTENDS Integers, Sequences

CONSTANTS
  Symbols,   \* the symbols trades can be about
  Window     \* how long a trade stays in its window

VARIABLES
  now,       \* the system clock
  received,  \* trades received so far; a trade's id is its rank of receipt
  waiting,   \* received, and not accepted yet
  accepted,  \* per symbol: every trade its window was given
  expired    \* per symbol: how many of these have left the window

vars == <<now, received, waiting, accepted, expired>>

Items == [id : Nat, s : Symbols, t : Nat]

Init ==
  /\ now = 0 /\ received = 0 /\ waiting = {}
  /\ accepted = [s \in Symbols |-> << >>]
  /\ expired = [s \in Symbols |-> 0]

(* Time passes.                                                            *)
Advance ==
  /\ now' = now + 1
  /\ UNCHANGED <<received, waiting, accepted, expired>>

(* A trade arrives; its time is not in the future.                         *)
Receive ==
  \E s \in Symbols : \E t \in 0 .. now :
    /\ received' = received + 1
    /\ waiting' = waiting \cup {[id |-> received + 1, s |-> s, t |-> t]}
    /\ UNCHANGED <<now, accepted, expired>>

(* The trade that has waited longest enters the window of its symbol.      *)
Accept ==
  \E x \in waiting :
    /\ \A y \in waiting : x.id <= y.id
    /\ waiting' = waiting \ {x}
    /\ accepted' = [accepted EXCEPT ![x.s] = Append(@, [id |-> x.id, t |-> x.t])]
    /\ UNCHANGED <<now, received, expired>>

(* The oldest trade of a window has expired and leaves it.                 *)
Expire ==
  \E s \in Symbols :
    /\ expired[s] < Len(accepted[s])
    /\ accepted[s][expired[s] + 1].t + Window < now
    /\ expired' = [expired EXCEPT ![s] = @ + 1]
    /\ UNCHANGED <<now, received, waiting, accepted>>

Next == Advance \/ Receive \/ Accept \/ Expire

Spec == Init /\ [][Next]_vars
=============================================================================
