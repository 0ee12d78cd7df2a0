------------------------------ MODULE HazptrStack ------------------------------
(***************************************************************************)
(* The lock-free stack of parlay/internal/concurrency/hazptr_stack.h with  *)
(* the hazard pointers of acquire_retire.h: a thread announces the node it *)
(* is about to look into, a node taken off is kept on a list of the thread *)
(* that took it, threaded through the node's own next pointer, and deleted *)
(* when no announcement names it. An address is used again once deleted.   *)
(* The stack holds the numbers of the pushes.                              *)
(***************************************************************************)
EXTENDS Integers, Sequences, FiniteSets, FiniteSetsExt

CONSTANTS
  Threads,
  Nodes,     \* addresses
  Null,
  Threshold, \* retires before a collection (the code's 30, or more threads)
  MaxPushes  \* bound

VARIABLES
  head,
  node,         \* node[a]: what is at the address; free or the fields
  announcement,
  retired,      \* head of the retired list of each thread
  work,         \* amortized_work
  me,           \* the locals of every thread
  pushes,
  content       \* the stack as the calls so far leave it, top first

vars == <<head, node, announcement, retired, work, me, pushes, content>>

Free == [live |-> FALSE, t |-> 0, next |-> Null, length |-> 0]
Idle == [pc |-> "idle", op |-> "none", p |-> Null, h |-> Null, next |-> Null,
         left |-> {}, announced |-> {}]

(* The first push has been done. *)
First == CHOOSE a \in Nodes : TRUE

Init ==
  /\ head = First
  /\ node = [a \in Nodes |-> IF a = First THEN [Free EXCEPT !.live = TRUE, !.t = 1, !.length = 1]
                             ELSE Free]
  /\ announcement = [t \in Threads |-> Null]
  /\ retired = [t \in Threads |-> Null]
  /\ work = [t \in Threads |-> 0]
  /\ me = [t \in Threads |-> Idle]
  /\ pushes = 1
  /\ content = <<1>>

Goto(t, l, pc) == me' = [me EXCEPT ![t] = [l EXCEPT !.pc = pc]]

Push(t) ==
  /\ me[t].pc = "idle"
  /\ pushes < MaxPushes
  /\ pushes' = pushes + 1
  /\ \E a \in Nodes :
       /\ ~node[a].live
       /\ node' = [node EXCEPT ![a] = [live |-> TRUE, t |-> pushes', next |-> Null,
                                       length |-> 1]]
       /\ Goto(t, [Idle EXCEPT !.op = "push", !.p = a], "load")
  /\ UNCHANGED <<head, announcement, retired, work, content>>

Pop(t) ==
  /\ me[t].pc = "idle"
  /\ Goto(t, [Idle EXCEPT !.op = "pop"], "load")
  /\ UNCHANGED <<head, node, announcement, retired, work, pushes, content>>

(* acquire: load, announce, and load again until they agree.               *)
Load(t) ==
  /\ me[t].pc = "load"
  /\ Goto(t, [me[t] EXCEPT !.h = head], "announce")
  /\ UNCHANGED <<head, node, announcement, retired, work, pushes, content>>

(* Fault: the pointer is not loaded again. *)
Confirmed_Always(t) == TRUE

Confirmed(t) == head = me[t].h

Announce(t) ==
  /\ me[t].pc = "announce"
  /\ announcement' = [announcement EXCEPT ![t] = me[t].h]
  /\ Goto(t, me[t], "confirm")
  /\ UNCHANGED <<head, node, retired, work, pushes, content>>

Confirm(t) ==
  LET l == me[t]
  IN  /\ l.pc = "confirm"
      /\ Goto(t, l, IF ~Confirmed(t) THEN "load"
                    ELSE IF l.op = "push" THEN "link"
                    ELSE IF l.h = Null THEN "idle" ELSE "next")
      /\ UNCHANGED <<head, node, announcement, retired, work, pushes, content>>

(* push: link the new node before the head, and put it there.              *)
Link(t) ==
  LET l == me[t]
  IN  /\ l.pc = "link"
      /\ node' = [node EXCEPT ![l.p].next = l.h,
                              ![l.p].length = IF l.h = Null THEN 1 ELSE node[l.h].length + 1]
      /\ Goto(t, l, "cas")
      /\ UNCHANGED <<head, announcement, retired, work, pushes, content>>

PushCas(t) ==
  LET l == me[t]
  IN  /\ l.pc = "cas" /\ l.op = "push"
      /\ \/ /\ head # l.h
            /\ node' = [node EXCEPT ![l.p].next = head]
            /\ Goto(t, l, "load")
            /\ UNCHANGED <<head, content>>
         \/ /\ head = l.h
            /\ head' = l.p
            /\ content' = <<node[l.p].t>> \o content
            /\ Goto(t, l, "release")
            /\ UNCHANGED node
      /\ UNCHANGED <<announcement, retired, work, pushes>>

(* pop: read the next pointer of the head, and put that there.             *)
ReadNext(t) ==
  LET l == me[t]
  IN  /\ l.pc = "next"
      /\ Goto(t, [l EXCEPT !.next = node[l.h].next], "cas")
      /\ UNCHANGED <<head, node, announcement, retired, work, pushes, content>>

PopCas(t) ==
  LET l == me[t]
  IN  /\ l.pc = "cas" /\ l.op = "pop"
      /\ \/ /\ head # l.h
            /\ Goto(t, l, "load")
            /\ UNCHANGED <<head, content>>
         \/ /\ head = l.h
            /\ head' = l.next
            /\ content' = IF content = <<>> THEN <<>> ELSE Tail(content)
            /\ Goto(t, l, "retire")
      /\ UNCHANGED <<node, announcement, retired, work, pushes>>

(* retire: the node joins the thread's list, and every Threshold retires   *)
(* the announcements are read, one thread after another.                   *)
Retire(t) ==
  LET l == me[t]
  IN  /\ l.pc = "retire"
      /\ node' = [node EXCEPT ![l.h].next = retired[t]]
      /\ retired' = [retired EXCEPT ![t] = l.h]
      /\ work' = [work EXCEPT ![t] = (@ + 1) % Threshold]
      /\ IF work'[t] = 0 THEN Goto(t, [l EXCEPT !.left = Threads], "scan")
                         ELSE Goto(t, l, "release")
      /\ UNCHANGED <<head, announcement, pushes, content>>

ScanSlot(t) ==
  LET l == me[t]
  IN  /\ l.pc = "scan"
      /\ \E u \in l.left :
           Goto(t, [l EXCEPT !.left = @ \ {u}, !.announced = @ \cup {announcement[u]}],
                IF l.left = {u} THEN "cleanup" ELSE "scan")
      /\ UNCHANGED <<head, node, announcement, retired, work, pushes, content>>

(* The nodes of the chain that starts at a, first to last. *)
Chain(a) ==
  LET at[n \in 0 .. Cardinality(Nodes)] ==
        IF n = 0 THEN a ELSE IF at[n - 1] = Null THEN Null ELSE node[at[n - 1]].next
  IN  [n \in 1 .. Cardinality({i \in 1 .. Cardinality(Nodes) : at[i - 1] # Null}) |-> at[n - 1]]

(* cleanup: the list keeps the announced nodes, the others are deleted.    *)
Cleanup(t) ==
  LET l     == me[t]
      chain == Chain(retired[t])
      kept  == {n \in DOMAIN chain : chain[n] \in l.announced}
      KeptAfter(n) == IF kept \ 1 .. n = {} THEN Null ELSE chain[Min(kept \ 1 .. n)]
  IN  /\ l.pc = "cleanup"
      /\ node' = [a \in Nodes |->
           IF \E n \in kept : chain[n] = a
           THEN [node[a] EXCEPT !.next = KeptAfter(CHOOSE n \in kept : chain[n] = a)]
           ELSE IF \E n \in DOMAIN chain : chain[n] = a THEN Free
           ELSE node[a]]
      /\ retired' = [retired EXCEPT ![t] = KeptAfter(0)]
      /\ Goto(t, [l EXCEPT !.announced = {}], "release")
      /\ UNCHANGED <<head, announcement, work, pushes, content>>

Release(t) ==
  /\ me[t].pc = "release"
  /\ announcement' = [announcement EXCEPT ![t] = Null]
  /\ me' = [me EXCEPT ![t] = Idle]
  /\ UNCHANGED <<head, node, retired, work, pushes, content>>

Step(t) ==
  \/ Push(t) \/ Pop(t) \/ Load(t) \/ Announce(t) \/ Confirm(t) \/ Link(t)
  \/ PushCas(t) \/ ReadNext(t) \/ PopCas(t) \/ Retire(t) \/ ScanSlot(t)
  \/ Cleanup(t) \/ Release(t)

Next == \E t \in Threads : Step(t)
Spec == Init /\ [][Next]_vars

-------------------------------------------------------------------------------
(* The nodes from the head are the stack the calls built, in their order   *)
(* and with the right lengths, and no thread looks into a deleted node:    *)
(* not even when an address has come back with another element.            *)
StackIsWhole ==
  /\ [n \in DOMAIN Chain(head) |-> node[Chain(head)[n]].t] = content
  /\ \A n \in DOMAIN Chain(head) :
       LET a == node[Chain(head)[n]]
       IN  a.live /\ a.length = Len(content) - n + 1
  /\ \A t \in Threads :
       me[t].pc \in {"link", "next", "retire"} /\ me[t].h # Null => node[me[t].h].live
=============================================================================
